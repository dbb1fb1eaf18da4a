---------------------- MODULE CBXCUITestServerRefinement ----------------------
(***************************************************************************)
(* The server implements SerialService, for any set of connections and any *)
(* number of requests.  What the service calls a step is a step of one of  *)
(* the queues; every other step of the server leaves the service as it is: *)
(*                                                                         *)
(*   Open      connect                                                     *)
(*   Submit    send                                                        *)
(*   Drop      hangUp, stopConnection, didWriteData of a last response     *)
(*   Begin     handleRoute                                                 *)
(*   End       returnFromRoute                                             *)
(*   Refuse    didReadData of an invalid request                           *)
(*   Answer    replyToHTTPRequest, or completeCurrentWrite of a large one  *)
(*                                                                         *)
(* The inductive invariant of CBXCUITestServerProofs is what makes each of *)
(* them the service's step: the handler serves the head of connectionQueue,*)
(* which is the current request of its connection.                         *)
(***************************************************************************)
EXTENDS CBXCUITestServerProofs

(* The two variables of the service that the server does not have. *)
Serving == IF InHandler THEN Head(mainQueue).conn ELSE NoConn

LinkOf(s) == CASE s = "none" -> "none"
               [] s \in {"accepting", "open"} -> "up"
               [] s = "closed" -> "gone"

Link == [c \in Conn |-> LinkOf(sock[c])]

(* Nothing the service can see has changed. *)
Unseen == UNCHANGED <<requests, taken, answered>> /\ Serving' = Serving /\ Link' = Link

LEMMA UnseenIsStutter == Unseen => UNCHANGED Service!vars
  BY DEF Unseen, Service!vars, Serving, Link, LinkOf, InHandler

LEMMA LinkValues ==
  /\ LinkOf("none") = "none" /\ LinkOf("accepting") = "up"
  /\ LinkOf("open") = "up" /\ LinkOf("closed") = "gone"
  BY DEF LinkOf

(* One socket changes, and with it at most one link. *)
LEMMA LinkChanges ==
  ASSUME TypeOK, NEW c \in Conn, NEW s, sock' = [sock EXCEPT ![c] = s]
  PROVE  /\ Link' = [Link EXCEPT ![c] = LinkOf(s)]
         /\ Link[c] = LinkOf(sock[c])
         /\ LinkOf(s) = LinkOf(sock[c]) => Link' = Link
  BY DEF Link, TypeOK

LEMMA LinkStays == sock' = sock => Link' = Link
  BY DEF Link

(* A handler is served by the block at the head of the main queue.  A block *)
(* put at its end does not change that.                                     *)
LEMMA ServingStays ==
  ASSUME IInv, mainBlock' = mainBlock \/ (~InHandler /\ ~InHandler'),
         \/ mainQueue' = mainQueue
         \/ \E b \in MainBlock : mainQueue' = Append(mainQueue, b)
         \/ ~InHandler
  PROVE  Serving' = Serving
  <1>1. CASE ~InHandler
    BY <1>1 DEF Serving, InHandler
  <1>2. CASE InHandler
    <2>1. InHandler' /\ mainQueue # <<>> /\ mainQueue \in Seq(MainBlock)
      BY <1>2 DEF IInv, TypeOK, SyncIsPaired, InHandler
    <2>2. Head(mainQueue') = Head(mainQueue)
      BY <1>2, <2>1, HeadStays
    <2>3. QED
      BY <1>2, <2>1, <2>2 DEF Serving
  <1>3. QED
    BY <1>1, <1>2

(* While a handler runs, the connection it serves is the one whose request  *)
(* is at the head of connectionQueue.                                       *)
LEMMA ServingFacts ==
  ASSUME IInv, InHandler
  PROVE  /\ connectionQueue # <<>> /\ mainQueue # <<>>
         /\ Head(mainQueue).op = "route"
         /\ Head(connectionQueue) = Blk("read", Head(mainQueue).conn, Head(mainQueue).n)
         /\ dispatched = "waiting"
         /\ Serving = Head(mainQueue).conn
  <1> USE DEF IInv
  <1>1. mainQueue # <<>> /\ Head(mainQueue).op = "route"
    BY DEF SyncIsPaired
  <1>2. 1 \in 1 .. Len(mainQueue) /\ Head(mainQueue) = mainQueue[1]
    BY <1>1, QueueFacts DEF TypeOK
  <1>3. QED
    BY <1>1, <1>2 DEF HandlerServesTheHead, Serving

(* A block of connectionQueue that is run while no handler is. *)
LEMMA NobodyIsServed ==
  ASSUME IInv, dispatched # "waiting"
  PROVE  ~InHandler /\ Serving = NoConn
  BY ServingFacts DEF Serving
-------------------------------------------------------------------------------
(* Clients and sockets. *)
LEMMA ConnectOpens ==
  ASSUME IInv, NEW c \in Conn, connect(c) PROVE Service!Open(c)
  <1>1. sock[c] = "none" /\ sock' = [sock EXCEPT ![c] = "accepting"]
    BY DEF connect
  <1>2. Link[c] = "none" /\ Link' = [Link EXCEPT ![c] = "up"]
    BY <1>1, LinkChanges, LinkValues DEF IInv
  <1>3. Serving' = Serving
    BY ServingStays DEF connect
  <1>4. UNCHANGED <<requests, taken, answered>>
    BY DEF connect, protocolVars
  <1>5. QED
    BY <1>2, <1>3, <1>4 DEF Service!Open, Serving, Link, LinkOf, InHandler

LEMMA SendSubmits ==
  ASSUME IInv, NEW c \in Conn, NEW kind \in Kinds, send(c, kind)
  PROVE  Service!Submit(c, kind)
  <1>1. Link[c] = "up" /\ Link' = Link
    BY LinkValues DEF send, Link
  <1>2. Serving' = Serving
    BY ServingStays DEF send
  <1>3. requests' = [requests EXCEPT ![c] = Append(@, kind)] /\ UNCHANGED <<taken, answered>>
    BY DEF send
  <1>4. QED
    BY <1>1, <1>2, <1>3 DEF Service!Submit, Serving, Link, LinkOf, InHandler

(* A socket that is closed, by whoever closes it. *)
LEMMA CloseDrops ==
  ASSUME IInv, NEW c \in Conn, NEW queue, closeWithError(c, queue), sock[c] = "open",
         UNCHANGED <<requests, taken, answered, mainQueue, mainBlock>>
  PROVE  Service!Drop(c)
  <1>1. Link[c] = "up" /\ Link' = [Link EXCEPT ![c] = "gone"]
    BY LinkChanges, LinkValues DEF IInv, closeWithError
  <1>2. Serving' = Serving
    BY ServingStays
  <1>3. QED
    BY <1>1, <1>2 DEF Service!Drop, Serving, Link, LinkOf, InHandler

LEMMA DisconnectDrops ==
  ASSUME IInv, NEW c \in Conn, NEW queue, disconnect(c, queue),
         UNCHANGED <<requests, taken, answered, mainQueue, mainBlock>>
  PROVE  Service!Drop(c) \/ Unseen
  <1>1. CASE sock[c] = "open"
    BY <1>1, CloseDrops DEF disconnect
  <1>2. CASE sock[c] # "open"
    BY <1>2, ServingStays, LinkStays DEF disconnect, Unseen
  <1>3. QED
    BY <1>1, <1>2

(* The rest of a large response is sent while another connection is served, *)
(* never the one it belongs to: that one's request would be the head of     *)
(* connectionQueue and its write would be over.                             *)
LEMMA CompleteCurrentWriteAnswers ==
  ASSUME IInv, NEW c \in Conn, completeCurrentWrite(c) PROVE Service!Answer(c)
  <1> USE DEF IInv
  <1>1. /\ sock[c] = "open" /\ writing[c] # 0
        /\ answered' = [answered EXCEPT ![c] = writing[c]]
        /\ UNCHANGED <<sock, requests, taken, mainQueue, mainBlock>>
    BY DEF completeCurrentWrite
  <1>2. writing[c] = taken[c] /\ writing[c] = answered[c] + 1
    BY <1>1 DEF SocketIsCurrent, ExchangeIsCurrent
  <1>3. answered[c] < taken[c]
    BY <1>2 DEF TypeOK
  <1>4. Serving # c
    <2>1. CASE InHandler
      <3>1. SUFFICES ASSUME Head(mainQueue).conn = c PROVE FALSE
        BY <2>1, ServingFacts
      <3>2. 1 \in 1 .. Len(connectionQueue) /\ Head(connectionQueue) = connectionQueue[1]
        <4>1. connectionQueue # <<>>
          BY <2>1, ServingFacts
        <4>2. QED
          BY <4>1, QueueFacts DEF TypeOK
      <3>3. connectionQueue[1].op = "read" /\ connectionQueue[1].conn = c
        BY <2>1, <3>1, <3>2, ServingFacts DEF Blk
      <3>4. writing[c] = 0
        BY <3>2, <3>3 DEF TurnIsCurrent, BlockIsCurrent, IsTurn
      <3>5. QED
        BY <1>1, <3>4
    <2>2. CASE ~InHandler
      BY <2>2, ServerAssumption DEF Serving
    <2>3. QED
      BY <2>1, <2>2
  <1>5. Serving' = Serving
    BY <1>1, ServingStays
  <1>6. Link[c] = "up" /\ Link' = Link
    BY <1>1, LinkStays, LinkValues DEF Link
  <1>7. answered' = [answered EXCEPT ![c] = taken[c]]
    BY <1>1, <1>2
  <1>8. QED
    BY <1>1, <1>3, <1>4, <1>5, <1>6, <1>7 DEF Service!Answer, Serving, Link, LinkOf, InHandler
-------------------------------------------------------------------------------
(* Blocks of connectionQueue. *)

(* The block of a request is about the one request its connection has not   *)
(* answered, which is taken up once a handler has started on it.            *)
LEMMA ReadHeadFacts ==
  ASSUME IInv, NEW c \in Conn, IsHead(connectionQueue, "read", c)
  PROVE  LET k == Head(connectionQueue).n
         IN  /\ k = answered[c] + 1 /\ k \in 1 .. Len(requests[c])
             /\ sock[c] \in {"open", "closed"}
             /\ HeadIsServed => taken[c] = k
             /\ ~HeadIsServed => taken[c] = k - 1
  <1> USE DEF IInv
  <1> DEFINE b == connectionQueue[1]
  <1>1. connectionQueue # <<>> /\ connectionQueue \in Seq(ConnectionBlock)
    BY DEF IsHead, TypeOK
  <1>2. 1 \in 1 .. Len(connectionQueue) /\ Head(connectionQueue) = b
    BY <1>1, QueueFacts
  <1>3. b.op = "read" /\ b.conn = c
    BY <1>2 DEF IsHead
  <1>4. BlockIsCurrent(b)
    BY <1>2 DEF TurnIsCurrent
  <1>5. taken[c] = IF HeadIsServed THEN b.n ELSE b.n - 1
    BY <1>2, <1>3 DEF ServedIsTaken
  <1> HIDE DEF b
  <1>6. /\ b.n = answered[c] + 1 /\ b.n \in 1 .. Len(requests[c])
        /\ sock[c] \in {"open", "closed"}
    BY <1>3, <1>4 DEF BlockIsCurrent, IsTurn
  <1>7. QED
    BY <1>2, <1>5, <1>6

(* A refused request is the next one of its connection. *)
LEMMA DidReadDataRefuses ==
  ASSUME IInv, NEW c \in Conn, didReadData(c) PROVE Service!Refuse(c) \/ Unseen
  <1> DEFINE k == Head(connectionQueue).n
  <1>1. /\ IsHead(connectionQueue, "read", c) /\ dispatched = "no"
        /\ UNCHANGED <<sock, requests, mainBlock>>
    BY DEF didReadData
  <1>2. ~InHandler /\ ~HeadIsServed
    BY <1>1, NobodyServed DEF HeadIsServed
  <1>3. /\ k = answered[c] + 1 /\ k \in 1 .. Len(requests[c])
        /\ sock[c] \in {"open", "closed"} /\ taken[c] = k - 1
    BY <1>1, <1>2, ReadHeadFacts
  <1>4. Serving' = Serving /\ Link' = Link
    BY <1>1, <1>2, ServingStays, LinkStays
  <1>5. CASE requests[c][k] = "invalid"
    <2>1. taken' = [taken EXCEPT ![c] = k] /\ writeResponse(c, k, Tail(connectionQueue))
      BY <1>5 DEF didReadData
    <2>2. taken[c] \in Nat /\ answered[c] \in Nat /\ Len(requests[c]) \in Nat
      BY LenProperties DEF IInv, TypeOK
    <2>3. taken[c] = answered[c] /\ taken[c] < Len(requests[c]) /\ k = taken[c] + 1
      BY <1>3, <2>2
    <2>4. taken' = [taken EXCEPT ![c] = @ + 1]
      BY <2>1, <2>3
    <2>5. Link[c] # "none" /\ (Link[c] = "up" <=> sock[c] = "open")
      BY <1>3, LinkValues DEF Link
    <2>6. answered' = IF Link[c] = "up" THEN [answered EXCEPT ![c] = @ + 1] ELSE answered
      BY <1>3, <1>5, <2>1, <2>5 DEF writeResponse
    <2>7. Service!NextRequest(c)
      BY <2>3, <2>5 DEF Service!NextRequest, Link, LinkOf
    <2>8. Service!Refuse(c)
      BY <1>1, <1>4, <2>4, <2>6, <2>7 DEF Service!Refuse, Serving, Link, LinkOf, InHandler
    <2>9. QED
      BY <2>8
  <1>6. CASE requests[c][k] # "invalid"
    BY <1>1, <1>4, <1>6 DEF didReadData, Unseen
  <1>7. QED
    BY <1>5, <1>6

(* The reply of a handler answers the request it took up. *)
LEMMA ReplyToHTTPRequestAnswers ==
  ASSUME IInv, NEW c \in Conn, replyToHTTPRequest(c) PROVE Service!Answer(c) \/ Unseen
  <1> DEFINE k == Head(connectionQueue).n
  <1>1. /\ IsHead(connectionQueue, "read", c) /\ dispatched = "returned"
        /\ writeResponse(c, k, Tail(connectionQueue))
        /\ UNCHANGED <<sock, requests, taken, mainQueue, mainBlock>>
    BY DEF replyToHTTPRequest
  <1>2. Serving = NoConn /\ Serving # c
    BY <1>1, NobodyIsServed, ServerAssumption
  <1>3. k = answered[c] + 1 /\ taken[c] = k
    BY <1>1, ReadHeadFacts DEF HeadIsServed
  <1>4. Serving' = Serving /\ Link' = Link
    BY <1>1, ServingStays, LinkStays
  <1>5. CASE sock[c] = "open" /\ requests[c][k] # "tree"
    <2>1. answered' = [answered EXCEPT ![c] = taken[c]]
      BY <1>1, <1>3, <1>5 DEF writeResponse
    <2>2. answered[c] < taken[c]
      BY <1>3 DEF IInv, TypeOK
    <2>3. Link[c] = "up"
      BY <1>5, LinkValues DEF Link
    <2>4. Service!Answer(c)
      BY <1>1, <1>2, <1>4, <2>1, <2>2, <2>3
      DEF Service!Answer, Serving, Link, LinkOf, InHandler
    <2>5. QED
      BY <2>4
  <1>6. CASE ~(sock[c] = "open" /\ requests[c][k] # "tree")
    BY <1>1, <1>4, <1>6 DEF writeResponse, Unseen
  <1>7. QED
    BY <1>5, <1>6

LEMMA ConnectionStepServes ==
  ASSUME IInv, NEW c \in Conn, ConnectionStep(c)
  PROVE  Service!Drop(c) \/ Service!Refuse(c) \/ Service!Answer(c) \/ Unseen
  <1>1. CASE startConnection(c)
    BY <1>1, ServingStays, LinkStays DEF startConnection, Unseen
  <1>2. CASE stopConnection(c)
    BY <1>2, DisconnectDrops DEF stopConnection
  <1>3. CASE didReadData(c)
    BY <1>3, DidReadDataRefuses
  <1>4. CASE replyToHTTPRequest(c)
    BY <1>4, ReplyToHTTPRequestAnswers
  <1>5. CASE didWriteData(c)
    <2> DEFINE last == shouldDie(requests[c][Head(connectionQueue).n])
    <2>1. UNCHANGED <<requests, taken, answered, mainQueue, mainBlock>>
      BY <1>5 DEF didWriteData
    <2>2. CASE last
      <3>1. disconnect(c, Tail(connectionQueue))
        BY <1>5, <2>2 DEF didWriteData
      <3>2. QED
        BY <2>1, <3>1, DisconnectDrops
    <2>3. CASE ~last
      <3>1. sock' = sock
        BY <1>5, <2>3 DEF didWriteData
      <3>2. QED
        BY <2>1, <3>1, ServingStays, LinkStays DEF Unseen
    <2>4. QED
      BY <2>2, <2>3
  <1>6. CASE socketDidDisconnect(c)
    BY <1>6, ServingStays, LinkStays DEF socketDidDisconnect, Unseen, protocolVars
  <1>7. QED
    BY <1>1, <1>2, <1>3, <1>4, <1>5, <1>6 DEF ConnectionStep
-------------------------------------------------------------------------------
(* Blocks of the main queue. *)

(* The request a handler starts on is the one connectionQueue waits for. *)
LEMMA HandleRouteBegins ==
  ASSUME IInv, NEW c \in Conn, handleRoute(c) PROVE Service!Begin(c)
  <1> USE DEF IInv
  <1> DEFINE k == Head(mainQueue).n
  <1>1. /\ mainBlock = "none" /\ IsHead(mainQueue, "route", c)
        /\ taken' = [taken EXCEPT ![c] = k]
        /\ mainBlock' \in {"runSync", "handler"}
        /\ UNCHANGED <<sock, requests, answered, mainQueue>>
    BY DEF handleRoute
  <1>2. ~InHandler /\ Serving = NoConn
    BY <1>1 DEF Serving, InHandler
  <1>3. 1 \in 1 .. Len(mainQueue) /\ Head(mainQueue) = mainQueue[1]
    BY <1>1, QueueFacts DEF IsHead, TypeOK
  <1>4. /\ dispatched = "waiting" /\ connectionQueue # <<>>
        /\ Head(connectionQueue) = Blk("read", c, k)
    BY <1>1, <1>3 DEF HandlerServesTheHead, IsHead
  <1>5. IsHead(connectionQueue, "read", c) /\ Head(connectionQueue).n = k
    BY <1>4 DEF IsHead, Blk
  <1>6. ~HeadIsServed
    BY <1>2, <1>4 DEF HeadIsServed
  <1>7. /\ k = answered[c] + 1 /\ k \in 1 .. Len(requests[c])
        /\ sock[c] \in {"open", "closed"} /\ taken[c] = k - 1
    BY <1>5, <1>6, ReadHeadFacts
  <1>8. taken[c] \in Nat /\ answered[c] \in Nat /\ Len(requests[c]) \in Nat
    BY LenProperties DEF TypeOK
  <1>9. taken[c] = answered[c] /\ taken[c] < Len(requests[c]) /\ k = taken[c] + 1
    BY <1>7, <1>8
  <1>10. Link[c] # "none" /\ Link' = Link
    BY <1>1, <1>7, LinkStays, LinkValues DEF Link
  <1>11. Service!NextRequest(c)
    BY <1>9, <1>10 DEF Service!NextRequest, Link, LinkOf
  <1>12. Serving' = c
    BY <1>1 DEF Serving, InHandler, IsHead
  <1>13. taken' = [taken EXCEPT ![c] = @ + 1]
    BY <1>1, <1>9
  <1>14. QED
    BY <1>1, <1>2, <1>10, <1>11, <1>12, <1>13
    DEF Service!Begin, Serving, Link, LinkOf, InHandler

LEMMA ReturnFromRouteEnds ==
  ASSUME IInv, NEW c \in Conn, returnFromRoute(c) PROVE Service!End
  <1>1. /\ mainBlock = "handler" /\ IsHead(mainQueue, "route", c) /\ mainBlock' = "none"
        /\ UNCHANGED <<sock, requests, taken, answered>>
    BY DEF returnFromRoute, protocolVars
  <1>2. Serving = c /\ Serving # NoConn /\ Serving' = NoConn
    BY <1>1, ServerAssumption DEF Serving, InHandler, IsHead
  <1>3. Link' = Link
    BY <1>1, LinkStays
  <1>4. QED
    BY <1>1, <1>2, <1>3 DEF Service!End, Serving, Link, LinkOf, InHandler
-------------------------------------------------------------------------------
(* The steps the service does not see. *)
LEMMA ServerStepIsUnseen ==
  ASSUME IInv, NEW c \in Conn, ServerStep(c) PROVE Unseen
  <1>1. CASE doAccept(c)
    <2>1. sock' = [sock EXCEPT ![c] = "open"] /\ IsHead(serverQueue, "accept", c)
      BY <1>1 DEF doAccept
    <2>2. 1 \in 1 .. Len(serverQueue) /\ serverQueue[1].op = "accept" /\ serverQueue[1].conn = c
      BY <2>1, ServerHeadFacts
    <2>3. sock[c] = "accepting"
      BY <2>2 DEF IInv, AcceptIsPending
    <2>4. Link' = Link
      <3>1. LinkOf("open") = LinkOf(sock[c])
        BY <2>3, LinkValues
      <3>2. QED
        BY <2>1, <3>1, LinkChanges DEF IInv
    <2>5. QED
      BY <1>1, <2>4, ServingStays DEF doAccept, Unseen, protocolVars
  <1>2. CASE initWithAsyncSocket(c)
    BY <1>2, ServingStays, LinkStays DEF initWithAsyncSocket, Unseen, protocolVars
  <1>3. CASE didAcceptNewSocket(c)
    BY <1>3, ServingStays, LinkStays DEF didAcceptNewSocket, Unseen, protocolVars
  <1>4. QED
    BY <1>1, <1>2, <1>3 DEF ServerStep

LEMMA StopIsUnseen ==
  ASSUME IInv, stopServer \/ stop PROVE Unseen
  <1>1. ~InHandler /\ ~InHandler'
    <2>1. CASE stopServer
      <3>1. IsHead(serverQueue, "stop", NoConn) /\ mainBlock' = "stopped"
        BY <2>1 DEF stopServer
      <3>2. 1 \in 1 .. Len(serverQueue) /\ serverQueue[1].op = "stop"
        BY <3>1, ServerHeadFacts
      <3>3. mainBlock = "stopping"
        BY <3>2 DEF IInv, AcceptIsPending
      <3>4. QED
        BY <3>1, <3>3 DEF InHandler
    <2>2. CASE stop
      BY <2>2 DEF stop, InHandler
    <2>3. QED
      BY <2>1, <2>2
  <1>2. Serving' = Serving
    BY <1>1 DEF Serving
  <1>3. Link' = Link
    BY LinkStays DEF stopServer, stop
  <1>4. UNCHANGED <<requests, taken, answered>>
    BY DEF stopServer, stop, protocolVars
  <1>5. QED
    BY <1>2, <1>3, <1>4 DEF Unseen

LEMMA RunnerStepIsUnseen ==
  ASSUME IInv, start \/ RunnerStep \/ setToTrueWhenDone \/ shutdownDelay PROVE Unseen
  <1>1. CASE start
    BY <1>1, ServingStays, LinkStays DEF start, Unseen, protocolVars
  <1>2. CASE RunnerStep
    BY <1>2, ServingStays, LinkStays
    DEF RunnerStep, leaveRunLoop, finishTest, Unseen, protocolVars
  <1>3. CASE setToTrueWhenDone
    <2>1. Serving' = Serving
      BY <1>3 DEF setToTrueWhenDone, Serving, InHandler
    <2>2. QED
      BY <1>3, <2>1, LinkStays DEF setToTrueWhenDone, Unseen, protocolVars
  <1>4. CASE shutdownDelay
    <2>1. Blk("stop", NoConn, 0) \in MainBlock
      BY DEF Blk, Block, MainBlock
    <2>2. mainQueue' = Append(mainQueue, Blk("stop", NoConn, 0)) /\ mainBlock' = mainBlock
      BY <1>4 DEF shutdownDelay
    <2>3. Serving' = Serving
      BY <2>1, <2>2, ServingStays
    <2>4. QED
      BY <1>4, <2>3, LinkStays DEF shutdownDelay, Unseen, protocolVars
  <1>5. QED
    BY <1>1, <1>2, <1>3, <1>4

LEMMA SocketStepServes ==
  ASSUME IInv, NEW c \in Conn, SocketStep(c) PROVE Service!Answer(c) \/ Unseen
  <1>1. CASE completeCurrentRead(c)
    BY <1>1, ServingStays, LinkStays DEF completeCurrentRead, Unseen
  <1>2. CASE completeCurrentWrite(c)
    BY <1>2, CompleteCurrentWriteAnswers
  <1>3. QED
    BY <1>1, <1>2 DEF SocketStep
-------------------------------------------------------------------------------
LEMMA InitServes == Init => Service!Init
  <1> SUFFICES ASSUME Init PROVE Service!Init
    OBVIOUS
  <1>1. Serving = NoConn
    BY DEF Init, Serving, InHandler
  <1>2. Link = [c \in Conn |-> "none"]
    BY LinkValues DEF Init, Link
  <1>3. QED
    BY <1>1, <1>2 DEF Init, Service!Init, Serving, Link, LinkOf, InHandler

(* Every step of the server is a step of the service, or none. *)
LEMMA NextServes == IInv /\ [Next]_vars => [Service!Next]_(Service!vars)
  <1> SUFFICES ASSUME IInv, [Next]_vars PROVE Service!Next \/ UNCHANGED Service!vars
    OBVIOUS
  <1>1. CASE start \/ RunnerStep \/ setToTrueWhenDone \/ shutdownDelay
    BY <1>1, RunnerStepIsUnseen, UnseenIsStutter
  <1>2. CASE stopServer \/ stop
    BY <1>2, StopIsUnseen, UnseenIsStutter
  <1>3. ASSUME NEW c \in Conn, ClientStep(c) PROVE Service!Next
    <2>1. Service!Open(c) \/ Service!Drop(c) \/ \E kind \in Kinds : Service!Submit(c, kind)
      <3>1. CASE connect(c)
        BY <3>1, ConnectOpens
      <3>2. CASE hangUp(c)
        BY <3>2, CloseDrops DEF hangUp
      <3>3. CASE \E kind \in Kinds : send(c, kind)
        BY <3>3, SendSubmits
      <3>4. QED
        BY <1>3, <3>1, <3>2, <3>3 DEF ClientStep
    <2>2. QED
      BY <2>1 DEF Service!Next
  <1>4. ASSUME NEW c \in Conn, SocketStep(c) PROVE Service!Next \/ UNCHANGED Service!vars
    BY <1>4, SocketStepServes, UnseenIsStutter DEF Service!Next
  <1>5. ASSUME NEW c \in Conn, ServerStep(c) PROVE UNCHANGED Service!vars
    BY <1>5, ServerStepIsUnseen, UnseenIsStutter
  <1>6. ASSUME NEW c \in Conn, ConnectionStep(c) PROVE Service!Next \/ UNCHANGED Service!vars
    BY <1>6, ConnectionStepServes, UnseenIsStutter DEF Service!Next
  <1>7. ASSUME NEW c \in Conn, MainStep(c) PROVE Service!Next
    BY <1>7, HandleRouteBegins, ReturnFromRouteEnds DEF MainStep, Service!Next
  <1>8. CASE UNCHANGED vars
    <2>1. UNCHANGED <<sock, requests, taken, answered, mainQueue, mainBlock>>
      BY <1>8 DEF vars, protocolVars
    <2>2. QED
      BY <2>1, ServingStays, LinkStays, UnseenIsStutter DEF Unseen
  <1>9. QED
    BY <1>1, <1>2, <1>3, <1>4, <1>5, <1>6, <1>7, <1>8 DEF Next

(* The server implements the service its clients see: one request at a      *)
(* time is served, the requests of a connection are taken up in the order   *)
(* they were sent, none twice and none before the response to the one       *)
(* before it, however the three queues and the sockets interleave.          *)
THEOREM ServerImplementsService == Spec => ImplementsService
  <1>1. Init => Service!Init
    BY InitServes
  <1>2. IInv /\ [Next]_vars => [Service!Next]_(Service!vars)
    BY NextServes
  <1>3. Spec => []IInv
    BY InvariantHolds
  <1>4. QED
    BY <1>1, <1>2, <1>3, PTL DEF Spec, ImplementsService, Service!Spec
================================================================================
