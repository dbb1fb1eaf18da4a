----------------------- MODULE CBXCUITestServerProofs -----------------------
EXTENDS CBXCUITestServer, SequenceTheorems, TLAPS

(* What a block that has run, or a block put at the end, does to a queue. *)
LEMMA PopProperties ==
  ASSUME NEW S, NEW s \in Seq(S), s # <<>>
  PROVE  /\ Head(s) \in S /\ Head(s) = s[1]
         /\ Tail(s) \in Seq(S)
         /\ Len(s) \in Nat \ {0}
         /\ Len(Tail(s)) = Len(s) - 1
         /\ \A i \in 1 .. Len(Tail(s)) : Tail(s)[i] = s[i + 1]
  BY HeadTailProperties, EmptySeq

LEMMA FunctionIsSeq ==
  ASSUME NEW S, NEW n \in Nat, NEW f \in [1 .. n -> S]
  PROVE  f \in Seq(S) /\ Len(f) = n
  BY SeqDef

(* Writing over the block at the head of a queue. *)
LEMMA RewriteHeadProperties ==
  ASSUME NEW S, NEW s \in Seq(S), s # <<>>, NEW b \in S
  PROVE  LET t == <<b>> \o Tail(s)
         IN  /\ t \in Seq(S)
             /\ Len(t) = Len(s)
             /\ t[1] = b
             /\ \A i \in 2 .. Len(s) : t[i] = s[i]
  <1>1. <<b>> \in Seq(S) /\ Len(<<b>>) = 1 /\ <<b>>[1] = b
    OBVIOUS
  <1>2. QED
    BY <1>1, PopProperties, ConcatProperties

LEMMA BlockType ==
  ASSUME NEW c \in Conn, NEW k \in Nat
  PROVE  /\ Blk("start", c, k) \in ConnectionBlock
         /\ Blk("stop", c, k) \in ConnectionBlock
         /\ Blk("read", c, k) \in ConnectionBlock
         /\ Blk("wrote", c, k) \in ConnectionBlock
         /\ Blk("disconnected", c, k) \in ConnectionBlock
         /\ Blk("accept", c, k) \in ServerBlock
         /\ Blk("attach", c, k) \in ServerBlock
         /\ Blk("add", c, k) \in ServerBlock
         /\ Blk("stop", NoConn, k) \in ServerBlock
         /\ Blk("route", c, k) \in MainBlock
         /\ Blk("stop", NoConn, k) \in MainBlock
  BY DEF Blk, Block, ServerBlock, ConnectionBlock, MainBlock

(* The fields of a block, whatever queue it is in. *)
LEMMA BlockFields ==
  ASSUME NEW b \in ServerBlock \cup ConnectionBlock \cup MainBlock
  PROVE  b.n \in Nat
  BY DEF Block, ServerBlock, ConnectionBlock, MainBlock

LEMMA RemoveType ==
  ASSUME NEW S, NEW s \in Seq(S), NEW c
  PROVE  removeObject(s, c) \in Seq(S)
  <1>1. CASE \E i \in 1 .. Len(s) : s[i] = c
    <2> DEFINE i == CHOOSE k \in 1 .. Len(s) : s[k] = c
               t == [k \in 1 .. Len(s) - 1 |-> IF k < i THEN s[k] ELSE s[k + 1]]
    <2>1. i \in 1 .. Len(s)
      BY <1>1
    <2>2. Len(s) \in Nat /\ Len(s) - 1 \in Nat
      BY <2>1, LenProperties
    <2>3. \A k \in 1 .. Len(s) - 1 : k \in 1 .. Len(s) /\ k + 1 \in 1 .. Len(s)
      BY <2>2
    <2>4. t \in [1 .. Len(s) - 1 -> S]
      BY <2>3, ElementOfSeq
    <2>5. t \in Seq(S)
      BY <2>2, <2>4, SeqDef
    <2>6. removeObject(s, c) = t
      BY <1>1 DEF removeObject
    <2>7. QED
      BY <2>5, <2>6
  <1>2. CASE ~ \E i \in 1 .. Len(s) : s[i] = c
    BY <1>2 DEF removeObject
  <1>3. QED
    BY <1>1, <1>2
-------------------------------------------------------------------------------
LEMMA InitTypeOK == Init => TypeOK
  <1> SUFFICES ASSUME Init PROVE TypeOK
    OBVIOUS
  <1>1. \A S : <<>> \in Seq(S)
    BY EmptySeq
  <1>2. QED
    BY <1>1 DEF Init, TypeOK

LEMMA NextTypeOK == TypeOK /\ [Next]_vars => TypeOK'
  <1> SUFFICES ASSUME TypeOK, [Next]_vars PROVE TypeOK'
    OBVIOUS
  <1> USE DEF TypeOK, protocolVars, lifeVars
  <1>1. ASSUME start PROVE TypeOK'
    BY <1>1 DEF start
  <1>2. ASSUME RunnerStep PROVE TypeOK'
    BY <1>2 DEF RunnerStep, leaveRunLoop, finishTest
  <1>4. ASSUME stopServer PROVE TypeOK'
    <2> DEFINE stops == [i \in 1 .. Len(connections) |-> Blk("stop", connections[i], 0)]
    <2>1. stops \in Seq(ConnectionBlock)
      <3>1. Len(connections) \in Nat
        BY LenProperties
      <3>2. \A i \in 1 .. Len(connections) : connections[i] \in Conn
        BY ElementOfSeq
      <3>3. stops \in [1 .. Len(connections) -> ConnectionBlock]
        BY <3>2, BlockType
      <3>4. QED
        BY <3>1, <3>3, FunctionIsSeq
    <2>2. connectionQueue' \in Seq(ConnectionBlock)
      BY <1>4, <2>1, ConcatProperties DEF stopServer
    <2>3. serverQueue' \in Seq(ServerBlock)
      BY <1>4, PopProperties DEF stopServer, IsHead
    <2>4. <<>> \in Seq(Conn)
      BY EmptySeq
    <2>5. QED
      BY <1>4, <2>2, <2>3, <2>4 DEF stopServer
  <1>5. ASSUME stop PROVE TypeOK'
    <2>1. mainQueue # <<>>
      BY <1>5 DEF stop, IsHead
    <2>2. Tail(mainQueue) \in Seq(MainBlock)
      BY <2>1, PopProperties
    <2>3. Append(serverQueue, Blk("stop", NoConn, 0)) \in Seq(ServerBlock)
      <3>1. Blk("stop", NoConn, 0) \in ServerBlock
        BY DEF Blk, Block, ServerBlock
      <3>2. QED
        BY <3>1, AppendProperties
    <2>4. QED
      BY <1>5, <2>2, <2>3 DEF stop
  <1>6. ASSUME setToTrueWhenDone PROVE TypeOK'
    BY <1>6 DEF setToTrueWhenDone
  <1>7. ASSUME shutdownDelay PROVE TypeOK'
    <2>1. Blk("stop", NoConn, 0) \in MainBlock
      BY DEF Blk, Block, MainBlock
    <2>2. Append(mainQueue, Blk("stop", NoConn, 0)) \in Seq(MainBlock)
      BY <2>1, AppendProperties
    <2>3. QED
      BY <1>7, <2>2 DEF shutdownDelay
  <1>8. ASSUME NEW c \in Conn, connect(c) PROVE TypeOK'
    <2>1. serverQueue' \in Seq(ServerBlock)
      BY <1>8, BlockType, AppendProperties DEF connect
    <2>2. QED
      BY <1>8, <2>1 DEF connect
  <1>9. ASSUME NEW c \in Conn, hangUp(c) PROVE TypeOK'
    <2>1. connectionQueue' \in Seq(ConnectionBlock)
      BY <1>9, BlockType, AppendProperties DEF hangUp, closeWithError
    <2>2. QED
      BY <1>9, <2>1 DEF hangUp, closeWithError
  <1>10. ASSUME NEW c \in Conn, NEW kind \in Kinds, send(c, kind) PROVE TypeOK'
    <2>1. Append(requests[c], kind) \in Seq(Kinds)
      BY AppendProperties
    <2>2. requests' \in [Conn -> Seq(Kinds)]
      BY <1>10, <2>1 DEF send
    <2>3. QED
      BY <1>10, <2>2 DEF send
  <1>11. ASSUME NEW c \in Conn, completeCurrentRead(c) PROVE TypeOK'
    <2>1. connectionQueue' \in Seq(ConnectionBlock)
      <3>1. delivered[c] + 1 \in Nat
        OBVIOUS
      <3>2. QED
        BY <1>11, <3>1, BlockType, AppendProperties DEF completeCurrentRead
    <2>2. QED
      BY SMTT(60), <1>11, <2>1 DEF completeCurrentRead
  <1>12. ASSUME NEW c \in Conn, completeCurrentWrite(c) PROVE TypeOK'
    <2>1. connectionQueue' \in Seq(ConnectionBlock)
      BY <1>12, BlockType, AppendProperties DEF completeCurrentWrite
    <2>2. QED
      BY <1>12, <2>1 DEF completeCurrentWrite
  <1>13. ASSUME NEW c \in Conn, doAccept(c) \/ initWithAsyncSocket(c) PROVE TypeOK'
    <2>1. serverQueue # <<>>
      BY <1>13 DEF doAccept, initWithAsyncSocket, IsHead
    <2>2. Blk("attach", c, 0) \in ServerBlock /\ Blk("add", c, 0) \in ServerBlock
      BY BlockType
    <2>3. serverQueue' \in Seq(ServerBlock)
      <3>1. /\ <<Blk("attach", c, 0)>> \o Tail(serverQueue) \in Seq(ServerBlock)
            /\ <<Blk("add", c, 0)>> \o Tail(serverQueue) \in Seq(ServerBlock)
        BY <2>1, <2>2, RewriteHeadProperties
      <3>2. QED
        BY <1>13, <3>1 DEF doAccept, initWithAsyncSocket
    <2>4. CASE doAccept(c)
      BY SMTT(60), <2>3, <2>4 DEF doAccept
    <2>5. CASE initWithAsyncSocket(c)
      BY SMTT(60), <2>3, <2>5 DEF initWithAsyncSocket
    <2>6. QED
      BY <1>13, <2>4, <2>5
  <1>14. ASSUME NEW c \in Conn, didAcceptNewSocket(c) PROVE TypeOK'
    <2>1. serverQueue' \in Seq(ServerBlock)
      BY <1>14, PopProperties DEF didAcceptNewSocket, IsHead
    <2>2. connectionQueue' \in Seq(ConnectionBlock)
      BY <1>14, BlockType, AppendProperties DEF didAcceptNewSocket
    <2>3. connections' \in Seq(Conn)
      BY <1>14, AppendProperties DEF didAcceptNewSocket
    <2>4. QED
      BY <1>14, <2>1, <2>2, <2>3 DEF didAcceptNewSocket
  <1>15. ASSUME NEW c \in Conn, ConnectionStep(c) PROVE TypeOK'
    <2> DEFINE rest == Tail(connectionQueue)
               k == Head(connectionQueue).n
    <2>1. rest \in Seq(ConnectionBlock) /\ Head(connectionQueue) \in ConnectionBlock
      BY <1>15, PopProperties
      DEF ConnectionStep, startConnection, stopConnection, didReadData,
          replyToHTTPRequest, didWriteData, socketDidDisconnect, IsHead
    <2>2. k \in Nat
      BY <2>1, BlockFields
    <2>3. Append(rest, Blk("wrote", c, k)) \in Seq(ConnectionBlock)
      BY <2>1, <2>2, BlockType, AppendProperties
    <2>4. Append(rest, Blk("disconnected", c, 0)) \in Seq(ConnectionBlock)
      BY <2>1, BlockType, AppendProperties
    <2>5. Append(mainQueue, Blk("route", c, k)) \in Seq(MainBlock)
      BY <2>2, BlockType, AppendProperties
    <2>6. removeObject(connections, c) \in Seq(Conn)
      BY RemoveType
    <2> HIDE DEF rest, k
    <2>14. ASSUME disconnect(c, rest) PROVE /\ connectionQueue' \in Seq(ConnectionBlock)
                                            /\ sock' \in [Conn -> {"none", "accepting", "open", "closed"}]
                                            /\ reading' \in [Conn -> BOOLEAN]
                                            /\ writing' \in [Conn -> Nat]
      <3>1. CASE sock[c] = "open"
        <4>1. closeWithError(c, rest)
          BY <2>14, <3>1 DEF disconnect
        <4>2. connectionQueue' \in Seq(ConnectionBlock)
          BY <4>1, <2>1, <2>4 DEF closeWithError, rest
        <4>3. QED
          BY <4>1, <4>2 DEF closeWithError
      <3>2. CASE sock[c] # "open"
        BY <2>14, <3>2, <2>1 DEF disconnect
      <3>3. QED
        BY <3>1, <3>2
    <2>7. CASE startConnection(c)
      BY <2>7, <2>1 DEF startConnection, rest
    <2>8. CASE stopConnection(c)
      BY <2>8, <2>14 DEF stopConnection, rest
    <2>9. CASE didReadData(c)
      BY <2>9, <2>1, <2>2, <2>3, <2>5 DEF didReadData, writeResponse, rest, k
    <2>10. CASE replyToHTTPRequest(c)
      BY <2>10, <2>1, <2>2, <2>3 DEF replyToHTTPRequest, writeResponse, rest, k
    <2>11. CASE didWriteData(c)
      <3>1. CASE shouldDie(requests[c][k])
        BY <2>11, <2>14, <3>1 DEF didWriteData, rest, k
      <3>2. CASE ~shouldDie(requests[c][k])
        BY <2>11, <2>1, <3>2 DEF didWriteData, rest, k
      <3>3. QED
        BY <3>1, <3>2
    <2>12. CASE socketDidDisconnect(c)
      BY <2>12, <2>1, <2>6 DEF socketDidDisconnect, rest
    <2>13. QED
      BY <1>15, <2>7, <2>8, <2>9, <2>10, <2>11, <2>12 DEF ConnectionStep
  <1>16. ASSUME NEW c \in Conn, MainStep(c) PROVE TypeOK'
    <2>1. Tail(mainQueue) \in Seq(MainBlock) /\ Head(mainQueue) \in MainBlock
      BY <1>16, PopProperties DEF MainStep, handleRoute, returnFromRoute, IsHead
    <2>2. Head(mainQueue).n \in Nat
      BY <2>1, BlockFields
    <2>3. CASE handleRoute(c)
      BY <2>2, <2>3 DEF handleRoute
    <2>4. CASE returnFromRoute(c)
      <3>1. <<c, Head(mainQueue).n>> \in Conn \X Nat
        BY <2>2
      <3>2. timers' \subseteq Conn \X Nat
        BY <2>4, <3>1 DEF returnFromRoute
      <3>3. QED
        BY <2>4, <2>1, <3>2 DEF returnFromRoute
    <2>5. QED
      BY <1>16, <2>3, <2>4 DEF MainStep
  <1>17. CASE UNCHANGED vars
    BY <1>17 DEF vars
  <1>18. QED
    BY <1>1, <1>2, <1>4, <1>5, <1>6, <1>7, <1>8, <1>9, <1>10, <1>11, <1>12,
       <1>13, <1>14, <1>15, <1>16, <1>17
       DEF Next, ClientStep, SocketStep, ServerStep

-------------------------------------------------------------------------------
(* The facts about the queues that the inductive steps use. *)
LEMMA QueueFacts ==
  ASSUME NEW S, NEW s \in Seq(S)
  PROVE  /\ Len(s) \in Nat
         /\ s # <<>> <=> Len(s) > 0
         /\ s # <<>> => Head(s) = s[1]
         /\ \A i \in 1 .. Len(s) : s[i] \in S
  <1>1. Len(s) \in Nat /\ (s # <<>> => Len(s) \in Nat \ {0}) /\ Len(<<>>) = 0
    BY EmptySeq, LenProperties
  <1>2. s # <<>> => Head(s) = s[1]
    BY PopProperties
  <1>3. QED
    BY <1>1, <1>2, ElementOfSeq

(* A block is made of its fields. *)
LEMMA BlockIsItsFields ==
  ASSUME NEW b \in ConnectionBlock
  PROVE  b = Blk(b.op, b.conn, b.n)
  BY DEF ConnectionBlock, Block, Blk

(* A handler serves a request only while connectionQueue waits for it. *)
LEMMA NobodyServed ==
  ASSUME IInv, dispatched = "no"
  PROVE  /\ ~HeadIsServed
         /\ \A i \in 1 .. Len(mainQueue) : mainQueue[i].op # "route"
  <1> USE DEF IInv
  <1>1. \A i \in 1 .. Len(mainQueue) : mainQueue[i].op # "route"
    BY DEF HandlerServesTheHead
  <1>2. ~InHandler
    BY <1>1, QueueFacts DEF SyncIsPaired, TypeOK
  <1>3. QED
    BY <1>1, <1>2 DEF HeadIsServed

(* What a queue or an array still holds after a step. *)
LEMMA HoldsPop ==
  ASSUME NEW S, NEW s \in Seq(S), s # <<>>, NEW b, Holds(s, b), Head(s) # b
  PROVE  Holds(Tail(s), b)
  <1>1. PICK i \in 1 .. Len(s) : s[i] = b
    BY DEF Holds
  <1>2. i # 1
    BY <1>1, PopProperties
  <1>3. i - 1 \in 1 .. Len(Tail(s)) /\ Tail(s)[i - 1] = b
    BY <1>1, <1>2, PopProperties
  <1>4. QED
    BY <1>3 DEF Holds

LEMMA HoldsAppend ==
  ASSUME NEW S, NEW s \in Seq(S), NEW a \in S
  PROVE  /\ Holds(Append(s, a), a)
         /\ \A b : Holds(s, b) => Holds(Append(s, a), b)
  <1>1. Len(s) \in Nat
    BY LenProperties
  <1>2. QED
    BY <1>1, AppendProperties DEF Holds

LEMMA HoldsRemove ==
  ASSUME NEW S, NEW s \in Seq(S), NEW b, NEW c, Holds(s, b), b # c
  PROVE  Holds(removeObject(s, c), b)
  <1>1. CASE \E i \in 1 .. Len(s) : s[i] = c
    <2> DEFINE i == CHOOSE k \in 1 .. Len(s) : s[k] = c
               t == [k \in 1 .. Len(s) - 1 |-> IF k < i THEN s[k] ELSE s[k + 1]]
    <2>1. i \in 1 .. Len(s) /\ s[i] = c
      BY <1>1
    <2>2. PICK j \in 1 .. Len(s) : s[j] = b
      BY DEF Holds
    <2>3. Len(s) - 1 \in Nat /\ j # i
      BY <2>1, <2>2, LenProperties
    <2>4. t \in Seq(S) /\ Len(t) = Len(s) - 1
      <3>1. \A k \in 1 .. Len(s) - 1 : s[k] \in S /\ s[k + 1] \in S
        BY <2>3, ElementOfSeq
      <3>2. t \in [1 .. Len(s) - 1 -> S]
        BY <3>1
      <3>3. QED
        BY <2>3, <3>2, FunctionIsSeq
    <2> HIDE DEF i
    <2>5. CASE j < i
      <3>1. j \in 1 .. Len(t) /\ t[j] = b
        BY <2>1, <2>2, <2>4, <2>5
      <3>2. QED
        BY <3>1, <1>1 DEF Holds, removeObject, i
    <2>6. CASE j > i
      <3>1. j - 1 \in 1 .. Len(t) /\ t[j - 1] = b
        BY <2>1, <2>2, <2>4, <2>6
      <3>2. QED
        BY <3>1, <1>1 DEF Holds, removeObject, i
    <2>7. QED
      BY <2>1, <2>2, <2>3, <2>5, <2>6
  <1>2. CASE ~ \E i \in 1 .. Len(s) : s[i] = c
    BY <1>2 DEF removeObject
  <1>3. QED
    BY <1>1, <1>2

LEMMA InitIInv == Init => IInv
  <1> SUFFICES ASSUME Init PROVE IInv
    OBVIOUS
  <1>1. Len(<<>>) = 0
    BY EmptySeq
  <1>2. TypeOK
    BY InitTypeOK
  <1>3. OneTurn /\ TurnIsCurrent /\ ServedIsTaken /\ AcceptIsPending /\ NewIsIdle /\ SyncIsPaired
    BY <1>1 DEF Init, OneTurn, ServedIsTaken, NewIsIdle, beingAccepted, IsHead, TurnIsCurrent, AcceptIsPending, SyncIsPaired, InHandler
  <1>4. SocketIsCurrent
    BY DEF Init, SocketIsCurrent, ExchangeIsCurrent, DebtIsKnown, Idle
  <1>5. HandlerServesTheHead /\ OpenSocketIsOwned
    BY <1>1 DEF Init, HandlerServesTheHead, OpenSocketIsOwned
  <1>6. QED
    BY <1>2, <1>3, <1>4, <1>5 DEF IInv

(* A queue to which a block may have been added. *)
LEMMA ExtendProperties ==
  ASSUME NEW S, NEW t \in Seq(S), NEW b \in S, NEW r, r = t \/ r = Append(t, b)
  PROVE  /\ r \in Seq(S)
         /\ Len(r) \in Nat /\ Len(t) \in Nat
         /\ Len(t) <= Len(r) /\ Len(r) <= Len(t) + 1
         /\ \A i \in 1 .. Len(t) : i \in 1 .. Len(r) /\ r[i] = t[i]
         /\ \A i \in 1 .. Len(r) : i \in 1 .. Len(t) \/ (i = Len(t) + 1 /\ r[i] = b)
         /\ \A x : Holds(t, x) => Holds(r, x)
  <1>1. CASE r = t
    BY <1>1, LenProperties
  <1>2. CASE r = Append(t, b)
    <2>1. Len(t) \in Nat
      BY LenProperties
    <2>2. \A x : Holds(t, x) => Holds(r, x)
      BY <1>2, HoldsAppend
    <2>3. QED
      BY <1>2, <2>1, <2>2, AppendProperties
  <1>3. QED
    BY <1>1, <1>2

(* What is known when a block of connectionQueue is run. *)
LEMMA HeadFacts ==
  ASSUME IInv, NEW c \in Conn, NEW o, IsHead(connectionQueue, o, c)
  PROVE  LET q == connectionQueue
             t == Tail(connectionQueue)
         IN  /\ q # <<>> /\ q[1].op = o /\ q[1].conn = c /\ Head(q) = q[1]
             /\ Len(q) \in Nat /\ 1 \in 1 .. Len(q)
             /\ t \in Seq(ConnectionBlock)
             /\ Len(t) = Len(q) - 1
             /\ \A i \in 1 .. Len(t) : i + 1 \in 1 .. Len(q) /\ t[i] = q[i + 1]
             /\ BlockIsCurrent(q[1])
             /\ \A i \in 1 .. Len(t) : BlockIsCurrent(t[i])
             /\ o \in {"start", "read", "wrote"} =>
                   /\ ~beingAccepted(c)
                   /\ \A i \in 1 .. Len(t) : t[i].conn = c => ~IsTurn(t[i])
             /\ o # "stop" => \A d \in Conn : Holds(q, Blk("stop", d, 0))
                                              => Holds(t, Blk("stop", d, 0))
             /\ o # "read" => dispatched = "no"
             /\ dispatched = "no" =>
                   /\ ~HeadIsServed
                   /\ \A i \in 1 .. Len(mainQueue) : mainQueue[i].op # "route"
  <1> USE DEF IInv
  <1> DEFINE q == connectionQueue
             t == Tail(connectionQueue)
  <1>1. /\ q # <<>> /\ q[1].op = o /\ q[1].conn = c /\ Head(q) = q[1]
        /\ Len(q) \in Nat /\ 1 \in 1 .. Len(q)
        /\ t \in Seq(ConnectionBlock)
        /\ Len(t) = Len(q) - 1
        /\ \A i \in 1 .. Len(t) : i + 1 \in 1 .. Len(q) /\ t[i] = q[i + 1]
    BY QueueFacts, PopProperties DEF IsHead, TypeOK
  <1>2. BlockIsCurrent(q[1]) /\ \A i \in 1 .. Len(t) : BlockIsCurrent(t[i])
    BY <1>1 DEF TurnIsCurrent
  <1>3. ASSUME o \in {"start", "read", "wrote"}
        PROVE  /\ ~beingAccepted(c)
               /\ \A i \in 1 .. Len(t) : t[i].conn = c => ~IsTurn(t[i])
    BY <1>1, <1>3 DEF OneTurn, NewIsIdle, HasNoTurn, IsTurn
  <1>4. ASSUME o # "stop", NEW d \in Conn, Holds(q, Blk("stop", d, 0))
        PROVE  Holds(t, Blk("stop", d, 0))
    <2>1. Head(q) # Blk("stop", d, 0)
      BY <1>1, <1>4 DEF Blk
    <2>2. QED
      BY <1>1, <1>4, <2>1, HoldsPop DEF TypeOK
  <1>5. o # "read" => dispatched = "no"
    BY <1>1 DEF SyncIsPaired, TypeOK
  <1>6. QED
    BY <1>1, <1>2, <1>3, <1>4, <1>5, NobodyServed

(* A block that is not a turn of c is as current after a step about c. *)
LEMMA OthersStayCurrent ==
  ASSUME TypeOK, NEW c \in Conn, NEW b, BlockIsCurrent(b), b.conn = c => ~IsTurn(b),
         \A d \in Conn \ {c} : /\ sock'[d] = sock[d]
                               /\ requests'[d] = requests[d]
                               /\ reading'[d] = reading[d]
                               /\ writing'[d] = writing[d]
                               /\ delivered'[d] = delivered[d]
                               /\ taken'[d] = taken[d]
                               /\ answered'[d] = answered[d],
         sock[c] = "closed" => sock'[c] = "closed"
  PROVE  BlockIsCurrent(b)'
  <1>1. CASE b.conn = c
    BY <1>1 DEF BlockIsCurrent, IsTurn
  <1>2. CASE b.conn # c
    <2>1. b.conn \in Conn \ {c}
      BY <1>2 DEF BlockIsCurrent
    <2>2. QED
      BY <2>1 DEF BlockIsCurrent, IsTurn
  <1>3. QED
    BY <1>1, <1>2

(* startConnection: the turn of the connection passes to its socket. *)
LEMMA StartConnectionIInv ==
  ASSUME IInv, TypeOK', NEW c \in Conn, startConnection(c)
  PROVE  IInv'
  <1> USE DEF IInv
  <1> DEFINE q == connectionQueue
  <1>0. IsHead(q, "start", c) /\ q' = Tail(q)
    BY DEF startConnection
  <1>1. /\ q # <<>> /\ q[1].op = "start" /\ q[1].conn = c
        /\ Len(q) \in Nat /\ Len(q') = Len(q) - 1
        /\ \A i \in 1 .. Len(q') : i + 1 \in 1 .. Len(q) /\ q'[i] = q[i + 1]
        /\ BlockIsCurrent(q[1])
    BY <1>0, HeadFacts
  <1>2. dispatched = "no" /\ \A i \in 1 .. Len(mainQueue) : mainQueue[i].op # "route"
    BY <1>0, HeadFacts
  <1>3. ~HeadIsServed /\ ~HeadIsServed'
    BY <1>0, HeadFacts DEF HeadIsServed, InHandler, startConnection
  <1>4. ~beingAccepted(c) /\ \A i \in 1 .. Len(q') : q'[i].conn = c => ~IsTurn(q'[i])
    BY <1>0, HeadFacts
  <1>5. OneTurn'
    BY <1>1 DEF OneTurn, IsTurn
  <1>6. TurnIsCurrent'
    <2> SUFFICES ASSUME NEW i \in 1 .. Len(q')
                 PROVE  BlockIsCurrent(q[i])'
      BY DEF TurnIsCurrent
    <2>1. BlockIsCurrent(q'[i])
      BY <1>0, HeadFacts
    <2>2. QED
      BY <2>1, <1>4, OthersStayCurrent DEF startConnection, TypeOK
  <1>7. ServedIsTaken'
    BY <1>1, <1>3 DEF ServedIsTaken, startConnection
  <1>8. SocketIsCurrent'
    <2> SUFFICES ASSUME NEW d \in Conn PROVE ExchangeIsCurrent(d)' /\ DebtIsKnown(d)'
      BY DEF SocketIsCurrent
    <2>1. ExchangeIsCurrent(d) /\ DebtIsKnown(d)
      BY DEF SocketIsCurrent
    <2>2. CASE d = c
      BY <1>1, <2>1, <2>2 DEF ExchangeIsCurrent, DebtIsKnown, BlockIsCurrent,
                              startConnection, TypeOK, IsTurn, Idle
    <2>3. CASE d # c
      BY <1>1, <2>1, <2>3 DEF ExchangeIsCurrent, DebtIsKnown, Blk, startConnection, TypeOK, Idle,
                              IsHead
    <2>4. QED
      BY <2>2, <2>3
  <1>9. AcceptIsPending'
    BY DEF AcceptIsPending, startConnection
  <1>10. NewIsIdle'
    <2> SUFFICES ASSUME NEW d \in Conn, beingAccepted(d), d # c
                 PROVE  HasNoTurn(d)'
      BY <1>4 DEF NewIsIdle, beingAccepted, IsHead, startConnection
    <2>1. QED
      BY <1>1 DEF NewIsIdle, HasNoTurn, Idle, startConnection, TypeOK
  <1>11. SyncIsPaired'
    BY <1>2 DEF SyncIsPaired, startConnection, InHandler
  <1>12. HandlerServesTheHead'
    BY <1>2 DEF HandlerServesTheHead, startConnection
  <1>13. OpenSocketIsOwned'
    <2>1. \A d \in Conn : Holds(q, Blk("stop", d, 0)) => Holds(q', Blk("stop", d, 0))
      BY <1>0, HeadFacts
    <2>2. QED
      BY <2>1 DEF OpenSocketIsOwned, startConnection, beingAccepted, IsHead
  <1>14. QED
    BY <1>5, <1>6, <1>7, <1>8, <1>9, <1>10, <1>11, <1>12, <1>13

(* What a connection's own block leaves alone. *)
elsewhere == <<lifeVars, connections, requests, delivered, taken, answered,
               serverQueue, mainQueue, dispatched, mainBlock, timers>>

(* disconnect, sent by a block of connectionQueue that is not a read. *)
LEMMA DisconnectIInv ==
  ASSUME IInv, TypeOK', NEW c \in Conn, NEW o \in {"stop", "wrote"},
         IsHead(connectionQueue, o, c),
         disconnect(c, Tail(connectionQueue)), UNCHANGED elsewhere
  PROVE  IInv'
  <1> USE DEF IInv
  <1> DEFINE q == connectionQueue
             t == Tail(connectionQueue)
             D == Blk("disconnected", c, 0)
  <1>1. /\ q # <<>> /\ q[1].op = o /\ q[1].conn = c
        /\ Len(q) \in Nat /\ Len(t) = Len(q) - 1
        /\ t \in Seq(ConnectionBlock)
        /\ \A i \in 1 .. Len(t) : i + 1 \in 1 .. Len(q) /\ t[i] = q[i + 1]
        /\ BlockIsCurrent(q[1])
        /\ \A i \in 1 .. Len(t) : BlockIsCurrent(t[i])
    BY HeadFacts
  <1>2. /\ dispatched = "no" /\ dispatched' = "no"
        /\ \A i \in 1 .. Len(mainQueue) : mainQueue[i].op # "route"
        /\ ~HeadIsServed /\ ~HeadIsServed'
    BY HeadFacts DEF elsewhere, HeadIsServed, InHandler
  <1>3. /\ reading' = [reading EXCEPT ![c] = reading'[c]]
        /\ writing' = [writing EXCEPT ![c] = writing'[c]]
        /\ sock' = [sock EXCEPT ![c] = sock'[c]]
        /\ sock[c] = "open" => sock'[c] = "closed" /\ ~reading'[c] /\ writing'[c] = 0
        /\ sock[c] # "open" => sock' = sock /\ reading' = reading /\ writing' = writing
    BY DEF disconnect, closeWithError, TypeOK
  <1>4. q' = t \/ (q' = Append(t, D) /\ sock'[c] = "closed")
    BY DEF disconnect, closeWithError, TypeOK
  <1>5. /\ Len(q') \in Nat /\ Len(t) \in Nat
        /\ \A i \in 1 .. Len(q') :
              \/ i \in 1 .. Len(t) /\ q'[i] = t[i]
              \/ q'[i] = D /\ sock'[c] = "closed"
        /\ \A x : Holds(t, x) => Holds(q', x)
    <2>1. D \in ConnectionBlock
      BY BlockType
    <2> HIDE DEF t, D
    <2>2. q' = t \/ q' = Append(t, D)
      BY <1>4
    <2>3. /\ Len(q') \in Nat /\ Len(t) \in Nat
          /\ \A i \in 1 .. Len(t) : q'[i] = t[i]
          /\ \A i \in 1 .. Len(q') : i \in 1 .. Len(t) \/ (i = Len(t) + 1 /\ q'[i] = D)
          /\ \A x : Holds(t, x) => Holds(q', x)
      BY <1>1, <2>1, <2>2, ExtendProperties
    <2>4. q' # t => sock'[c] = "closed"
      BY <1>4
    <2>5. ASSUME NEW i \in 1 .. Len(q')
          PROVE  \/ i \in 1 .. Len(t) /\ q'[i] = t[i]
                 \/ q'[i] = D /\ sock'[c] = "closed"
      <3>1. CASE q' = t
        BY <3>1
      <3>2. CASE q' # t
        BY <2>3, <2>4, <3>2
      <3>3. QED
        BY <3>1, <3>2
    <2>6. QED
      BY <2>3, <2>5
  <1>6. D.op = "disconnected" /\ D.conn = c /\ ~IsTurn(D)
    BY DEF Blk, IsTurn
  <1> HIDE DEF D
  <1>7. OneTurn'
    BY <1>1, <1>5, <1>6 DEF OneTurn, IsTurn
  <1>8. \A i \in 1 .. Len(q') : BlockIsCurrent(q[i])'
    <2> SUFFICES ASSUME NEW i \in 1 .. Len(q')
                 PROVE  BlockIsCurrent(q[i])'
      OBVIOUS
    <2>1. CASE q'[i] = D /\ sock'[c] = "closed"
      BY <2>1, <1>6 DEF BlockIsCurrent, IsTurn
    <2>2. CASE i \in 1 .. Len(t) /\ q'[i] = t[i]
      <3>1. BlockIsCurrent(t[i])
        BY <2>2, <1>1
      <3>2. CASE t[i].conn = c
        BY <2>2, <3>1, <3>2, <1>3 DEF BlockIsCurrent, IsTurn, elsewhere, TypeOK
      <3>3. CASE t[i].conn # c
        <4>1. t[i].conn \in Conn
          BY <3>1 DEF BlockIsCurrent
        <4> DEFINE d == t[i].conn
        <4>2. /\ reading'[d] = reading[d] /\ writing'[d] = writing[d] /\ sock'[d] = sock[d]
              /\ UNCHANGED <<taken, delivered, answered, requests>>
          BY <4>1, <3>3, <1>3 DEF elsewhere, TypeOK
        <4>3. QED
          BY <2>2, <3>1, <4>2 DEF BlockIsCurrent, IsTurn
      <3>4. QED
        BY <3>2, <3>3
    <2>3. QED
      BY <2>1, <2>2, <1>5
  <1>9. TurnIsCurrent'
    BY <1>8 DEF TurnIsCurrent
  <1>10. ServedIsTaken'
    BY <1>1, <1>2, <1>5, <1>6 DEF ServedIsTaken, elsewhere
  <1>11. SocketIsCurrent'
    <2> SUFFICES ASSUME NEW d \in Conn PROVE ExchangeIsCurrent(d)' /\ DebtIsKnown(d)'
      BY DEF SocketIsCurrent
    <2>1. ExchangeIsCurrent(d) /\ DebtIsKnown(d)
      BY DEF SocketIsCurrent
    <2>2. Head(q) # Blk("read", d, taken[d])
      BY <1>1, HeadFacts DEF Blk
    <2>3. CASE d = c
      BY SMTT(60), <1>3, <2>1, <2>2, <2>3 DEF ExchangeIsCurrent, DebtIsKnown, elsewhere, TypeOK, Idle
    <2>4. CASE d # c
      BY SMTT(60), <1>3, <2>1, <2>2, <2>4 DEF ExchangeIsCurrent, DebtIsKnown, elsewhere, TypeOK, Idle
    <2>5. QED
      BY <2>3, <2>4
  <1>12. AcceptIsPending'
    BY <1>3 DEF AcceptIsPending, elsewhere, TypeOK
  <1>13. NewIsIdle'
    <2> SUFFICES ASSUME NEW d \in Conn, beingAccepted(d)
                 PROVE  HasNoTurn(d)'
      BY DEF NewIsIdle, beingAccepted, IsHead, elsewhere
    <2>1. HasNoTurn(d)
      BY DEF NewIsIdle
    <2>2. \A i \in 1 .. Len(q') : q'[i].conn = d => ~IsTurn(q'[i])
      BY <1>1, <1>5, <1>6, <2>1 DEF HasNoTurn, IsTurn
    <2>3. QED
      BY <1>3, <2>1, <2>2 DEF HasNoTurn, Idle, IsTurn, elsewhere, TypeOK
  <1>14. SyncIsPaired'
    BY <1>2 DEF SyncIsPaired, elsewhere, InHandler
  <1>15. HandlerServesTheHead'
    BY <1>2 DEF HandlerServesTheHead, elsewhere
  <1>16. OpenSocketIsOwned'
    <2>1. \A d \in Conn : d # c /\ Holds(q, Blk("stop", d, 0)) => Holds(t, Blk("stop", d, 0))
      <3> SUFFICES ASSUME NEW d \in Conn, d # c, Holds(q, Blk("stop", d, 0))
                   PROVE  Holds(t, Blk("stop", d, 0))
        OBVIOUS
      <3>1. Head(q) # Blk("stop", d, 0)
        BY <1>1, HeadFacts DEF Blk
      <3>2. QED
        BY <1>1, <3>1, HoldsPop DEF TypeOK
    <2>2. QED
      BY <2>1, <1>3, <1>5 DEF OpenSocketIsOwned, elsewhere, beingAccepted, IsHead, TypeOK
  <1>17. QED
    BY <1>7, <1>9, <1>10, <1>11, <1>12, <1>13, <1>14, <1>15, <1>16

LEMMA StopConnectionIInv ==
  ASSUME IInv, TypeOK', NEW c \in Conn, stopConnection(c)
  PROVE  IInv'
  BY DisconnectIInv DEF stopConnection, elsewhere

(* didWriteData: closes the connection, or gives the turn to its socket. *)
LEMMA DidWriteDataIInv ==
  ASSUME IInv, TypeOK', NEW c \in Conn, didWriteData(c)
  PROVE  IInv'
  <1> USE DEF IInv
  <1> DEFINE q == connectionQueue
  <1>0. IsHead(q, "wrote", c)
    BY DEF didWriteData
  <1>1. CASE shouldDie(requests[c][Head(q).n])
    BY <1>0, <1>1, DisconnectIInv DEF didWriteData, elsewhere
  <1>2. CASE ~shouldDie(requests[c][Head(q).n])
    <2>1. /\ q' = Tail(q) /\ reading' = [reading EXCEPT ![c] = (sock[c] = "open")]
          /\ UNCHANGED <<sock, writing>> /\ UNCHANGED elsewhere
      BY <1>2 DEF didWriteData, elsewhere
    <2>2. /\ q # <<>> /\ q[1].op = "wrote" /\ q[1].conn = c
          /\ Len(q) \in Nat /\ Len(q') = Len(q) - 1
          /\ \A i \in 1 .. Len(q') : i + 1 \in 1 .. Len(q) /\ q'[i] = q[i + 1]
          /\ BlockIsCurrent(q[1])
      BY <1>0, <2>1, HeadFacts
    <2>3. /\ dispatched = "no" /\ dispatched' = "no"
          /\ \A i \in 1 .. Len(mainQueue) : mainQueue[i].op # "route"
          /\ ~HeadIsServed /\ ~HeadIsServed'
      BY <1>0, <2>1, HeadFacts DEF elsewhere, HeadIsServed, InHandler
    <2>4. ~beingAccepted(c) /\ \A i \in 1 .. Len(q') : q'[i].conn = c => ~IsTurn(q'[i])
      BY <1>0, <2>1, HeadFacts
    <2>5. OneTurn'
      BY SMTT(60), <2>2 DEF OneTurn, IsTurn
    <2>6. TurnIsCurrent'
      <3> SUFFICES ASSUME NEW i \in 1 .. Len(q')
                   PROVE  BlockIsCurrent(q[i])'
        BY DEF TurnIsCurrent
      <3>1. BlockIsCurrent(q'[i])
        BY <1>0, <2>1, HeadFacts
      <3>2. QED
        BY <2>1, <2>4, <3>1, OthersStayCurrent DEF elsewhere, TypeOK
    <2>7. ServedIsTaken'
      BY <2>1, <2>2, <2>3 DEF ServedIsTaken, elsewhere
    <2>8. SocketIsCurrent'
      <3> SUFFICES ASSUME NEW d \in Conn PROVE ExchangeIsCurrent(d)' /\ DebtIsKnown(d)'
        BY DEF SocketIsCurrent
      <3>1. ExchangeIsCurrent(d) /\ DebtIsKnown(d)
        BY DEF SocketIsCurrent
      <3>2. Head(q) # Blk("read", d, taken[d])
        BY <1>0, <2>2, HeadFacts DEF Blk
      <3>3. CASE d = c
        BY <2>1, <2>2, <3>1, <3>3 DEF ExchangeIsCurrent, DebtIsKnown, BlockIsCurrent,
                                      elsewhere, TypeOK, IsTurn, Idle
      <3>4. CASE d # c
        BY <2>1, <3>1, <3>2, <3>4 DEF ExchangeIsCurrent, DebtIsKnown, elsewhere, TypeOK, Idle
      <3>5. QED
        BY <3>3, <3>4
    <2>9. AcceptIsPending'
      BY <2>1 DEF AcceptIsPending, elsewhere
    <2>10. NewIsIdle'
      <3> SUFFICES ASSUME NEW d \in Conn, beingAccepted(d), d # c
                   PROVE  HasNoTurn(d)'
        BY <2>1, <2>4 DEF NewIsIdle, beingAccepted, IsHead, elsewhere
      <3>1. QED
        BY <2>1, <2>2 DEF NewIsIdle, HasNoTurn, Idle, elsewhere, TypeOK
    <2>11. SyncIsPaired'
      BY <2>1, <2>3 DEF SyncIsPaired, elsewhere, InHandler
    <2>12. HandlerServesTheHead'
      BY <2>1, <2>3 DEF HandlerServesTheHead, elsewhere
    <2>13. OpenSocketIsOwned'
      <3>1. \A d \in Conn : Holds(q, Blk("stop", d, 0)) => Holds(q', Blk("stop", d, 0))
        BY <1>0, <2>1, HeadFacts
      <3>2. QED
        BY <2>1, <3>1 DEF OpenSocketIsOwned, elsewhere, beingAccepted, IsHead
    <2>14. QED
      BY <2>5, <2>6, <2>7, <2>8, <2>9, <2>10, <2>11, <2>12, <2>13
  <1>3. QED
    BY <1>1, <1>2

(* socketDidDisconnect: the dead connection leaves the array. *)
LEMMA SocketDidDisconnectIInv ==
  ASSUME IInv, TypeOK', NEW c \in Conn, socketDidDisconnect(c)
  PROVE  IInv'
  <1> USE DEF IInv
  <1> DEFINE q == connectionQueue
  <1>1. /\ IsHead(q, "disconnected", c) /\ q' = Tail(q)
        /\ connections' = removeObject(connections, c)
        /\ UNCHANGED <<lifeVars, sock, protocolVars, serverQueue, mainQueue,
                       dispatched, mainBlock, timers>>
    BY DEF socketDidDisconnect
  <1>2. /\ q # <<>> /\ q[1].op = "disconnected" /\ q[1].conn = c
        /\ Len(q) \in Nat /\ Len(q') = Len(q) - 1
        /\ \A i \in 1 .. Len(q') : i + 1 \in 1 .. Len(q) /\ q'[i] = q[i + 1]
        /\ BlockIsCurrent(q[1])
    BY <1>1, HeadFacts
  <1>3. /\ dispatched = "no" /\ dispatched' = "no"
        /\ \A i \in 1 .. Len(mainQueue) : mainQueue[i].op # "route"
        /\ ~HeadIsServed /\ ~HeadIsServed'
    BY <1>1, HeadFacts DEF HeadIsServed, InHandler
  <1>4. OneTurn'
    <2> SUFFICES ASSUME NEW i \in 1 .. Len(q'), NEW j \in 1 .. Len(q'),
                        IsTurn(q'[i]), IsTurn(q'[j]), q'[i].conn = q'[j].conn
                 PROVE  i = j
      BY DEF OneTurn, IsTurn
    <2>1. i + 1 = j + 1
      BY <1>2 DEF OneTurn, IsTurn
    <2>2. QED
      BY <2>1
  <1>5. TurnIsCurrent'
    <2> SUFFICES ASSUME NEW i \in 1 .. Len(q')
                 PROVE  BlockIsCurrent(q[i])'
      BY DEF TurnIsCurrent
    <2>1. BlockIsCurrent(q'[i])
      BY <1>1, HeadFacts
    <2>2. QED
      BY <1>1, <2>1 DEF BlockIsCurrent, protocolVars, IsTurn
  <1>6. ServedIsTaken'
    BY <1>1, <1>2, <1>3 DEF ServedIsTaken, protocolVars
  <1>7. SocketIsCurrent'
    <2> SUFFICES ASSUME NEW d \in Conn PROVE ExchangeIsCurrent(d)' /\ DebtIsKnown(d)'
      BY DEF SocketIsCurrent
    <2>1. ExchangeIsCurrent(d) /\ DebtIsKnown(d)
      BY DEF SocketIsCurrent
    <2>2. Head(q) # Blk("read", d, taken[d])
      BY <1>1, <1>2, HeadFacts DEF Blk
    <2>3. QED
      BY <1>1, <2>1, <2>2 DEF ExchangeIsCurrent, DebtIsKnown, protocolVars, Idle
  <1>8. AcceptIsPending'
    BY <1>1 DEF AcceptIsPending
  <1>9. NewIsIdle'
    <2> SUFFICES ASSUME NEW d \in Conn, beingAccepted(d)
                 PROVE  HasNoTurn(d)'
      BY <1>1 DEF NewIsIdle, beingAccepted, IsHead
    <2>1. QED
      BY <1>1, <1>2 DEF NewIsIdle, HasNoTurn, Idle, protocolVars
  <1>10. SyncIsPaired'
    BY <1>1, <1>3 DEF SyncIsPaired, InHandler
  <1>11. HandlerServesTheHead'
    BY <1>1, <1>3 DEF HandlerServesTheHead
  <1>12. OpenSocketIsOwned'
    <2> SUFFICES ASSUME NEW d \in Conn, sock[d] = "open"
                 PROVE  (\/ Holds(connections, d) \/ beingAccepted(d)
                         \/ Holds(q, Blk("stop", d, 0)))'
      BY <1>1 DEF OpenSocketIsOwned
    <2>1. d # c
      BY <1>2 DEF BlockIsCurrent
    <2>2. Holds(connections, d) => Holds(connections', d)
      BY <1>1, <2>1, HoldsRemove DEF TypeOK
    <2>3. Holds(q, Blk("stop", d, 0)) => Holds(q', Blk("stop", d, 0))
      BY <1>1, HeadFacts
    <2>4. beingAccepted(d) => beingAccepted(d)'
      BY <1>1 DEF beingAccepted, IsHead
    <2>5. QED
      BY <2>2, <2>3, <2>4 DEF OpenSocketIsOwned
  <1>13. QED
    BY <1>4, <1>5, <1>6, <1>7, <1>8, <1>9, <1>10, <1>11, <1>12

(* What the answer to the head of connectionQueue leaves alone. *)
beside == <<lifeVars, connections, sock, requests, reading, delivered, serverQueue,
            mainBlock, mainQueue, timers>>

(* The response to the request at the head is written and the head is done. *)
LEMMA WriteResponseIInv ==
  ASSUME IInv, TypeOK', NEW c \in Conn, IsHead(connectionQueue, "read", c),
         writeResponse(c, Head(connectionQueue).n, Tail(connectionQueue)),
         taken' = [taken EXCEPT ![c] = Head(connectionQueue).n],
         dispatched # "waiting", ~InHandler, dispatched' = "no", UNCHANGED beside
  PROVE  IInv'
  <1> USE DEF IInv
  <1> DEFINE q == connectionQueue
             t == Tail(connectionQueue)
             k == Head(connectionQueue).n
             W == Blk("wrote", c, k)
  <1>1. /\ q # <<>> /\ q[1].op = "read" /\ q[1].conn = c /\ q[1].n = k
        /\ Len(q) \in Nat /\ Len(t) = Len(q) - 1
        /\ t \in Seq(ConnectionBlock) /\ q[1] \in ConnectionBlock
        /\ \A i \in 1 .. Len(t) : i + 1 \in 1 .. Len(q) /\ t[i] = q[i + 1]
        /\ BlockIsCurrent(q[1])
        /\ \A i \in 1 .. Len(t) : BlockIsCurrent(t[i])
        /\ ~beingAccepted(c)
        /\ \A i \in 1 .. Len(t) : t[i].conn = c => ~IsTurn(t[i])
    BY HeadFacts, QueueFacts DEF TypeOK
  <1>2. /\ k \in Nat /\ ~reading[c] /\ writing[c] = 0 /\ sock[c] \in {"open", "closed"}
        /\ k = delivered[c] /\ k = answered[c] + 1 /\ k \in 1 .. Len(requests[c])
        /\ answered[c] \in Nat
    BY <1>1, BlockFields DEF BlockIsCurrent, IsTurn, TypeOK
  <1>3. \A i \in 1 .. Len(mainQueue) : mainQueue[i].op # "route"
    BY DEF HandlerServesTheHead
  <1>4. ~HeadIsServed'
    BY DEF HeadIsServed, InHandler, beside
  <1>5. /\ sock[c] # "open" => q' = t /\ writing' = writing /\ answered' = answered
        /\ sock[c] = "open" /\ requests[c][k] = "tree" =>
              q' = t /\ writing' = [writing EXCEPT ![c] = k] /\ answered' = answered
        /\ sock[c] = "open" /\ requests[c][k] # "tree" =>
              /\ q' = Append(t, W)
              /\ writing' = writing
              /\ answered' = [answered EXCEPT ![c] = k]
    BY DEF writeResponse
  <1>6. /\ W \in ConnectionBlock /\ W.op = "wrote" /\ W.conn = c /\ W.n = k /\ IsTurn(W)
    BY <1>2, BlockType DEF Blk, IsTurn
  <1> HIDE DEF t, W, k
  <1>7. q' = t \/ (q' = Append(t, W) /\ answered'[c] = k /\ writing'[c] = 0)
    BY <1>2, <1>5 DEF TypeOK
  <1>8. /\ Len(q') \in Nat /\ Len(t) \in Nat
        /\ \A i \in 1 .. Len(t) : q'[i] = t[i]
        /\ \A i \in 1 .. Len(q') : i \in 1 .. Len(t) \/ (i = Len(t) + 1 /\ q'[i] = W)
        /\ \A x : Holds(t, x) => Holds(q', x)
    BY <1>1, <1>6, <1>7, ExtendProperties
  <1>9. OneTurn'
    <2> SUFFICES ASSUME NEW i \in 1 .. Len(q'), NEW j \in 1 .. Len(q'),
                        IsTurn(q'[i]), IsTurn(q'[j]), q'[i].conn = q'[j].conn
                 PROVE  i = j
      BY DEF OneTurn, IsTurn
    <2>1. CASE i \in 1 .. Len(t) /\ j \in 1 .. Len(t)
      <3>1. q'[i] = q[i + 1] /\ q'[j] = q[j + 1]
        BY <1>1, <1>8, <2>1
      <3>2. i + 1 \in 1 .. Len(q) /\ j + 1 \in 1 .. Len(q)
        BY <1>1, <2>1
      <3>3. i + 1 = j + 1
        BY <3>1, <3>2 DEF OneTurn, IsTurn
      <3>4. QED
        BY <3>3, <2>1, <1>8
    <2>2. CASE i \notin 1 .. Len(t) \/ j \notin 1 .. Len(t)
      BY <1>1, <1>6, <1>8, <2>2
    <2>3. QED
      BY <2>1, <2>2
  <1>10. \A i \in 1 .. Len(q') : BlockIsCurrent(q[i])'
    <2> SUFFICES ASSUME NEW i \in 1 .. Len(q')
                 PROVE  BlockIsCurrent(q[i])'
      OBVIOUS
    <2>1. CASE i \in 1 .. Len(t)
      <3>1. BlockIsCurrent(t[i]) /\ (t[i].conn = c => ~IsTurn(t[i])) /\ q'[i] = t[i]
        BY <1>1, <1>8, <2>1
      <3>2. \A d \in Conn \ {c} : /\ writing'[d] = writing[d]
                                  /\ taken'[d] = taken[d]
                                  /\ answered'[d] = answered[d]
        BY <1>5 DEF TypeOK
      <3>3. UNCHANGED <<sock, requests, reading, delivered>>
        BY DEF beside
      <3>4. QED
        BY <3>1, <3>2, <3>3, OthersStayCurrent
    <2>2. CASE i \notin 1 .. Len(t)
      <3>1. q' # t /\ q'[i] = W
        BY <1>8, <2>2
      <3>2. answered'[c] = k /\ writing'[c] = 0 /\ taken'[c] = k
        BY <1>7, <3>1 DEF TypeOK, k
      <3>3. QED
        BY <1>2, <1>6, <3>1, <3>2 DEF BlockIsCurrent, IsTurn, beside
    <2>3. QED
      BY <2>1, <2>2
  <1>11. TurnIsCurrent'
    BY <1>10 DEF TurnIsCurrent
  <1>12. ServedIsTaken'
    <2> SUFFICES ASSUME NEW i \in 1 .. Len(q'), q'[i].op = "read"
                 PROVE  taken'[q'[i].conn] = q'[i].n - 1
      BY <1>4 DEF ServedIsTaken
    <2>1. i \in 1 .. Len(t) /\ q'[i] = t[i]
      BY <1>6, <1>8
    <2>2. t[i].conn # c /\ t[i].conn \in Conn
      BY <1>1, <2>1 DEF IsTurn, BlockIsCurrent
    <2>3. taken[t[i].conn] = t[i].n - 1
      BY <1>1, <2>1 DEF ServedIsTaken
    <2>4. QED
      BY <2>1, <2>2, <2>3 DEF TypeOK
  <1>13. SocketIsCurrent'
    <2> SUFFICES ASSUME NEW d \in Conn PROVE ExchangeIsCurrent(d)' /\ DebtIsKnown(d)'
      BY DEF SocketIsCurrent
    <2>1. ExchangeIsCurrent(d) /\ DebtIsKnown(d)
      BY DEF SocketIsCurrent
    <2>2. UNCHANGED <<sock, requests, reading, delivered>>
      BY DEF beside
    <2>3. CASE d = c
      <3>1. /\ taken'[d] = k /\ delivered'[d] = k /\ ~reading'[d]
            /\ sock'[d] = sock[d] /\ requests'[d] = requests[d]
            /\ answered[d] \in Nat /\ k = answered[d] + 1
            /\ k \in 1 .. Len(requests[d]) /\ sock[d] \in {"open", "closed"}
        BY <1>2, <2>2, <2>3 DEF TypeOK, k
      <3>2. CASE sock[c] # "open"
        <4>1. writing'[d] = 0 /\ answered'[d] = answered[d]
          BY <1>2, <1>5, <2>3, <3>2 DEF TypeOK
        <4>2. ExchangeIsCurrent(d)'
          BY <2>3, <3>1, <3>2, <4>1 DEF ExchangeIsCurrent
        <4>3. DebtIsKnown(d)'
          BY <2>3, <3>1, <3>2, <4>1 DEF DebtIsKnown
        <4>4. QED
          BY <4>2, <4>3
      <3>3. CASE sock[c] = "open" /\ requests[c][k] = "tree"
        <4>1. writing'[d] = k /\ answered'[d] = answered[d]
          BY <1>2, <1>5, <2>3, <3>3 DEF TypeOK
        <4>2. ExchangeIsCurrent(d)'
          BY <2>3, <3>1, <3>3, <4>1 DEF ExchangeIsCurrent
        <4>3. DebtIsKnown(d)'
          BY <2>3, <3>1, <3>3, <4>1 DEF DebtIsKnown
        <4>4. QED
          BY <4>2, <4>3
      <3>4. CASE sock[c] = "open" /\ requests[c][k] # "tree"
        <4>1. writing'[d] = 0 /\ answered'[d] = k
          BY <1>2, <1>5, <2>3, <3>4 DEF TypeOK
        <4>2. ExchangeIsCurrent(d)'
          BY <2>3, <3>1, <3>4, <4>1 DEF ExchangeIsCurrent
        <4>3. DebtIsKnown(d)'
          BY <2>3, <3>1, <3>4, <4>1 DEF DebtIsKnown
        <4>4. QED
          BY <4>2, <4>3
      <3>5. QED
        BY <1>2, <3>2, <3>3, <3>4
    <2>4. CASE d # c
      <3>1. writing'[d] = writing[d] /\ taken'[d] = taken[d] /\ answered'[d] = answered[d]
        BY <1>5, <2>4 DEF TypeOK
      <3>2. Head(q) # Blk("read", d, taken[d])
        BY <1>1, <2>4, QueueFacts DEF Blk, TypeOK
      <3>3. QED
        BY <2>1, <2>2, <3>1, <3>2 DEF ExchangeIsCurrent, DebtIsKnown, Idle
    <2>5. QED
      BY <2>3, <2>4
  <1>14. AcceptIsPending'
    BY DEF AcceptIsPending, beside
  <1>15. NewIsIdle'
    <2> SUFFICES ASSUME NEW d \in Conn, beingAccepted(d), d # c
                 PROVE  HasNoTurn(d)'
      BY <1>1 DEF NewIsIdle, beingAccepted, IsHead, beside
    <2>1. HasNoTurn(d)
      BY DEF NewIsIdle
    <2>2. \A i \in 1 .. Len(q') : q'[i].conn = d => ~IsTurn(q'[i])
      BY <1>1, <1>6, <1>8, <2>1 DEF HasNoTurn, IsTurn
    <2>3. writing'[d] = writing[d] /\ taken'[d] = taken[d] /\ answered'[d] = answered[d]
      BY <1>5 DEF TypeOK
    <2>4. QED
      BY <2>1, <2>2, <2>3 DEF HasNoTurn, Idle, IsTurn, beside
  <1>16. SyncIsPaired'
    BY DEF SyncIsPaired, beside, InHandler
  <1>17. HandlerServesTheHead'
    BY <1>3 DEF HandlerServesTheHead, beside
  <1>18. OpenSocketIsOwned'
    <2>1. \A d \in Conn : Holds(q, Blk("stop", d, 0)) => Holds(t, Blk("stop", d, 0))
      BY HeadFacts DEF t
    <2>2. QED
      BY <2>1, <1>8 DEF OpenSocketIsOwned, beside, beingAccepted, IsHead
  <1>19. QED
    BY <1>9, <1>11, <1>12, <1>13, <1>14, <1>15, <1>16, <1>17, <1>18

(* replyToHTTPRequest: what the handler answered is written. *)
LEMMA ReplyToHTTPRequestIInv ==
  ASSUME IInv, TypeOK', NEW c \in Conn, replyToHTTPRequest(c)
  PROVE  IInv'
  <1> USE DEF IInv
  <1> DEFINE q == connectionQueue
  <1>1. /\ IsHead(q, "read", c) /\ dispatched = "returned" /\ dispatched' = "no"
        /\ writeResponse(c, Head(q).n, Tail(q)) /\ taken' = taken /\ UNCHANGED beside
    BY DEF replyToHTTPRequest, beside
  <1>2. /\ 1 \in 1 .. Len(q) /\ q[1].op = "read" /\ q[1].conn = c /\ Head(q) = q[1]
    BY <1>1, HeadFacts
  <1>3. taken[c] = Head(q).n
    BY <1>1, <1>2 DEF ServedIsTaken, HeadIsServed
  <1>4. taken' = [taken EXCEPT ![c] = Head(q).n]
    BY <1>1, <1>3 DEF TypeOK
  <1>5. ~InHandler
    BY SMTT(60), <1>1, QueueFacts DEF SyncIsPaired, HandlerServesTheHead, TypeOK
  <1>6. QED
    BY <1>1, <1>4, <1>5, WriteResponseIInv

(* didReadData: the request is refused or sent to the main queue. *)
LEMMA DidReadDataIInv ==
  ASSUME IInv, TypeOK', NEW c \in Conn, didReadData(c)
  PROVE  IInv'
  <1> USE DEF IInv
  <1> DEFINE q == connectionQueue
             k == Head(connectionQueue).n
             R == Blk("route", c, k)
  <1>1. IsHead(q, "read", c) /\ dispatched = "no"
    BY DEF didReadData
  <1>2. /\ ~HeadIsServed /\ ~InHandler
        /\ \A i \in 1 .. Len(mainQueue) : mainQueue[i].op # "route"
    BY <1>1, NobodyServed DEF HeadIsServed
  <1>3. CASE requests[c][k] = "invalid"
    BY <1>1, <1>2, <1>3, WriteResponseIInv DEF didReadData, beside
  <1>4. CASE requests[c][k] # "invalid"
    <2>1. /\ mainQueue' = Append(mainQueue, R) /\ dispatched' = "waiting"
          /\ UNCHANGED <<taken, writing, answered, connectionQueue, lifeVars, connections,
                         sock, requests, reading, delivered, serverQueue, mainBlock>>
      BY <1>4 DEF didReadData
    <2>2. /\ q # <<>> /\ q[1].op = "read" /\ q[1].conn = c /\ Head(q) = q[1]
          /\ q[1] \in ConnectionBlock
      BY <1>1, HeadFacts, QueueFacts DEF TypeOK
    <2>3. R \in MainBlock /\ R.op = "route" /\ R.conn = c /\ R.n = k
      BY <2>2, BlockFields, BlockType DEF Blk
    <2>4. Head(q) = Blk("read", c, k)
      BY <2>2, BlockIsItsFields
    <2> HIDE DEF R, k
    <2>5. /\ Len(mainQueue) \in Nat /\ Len(mainQueue') = Len(mainQueue) + 1
          /\ \A i \in 1 .. Len(mainQueue) : mainQueue'[i] = mainQueue[i]
          /\ mainQueue'[Len(mainQueue) + 1] = R
      BY <2>1, <2>3, AppendProperties, QueueFacts DEF TypeOK
    <2>14. mainQueue # <<>> => mainQueue' # <<>> /\ Head(mainQueue') = Head(mainQueue)
      BY <2>5, QueueFacts DEF TypeOK
    <2>6. HandlerServesTheHead'
      BY <1>2, <2>1, <2>2, <2>3, <2>4, <2>5 DEF HandlerServesTheHead
    <2>7. SyncIsPaired'
      BY <1>2, <1>4, <2>1, <2>2, <2>3, <2>5, <2>14 DEF SyncIsPaired, InHandler, k
    <2>8. ~HeadIsServed'
      BY <1>2, <2>1 DEF HeadIsServed, InHandler
    <2>9. OneTurn' /\ TurnIsCurrent'
      BY <2>1 DEF OneTurn, TurnIsCurrent, BlockIsCurrent, IsTurn
    <2>10. ServedIsTaken'
      BY <1>2, <2>1, <2>8 DEF ServedIsTaken
    <2>11. SocketIsCurrent'
      BY <2>1 DEF SocketIsCurrent, ExchangeIsCurrent, DebtIsKnown, Idle
    <2>12. AcceptIsPending' /\ NewIsIdle' /\ OpenSocketIsOwned'
      BY <2>1 DEF AcceptIsPending, NewIsIdle, OpenSocketIsOwned, beingAccepted, IsHead,
                  HasNoTurn, Idle, IsTurn
    <2>13. QED
      BY <2>6, <2>7, <2>9, <2>10, <2>11, <2>12
  <1>5. QED
    BY <1>3, <1>4

-------------------------------------------------------------------------------
(* Steps of clients and sockets, which put a block at the end of a queue. *)

(* The head of a queue is not disturbed by a block put at its end. *)
LEMMA HeadStays ==
  ASSUME NEW S, NEW s \in Seq(S), NEW b \in S, s # <<>>
  PROVE  Append(s, b) # <<>> /\ Head(Append(s, b)) = Head(s)
  BY AppendProperties, QueueFacts

(* send: a client sends one more request. *)
LEMMA SendIInv ==
  ASSUME IInv, TypeOK', NEW c \in Conn, NEW kind \in Kinds, send(c, kind)
  PROVE  IInv'
  <1> USE DEF IInv
  <1>1. /\ UNCHANGED <<lifeVars, connections, sock, reading, delivered, taken, writing,
                       answered, serverQueue, connectionQueue, mainQueue, dispatched,
                       mainBlock>>
        /\ requests' = [requests EXCEPT ![c] = Append(@, kind)]
        /\ sock[c] \in {"accepting", "open"}
    BY DEF send
  <1>2. \A d \in Conn : /\ Len(requests[d]) \in Nat /\ Len(requests'[d]) \in Nat
                        /\ Len(requests'[d]) >= Len(requests[d])
                        /\ \A k \in 1 .. Len(requests[d]) : requests'[d][k] = requests[d][k]
    BY <1>1, AppendProperties, LenProperties DEF TypeOK
  <1>3. ASSUME NEW i \in 1 .. Len(connectionQueue)
        PROVE  BlockIsCurrent(connectionQueue[i])'
    <2>1. BlockIsCurrent(connectionQueue[i])
      BY DEF TurnIsCurrent
    <2>2. QED
      BY <1>1, <1>2, <2>1 DEF BlockIsCurrent, IsTurn
  <1>4. OneTurn' /\ TurnIsCurrent'
    BY <1>1, <1>3 DEF OneTurn, TurnIsCurrent, IsTurn
  <1>5. ServedIsTaken'
    BY <1>1 DEF ServedIsTaken, HeadIsServed, InHandler
  <1>6. SocketIsCurrent'
    <2> SUFFICES ASSUME NEW d \in Conn PROVE ExchangeIsCurrent(d)' /\ DebtIsKnown(d)'
      BY DEF SocketIsCurrent
    <2>1. ExchangeIsCurrent(d) /\ DebtIsKnown(d)
      BY DEF SocketIsCurrent
    <2>2. ExchangeIsCurrent(d)'
      BY <1>1, <1>2, <2>1 DEF ExchangeIsCurrent, Idle
    <2>3. DebtIsKnown(d)'
      BY <1>1, <2>1 DEF DebtIsKnown
    <2>4. QED
      BY <2>2, <2>3
  <1>7. AcceptIsPending' /\ NewIsIdle' /\ OpenSocketIsOwned' /\ HandlerServesTheHead'
    BY <1>1 DEF AcceptIsPending, NewIsIdle, OpenSocketIsOwned, HandlerServesTheHead,
                beingAccepted, IsHead, HasNoTurn, Idle, IsTurn
  <1>8. SyncIsPaired'
    <2>1. ASSUME dispatched # "no"
          PROVE  requests'[Head(connectionQueue).conn][Head(connectionQueue).n] # "invalid"
      <3>1. 1 \in 1 .. Len(connectionQueue) /\ Head(connectionQueue) = connectionQueue[1]
        BY <2>1, QueueFacts DEF SyncIsPaired, TypeOK
      <3>2. BlockIsCurrent(Head(connectionQueue))
        BY <3>1 DEF TurnIsCurrent
      <3>3. QED
        BY <1>2, <2>1, <3>2 DEF SyncIsPaired, BlockIsCurrent
    <2>2. QED
      BY <1>1, <2>1 DEF SyncIsPaired, InHandler
  <1>9. QED
    BY <1>4, <1>5, <1>6, <1>7, <1>8

(* connect: a socket that nothing is known about is accepted. *)
LEMMA ConnectIInv ==
  ASSUME IInv, TypeOK', NEW c \in Conn, connect(c)
  PROVE  IInv'
  <1> USE DEF IInv
  <1> DEFINE B == Blk("accept", c, 0)
  <1>1. /\ UNCHANGED <<lifeVars, connections, requests, reading, delivered, taken, writing,
                       answered, connectionQueue, mainQueue, dispatched, mainBlock>>
        /\ serverQueue' = Append(serverQueue, B)
        /\ sock' = [sock EXCEPT ![c] = "accepting"] /\ sock[c] = "none"
    BY DEF connect, protocolVars
  <1>2. B \in ServerBlock /\ B.op = "accept" /\ B.conn = c
    BY BlockType DEF Blk
  <1> HIDE DEF B
  <1>3. /\ Len(serverQueue) \in Nat /\ Len(serverQueue') = Len(serverQueue) + 1
        /\ \A i \in 1 .. Len(serverQueue) : serverQueue'[i] = serverQueue[i]
        /\ serverQueue'[Len(serverQueue) + 1] = B
    BY <1>1, <1>2, AppendProperties, QueueFacts DEF TypeOK
  <1>15. serverQueue # <<>> => serverQueue' # <<>> /\ Head(serverQueue') = Head(serverQueue)
    <2>1. serverQueue \in Seq(ServerBlock)
      BY DEF TypeOK
    <2>2. QED
      BY <1>1, <1>2, <2>1, HeadStays
  <1>4. \A i \in 1 .. Len(serverQueue) : serverQueue[i].conn # c
    <2>1. \A i \in 1 .. Len(serverQueue) :
             serverQueue[i].op \in {"accept", "attach", "add", "stop"}
      <3>1. \A i \in 1 .. Len(serverQueue) : serverQueue[i] \in ServerBlock
        BY QueueFacts DEF TypeOK
      <3>2. QED
        BY <3>1 DEF ServerBlock, Block
    <2> SUFFICES ASSUME NEW i \in 1 .. Len(serverQueue), serverQueue[i].conn = c
                 PROVE  FALSE
      OBVIOUS
    <2>2. serverQueue[i].op \in {"attach", "add"}
      BY <1>1, <2>1, ServerAssumption DEF AcceptIsPending
    <2>3. beingAccepted(c)
      BY SMTT(60), <2>2, QueueFacts DEF AcceptIsPending, beingAccepted, IsHead, TypeOK
    <2>4. QED
      BY <1>1, <2>3 DEF NewIsIdle, HasNoTurn
  <1>5. \A d \in Conn : beingAccepted(d)' => beingAccepted(d) /\ d # c
    <2>1. CASE serverQueue = <<>>
      <3>1. serverQueue' # <<>> /\ Head(serverQueue') = B
        BY <1>1, <1>2, <1>3, <2>1, QueueFacts DEF TypeOK
      <3>2. QED
        BY <1>2, <3>1 DEF beingAccepted, IsHead
    <2>2. CASE serverQueue # <<>>
      <3>1. Head(serverQueue).conn # c
        BY SMTT(60), <1>4, <2>2, QueueFacts DEF TypeOK
      <3>2. QED
        BY <3>1, <1>15, <2>2 DEF beingAccepted, IsHead
    <2>3. QED
      BY <2>1, <2>2
  <1>6. ASSUME NEW i \in 1 .. Len(connectionQueue)
        PROVE  BlockIsCurrent(connectionQueue[i])'
    <2>1. BlockIsCurrent(connectionQueue[i])
      BY DEF TurnIsCurrent
    <2>2. CASE connectionQueue[i].conn = c
      BY <1>1, <2>1, <2>2 DEF BlockIsCurrent, IsTurn
    <2>3. CASE connectionQueue[i].conn # c
      BY <1>1, <2>1, <2>3 DEF BlockIsCurrent, IsTurn, TypeOK
    <2>4. QED
      BY <2>2, <2>3
  <1>7. OneTurn' /\ TurnIsCurrent'
    BY <1>1, <1>6 DEF OneTurn, TurnIsCurrent, IsTurn
  <1>8. ServedIsTaken'
    BY <1>1 DEF ServedIsTaken, HeadIsServed, InHandler
  <1>9. SocketIsCurrent'
    <2> SUFFICES ASSUME NEW d \in Conn PROVE ExchangeIsCurrent(d)' /\ DebtIsKnown(d)'
      BY DEF SocketIsCurrent
    <2>1. ExchangeIsCurrent(d) /\ DebtIsKnown(d)
      BY DEF SocketIsCurrent
    <2>2. CASE d = c
      BY <1>1, <2>1, <2>2 DEF ExchangeIsCurrent, DebtIsKnown, Idle, TypeOK
    <2>3. CASE d # c
      BY <1>1, <2>1, <2>3 DEF ExchangeIsCurrent, DebtIsKnown, Idle, TypeOK
    <2>4. QED
      BY <2>2, <2>3
  <1>10. AcceptIsPending'
    <2>1. \A i \in 1 .. Len(serverQueue') :
             \/ i \in 1 .. Len(serverQueue) /\ serverQueue'[i] = serverQueue[i]
             \/ i = Len(serverQueue) + 1 /\ serverQueue'[i] = B
      BY <1>3
    <2>2. \A d \in Conn \ {c} : sock'[d] = sock[d]
      BY <1>1 DEF TypeOK
    <2>3. sock'[c] = "accepting" /\ mainBlock' = mainBlock
      BY <1>1 DEF TypeOK
    <2>4. QED
      BY SMTT(60), <1>2, <1>4, <2>1, <2>2, <2>3 DEF AcceptIsPending
  <1>11. NewIsIdle'
    <2> SUFFICES ASSUME NEW d \in Conn, beingAccepted(d), d # c
                 PROVE  HasNoTurn(d)'
      BY <1>5 DEF NewIsIdle
    <2>1. QED
      BY <1>1 DEF NewIsIdle, HasNoTurn, Idle, IsTurn, TypeOK
  <1>12. SyncIsPaired' /\ HandlerServesTheHead'
    BY <1>1 DEF SyncIsPaired, InHandler, HandlerServesTheHead
  <1>13. OpenSocketIsOwned'
    <2> SUFFICES ASSUME NEW d \in Conn, sock'[d] = "open"
                 PROVE  \/ Holds(connections, d) \/ beingAccepted(d)'
                        \/ Holds(connectionQueue, Blk("stop", d, 0))
      BY <1>1 DEF OpenSocketIsOwned
    <2>1. sock[d] = "open"
      BY <1>1 DEF TypeOK
    <2>2. beingAccepted(d) => beingAccepted(d)'
      BY <1>15 DEF beingAccepted, IsHead
    <2>3. QED
      BY <2>1, <2>2 DEF OpenSocketIsOwned
  <1>14. QED
    BY <1>7, <1>8, <1>9, <1>10, <1>11, <1>12, <1>13

(* What a step that may put a block at the end of connectionQueue keeps. *)
LEMMA GrowFacts ==
  ASSUME IInv, NEW b \in ConnectionBlock,
         connectionQueue' = connectionQueue \/ connectionQueue' = Append(connectionQueue, b)
  PROVE  LET q == connectionQueue
         IN  /\ Len(q) \in Nat /\ Len(q') \in Nat /\ Len(q) <= Len(q')
             /\ \A i \in 1 .. Len(q) : q'[i] = q[i]
             /\ \A i \in 1 .. Len(q') :
                   i \in 1 .. Len(q) \/ (i = Len(q) + 1 /\ q'[i] = b /\ q' # q)
             /\ q # <<>> => q' # <<>> /\ Head(q') = Head(q)
             /\ Len(q) = 0 => ~HeadIsServed
             /\ \A x : Holds(q, x) => Holds(q', x)
  <1> USE DEF IInv
  <1> DEFINE q == connectionQueue
  <1>1. q \in Seq(ConnectionBlock)
    BY DEF TypeOK
  <1>2. /\ Len(q) \in Nat /\ Len(q') \in Nat /\ Len(q) <= Len(q')
        /\ \A i \in 1 .. Len(q) : q'[i] = q[i]
        /\ \A i \in 1 .. Len(q') : i \in 1 .. Len(q) \/ (i = Len(q) + 1 /\ q'[i] = b)
        /\ \A x : Holds(q, x) => Holds(q', x)
    BY <1>1, ExtendProperties
  <1>3. \A i \in 1 .. Len(q') : i \in 1 .. Len(q) \/ (i = Len(q) + 1 /\ q'[i] = b /\ q' # q)
    <2>1. CASE q' = q
      BY <2>1
    <2>2. CASE q' # q
      BY <1>2, <2>2
    <2>3. QED
      BY <2>1, <2>2
  <1>4. q # <<>> => q' # <<>> /\ Head(q') = Head(q)
    BY <1>1, HeadStays
  <1>5. Len(q) = 0 => ~HeadIsServed
    <2>1. Len(q) = 0 => dispatched = "no"
      BY <1>1, QueueFacts DEF SyncIsPaired, TypeOK
    <2>2. QED
      BY <2>1, NobodyServed
  <1>6. QED
    BY <1>2, <1>3, <1>4, <1>5

(* hangUp: the socket of a connection dies under it. *)
LEMMA HangUpIInv ==
  ASSUME IInv, TypeOK', NEW c \in Conn, hangUp(c)
  PROVE  IInv'
  <1> USE DEF IInv
  <1> DEFINE q == connectionQueue
             D == Blk("disconnected", c, 0)
  <1>1. /\ UNCHANGED <<lifeVars, connections, requests, delivered, taken, answered,
                       serverQueue, mainQueue, dispatched, mainBlock>>
        /\ sock[c] = "open" /\ sock' = [sock EXCEPT ![c] = "closed"]
        /\ reading' = [reading EXCEPT ![c] = FALSE]
        /\ writing' = [writing EXCEPT ![c] = 0]
    BY DEF hangUp, closeWithError
  <1>2. D \in ConnectionBlock /\ D.op = "disconnected" /\ D.conn = c /\ ~IsTurn(D)
    BY BlockType DEF Blk, IsTurn
  <1>3. q' = q \/ q' = Append(q, D)
    BY DEF hangUp, closeWithError
  <1> HIDE DEF D
  <1>4. /\ Len(q) \in Nat /\ Len(q') \in Nat /\ Len(q) <= Len(q')
        /\ \A i \in 1 .. Len(q) : q'[i] = q[i]
        /\ \A i \in 1 .. Len(q') : i \in 1 .. Len(q) \/ (i = Len(q) + 1 /\ q'[i] = D)
        /\ q # <<>> => q' # <<>> /\ Head(q') = Head(q)
        /\ \A x : Holds(q, x) => Holds(q', x)
    BY <1>2, <1>3, GrowFacts
  <1>5. /\ sock'[c] = "closed" /\ ~reading'[c] /\ writing'[c] = 0
        /\ \A d \in Conn \ {c} : /\ sock'[d] = sock[d]
                                 /\ reading'[d] = reading[d]
                                 /\ writing'[d] = writing[d]
    BY <1>1 DEF TypeOK
  <1>6. OneTurn'
    BY <1>2, <1>4 DEF OneTurn, IsTurn
  <1>7. TurnIsCurrent'
    <2> SUFFICES ASSUME NEW i \in 1 .. Len(q')
                 PROVE  BlockIsCurrent(q[i])'
      BY DEF TurnIsCurrent
    <2>1. CASE i \in 1 .. Len(q)
      <3>1. BlockIsCurrent(q[i]) /\ q'[i] = q[i]
        BY <1>4, <2>1 DEF TurnIsCurrent
      <3>2. CASE q[i].conn = c
        BY <1>1, <1>5, <3>1, <3>2 DEF BlockIsCurrent, IsTurn
      <3>3. CASE q[i].conn # c
        BY <1>1, <1>5, <3>1, <3>3 DEF BlockIsCurrent, IsTurn
      <3>4. QED
        BY <3>2, <3>3
    <2>2. CASE i \notin 1 .. Len(q)
      BY <1>2, <1>4, <1>5, <2>2 DEF BlockIsCurrent, IsTurn
    <2>3. QED
      BY <2>1, <2>2
  <1>8. ServedIsTaken'
    <2>1. HeadIsServed' <=> HeadIsServed
      BY <1>1 DEF HeadIsServed, InHandler
    <2>2. QED
      BY <1>1, <1>2, <1>4, <2>1 DEF ServedIsTaken
  <1>9. SocketIsCurrent'
    <2> SUFFICES ASSUME NEW d \in Conn PROVE ExchangeIsCurrent(d)' /\ DebtIsKnown(d)'
      BY DEF SocketIsCurrent
    <2>1. ExchangeIsCurrent(d) /\ DebtIsKnown(d)
      BY DEF SocketIsCurrent
    <2>2. CASE d = c
      BY <1>1, <1>5, <2>1, <2>2 DEF ExchangeIsCurrent, DebtIsKnown
    <2>3. CASE d # c
      BY <1>1, <1>4, <1>5, <2>1, <2>3 DEF ExchangeIsCurrent, DebtIsKnown, Idle
    <2>4. QED
      BY <2>2, <2>3
  <1>10. AcceptIsPending'
    BY <1>1, <1>5 DEF AcceptIsPending
  <1>11. NewIsIdle'
    <2> SUFFICES ASSUME NEW d \in Conn, beingAccepted(d)
                 PROVE  HasNoTurn(d)'
      BY <1>1 DEF NewIsIdle, beingAccepted, IsHead
    <2>1. HasNoTurn(d)
      BY DEF NewIsIdle
    <2>2. \A i \in 1 .. Len(q') : q'[i].conn = d => ~IsTurn(q'[i])
      BY <1>2, <1>4, <2>1 DEF HasNoTurn, IsTurn
    <2>3. QED
      BY <1>1, <1>5, <2>1, <2>2 DEF HasNoTurn, Idle, IsTurn
  <1>12. SyncIsPaired' /\ HandlerServesTheHead'
    BY <1>1, <1>4 DEF SyncIsPaired, InHandler, HandlerServesTheHead
  <1>13. OpenSocketIsOwned'
    BY <1>1, <1>4, <1>5 DEF OpenSocketIsOwned, beingAccepted, IsHead
  <1>14. QED
    BY <1>6, <1>7, <1>8, <1>9, <1>10, <1>11, <1>12, <1>13

(* What a step that gives the turn of c to a new block of connectionQueue must *)
(* leave in place.                                                             *)
LEMMA NewTurnIInv ==
  ASSUME IInv, TypeOK', NEW c \in Conn, NEW b \in ConnectionBlock,
         connectionQueue' = Append(connectionQueue, b), b.conn = c, IsTurn(b),
         \A i \in 1 .. Len(connectionQueue) :
             connectionQueue[i].conn = c => ~IsTurn(connectionQueue[i]),
         BlockIsCurrent(b)', b.op = "read" => taken[c] = b.n - 1,
         ExchangeIsCurrent(c)', sock[c] = "open" => answered'[c] = taken[c],
         UNCHANGED <<runner, isRunning, sock, requests, taken, mainQueue, dispatched,
                     mainBlock>>,
         \A d \in Conn \ {c} : /\ reading'[d] = reading[d]
                               /\ writing'[d] = writing[d]
                               /\ delivered'[d] = delivered[d]
                               /\ answered'[d] = answered[d]
  PROVE  /\ OneTurn' /\ TurnIsCurrent' /\ ServedIsTaken' /\ SocketIsCurrent'
         /\ SyncIsPaired' /\ HandlerServesTheHead'
         /\ \A x : Holds(connectionQueue, x) => Holds(connectionQueue', x)
         /\ \A d \in Conn \ {c} : HasNoTurn(d) => HasNoTurn(d)'
  <1> USE DEF IInv
  <1> DEFINE q == connectionQueue
  <1>1. /\ Len(q) \in Nat /\ Len(q') \in Nat /\ Len(q) <= Len(q')
        /\ \A i \in 1 .. Len(q) : q'[i] = q[i]
        /\ \A i \in 1 .. Len(q') : i \in 1 .. Len(q) \/ (i = Len(q) + 1 /\ q'[i] = b)
        /\ q # <<>> => q' # <<>> /\ Head(q') = Head(q)
        /\ Len(q) = 0 => ~HeadIsServed
        /\ \A x : Holds(q, x) => Holds(q', x)
    BY GrowFacts
  <1>2. HeadIsServed' <=> HeadIsServed
    BY DEF HeadIsServed, InHandler
  <1>3. OneTurn'
    BY <1>1 DEF OneTurn, IsTurn
  <1>4. TurnIsCurrent'
    <2> SUFFICES ASSUME NEW i \in 1 .. Len(q')
                 PROVE  BlockIsCurrent(q[i])'
      BY DEF TurnIsCurrent
    <2>1. CASE i \in 1 .. Len(q)
      <3>1. BlockIsCurrent(q[i]) /\ (q[i].conn = c => ~IsTurn(q[i])) /\ q'[i] = q[i]
        BY <1>1, <2>1 DEF TurnIsCurrent
      <3>2. QED
        BY <3>1, OthersStayCurrent
    <2>2. CASE i \notin 1 .. Len(q)
      <3>1. q'[i] = b
        BY <1>1, <2>2
      <3>2. QED
        BY <3>1 DEF BlockIsCurrent
    <2>3. QED
      BY <2>1, <2>2
  <1>5. ServedIsTaken'
    BY <1>1, <1>2 DEF ServedIsTaken
  <1>6. SocketIsCurrent'
    <2> SUFFICES ASSUME NEW d \in Conn PROVE ExchangeIsCurrent(d)' /\ DebtIsKnown(d)'
      BY DEF SocketIsCurrent
    <2>1. ExchangeIsCurrent(d) /\ DebtIsKnown(d)
      BY DEF SocketIsCurrent
    <2>2. CASE d = c
      BY <2>2 DEF DebtIsKnown
    <2>3. CASE d # c
      BY <1>1, <2>1, <2>3 DEF ExchangeIsCurrent, DebtIsKnown, Idle
    <2>4. QED
      BY <2>2, <2>3
  <1>7. SyncIsPaired' /\ HandlerServesTheHead'
    BY <1>1 DEF SyncIsPaired, InHandler, HandlerServesTheHead
  <1>8. ASSUME NEW d \in Conn \ {c}, HasNoTurn(d) PROVE HasNoTurn(d)'
    BY <1>1, <1>8 DEF HasNoTurn, Idle, IsTurn
  <1>9. QED
    BY <1>1, <1>3, <1>4, <1>5, <1>6, <1>7, <1>8

(* While something is outstanding on its socket, a connection has no turn, *)
(* and is in the server's array.                                           *)
LEMMA OutstandingFacts ==
  ASSUME IInv, NEW c \in Conn, reading[c] \/ writing[c] # 0
  PROVE  /\ ~beingAccepted(c)
         /\ \A i \in 1 .. Len(connectionQueue) :
               connectionQueue[i].conn = c => ~IsTurn(connectionQueue[i])
  <1> USE DEF IInv
  <1>1. ~beingAccepted(c)
    BY DEF NewIsIdle, HasNoTurn, Idle
  <1>2. ASSUME NEW i \in 1 .. Len(connectionQueue),
               connectionQueue[i].conn = c, IsTurn(connectionQueue[i])
        PROVE  FALSE
    <2>1. BlockIsCurrent(connectionQueue[i])
      BY DEF TurnIsCurrent
    <2>2. QED
      BY <1>2, <2>1 DEF BlockIsCurrent
  <1>3. QED
    BY <1>1, <1>2

(* completeCurrentRead: the turn goes from the socket to a read block. *)
LEMMA CompleteCurrentReadIInv ==
  ASSUME IInv, TypeOK', NEW c \in Conn, completeCurrentRead(c)
  PROVE  IInv'
  <1> USE DEF IInv
  <1>1. /\ UNCHANGED <<lifeVars, connections, sock, requests, taken, writing, answered,
                       serverQueue, mainQueue, dispatched, mainBlock>>
        /\ runner' = runner /\ isRunning' = isRunning
        /\ connectionQueue' = Append(connectionQueue, Blk("read", c, delivered[c] + 1))
        /\ reading[c] /\ delivered[c] < Len(requests[c])
        /\ reading' = [reading EXCEPT ![c] = FALSE]
        /\ delivered' = [delivered EXCEPT ![c] = @ + 1]
    BY DEF completeCurrentRead, lifeVars
  <1>2. /\ delivered[c] \in Nat /\ answered[c] \in Nat /\ taken[c] \in Nat
        /\ answered[c] = delivered[c] /\ taken[c] = delivered[c]
        /\ writing[c] = 0 /\ sock[c] = "open" /\ Len(requests[c]) \in Nat
    BY <1>1, LenProperties DEF SocketIsCurrent, ExchangeIsCurrent, TypeOK
  <1> PICK k \in Nat : k = delivered[c] + 1
    BY <1>2
  <1> DEFINE b == Blk("read", c, k)
  <1>3. b \in ConnectionBlock /\ b.op = "read" /\ b.conn = c /\ b.n = k /\ IsTurn(b)
    BY BlockType DEF Blk, IsTurn
  <1> HIDE DEF b
  <1>4. /\ ~reading'[c] /\ writing'[c] = 0 /\ delivered'[c] = k /\ answered'[c] = k - 1
        /\ taken'[c] = k - 1 /\ sock'[c] = "open" /\ requests'[c] = requests[c]
        /\ \A d \in Conn \ {c} : /\ reading'[d] = reading[d]
                                 /\ writing'[d] = writing[d]
                                 /\ delivered'[d] = delivered[d]
                                 /\ answered'[d] = answered[d]
    BY <1>1, <1>2 DEF TypeOK
  <1>5. BlockIsCurrent(b)'
    <2>1. k \in 1 .. Len(requests[c])
      BY <1>1, <1>2
    <2>2. k = (k - 1) + 1
      OBVIOUS
    <2>3. QED
      BY <1>3, <1>4, <2>1, <2>2 DEF BlockIsCurrent, IsTurn
  <1>6. ExchangeIsCurrent(c)'
    BY <1>4 DEF ExchangeIsCurrent
  <1>7. /\ ~beingAccepted(c)
        /\ \A i \in 1 .. Len(connectionQueue) :
              connectionQueue[i].conn = c => ~IsTurn(connectionQueue[i])
    BY <1>1, OutstandingFacts
  <1>8. /\ OneTurn' /\ TurnIsCurrent' /\ ServedIsTaken' /\ SocketIsCurrent'
        /\ SyncIsPaired' /\ HandlerServesTheHead'
        /\ \A x : Holds(connectionQueue, x) => Holds(connectionQueue', x)
        /\ \A d \in Conn \ {c} : HasNoTurn(d) => HasNoTurn(d)'
    <2>1. connectionQueue' = Append(connectionQueue, b)
      BY <1>1 DEF b
    <2>2. b.op = "read" => taken[c] = b.n - 1
      BY <1>2, <1>3
    <2>3. sock[c] = "open" => answered'[c] = taken[c]
      BY <1>2, <1>4
    <2>4. UNCHANGED <<runner, isRunning, sock, requests, taken, mainQueue, dispatched,
                      mainBlock>>
      BY <1>1
    <2>5. QED
      BY <1>3, <1>4, <1>5, <1>6, <1>7, <2>1, <2>2, <2>3, <2>4, NewTurnIInv
  <1>9. AcceptIsPending' /\ NewIsIdle' /\ OpenSocketIsOwned'
    BY <1>1, <1>7, <1>8 DEF AcceptIsPending, NewIsIdle, OpenSocketIsOwned, beingAccepted, IsHead
  <1>10. QED
    BY <1>8, <1>9

(* completeCurrentWrite: the turn goes from the socket to a wrote block. *)
LEMMA CompleteCurrentWriteIInv ==
  ASSUME IInv, TypeOK', NEW c \in Conn, completeCurrentWrite(c)
  PROVE  IInv'
  <1> USE DEF IInv
  <1>1. /\ UNCHANGED <<lifeVars, connections, sock, requests, reading, delivered, taken,
                       serverQueue, mainQueue, dispatched, mainBlock>>
        /\ runner' = runner /\ isRunning' = isRunning
        /\ connectionQueue' = Append(connectionQueue, Blk("wrote", c, writing[c]))
        /\ writing[c] # 0
        /\ answered' = [answered EXCEPT ![c] = writing[c]]
        /\ writing' = [writing EXCEPT ![c] = 0]
    BY DEF completeCurrentWrite, lifeVars
  <1>2. /\ writing[c] \in Nat /\ delivered[c] = writing[c] /\ taken[c] = writing[c]
        /\ ~reading[c] /\ sock[c] = "open" /\ writing[c] \in 1 .. Len(requests[c])
    BY <1>1 DEF SocketIsCurrent, ExchangeIsCurrent, TypeOK
  <1> PICK k \in Nat : k = writing[c]
    BY <1>2
  <1> DEFINE b == Blk("wrote", c, k)
  <1>3. b \in ConnectionBlock /\ b.op = "wrote" /\ b.conn = c /\ b.n = k /\ IsTurn(b)
    BY BlockType DEF Blk, IsTurn
  <1> HIDE DEF b
  <1>4. /\ ~reading'[c] /\ writing'[c] = 0 /\ delivered'[c] = k /\ answered'[c] = k
        /\ taken'[c] = k /\ sock'[c] = "open" /\ requests'[c] = requests[c]
        /\ \A d \in Conn \ {c} : /\ reading'[d] = reading[d]
                                 /\ writing'[d] = writing[d]
                                 /\ delivered'[d] = delivered[d]
                                 /\ answered'[d] = answered[d]
    BY <1>1, <1>2 DEF TypeOK
  <1>5. BlockIsCurrent(b)'
    BY <1>2, <1>3, <1>4 DEF BlockIsCurrent, IsTurn
  <1>6. ExchangeIsCurrent(c)'
    BY <1>4 DEF ExchangeIsCurrent
  <1>7. /\ ~beingAccepted(c)
        /\ \A i \in 1 .. Len(connectionQueue) :
              connectionQueue[i].conn = c => ~IsTurn(connectionQueue[i])
    BY <1>1, OutstandingFacts
  <1>8. /\ OneTurn' /\ TurnIsCurrent' /\ ServedIsTaken' /\ SocketIsCurrent'
        /\ SyncIsPaired' /\ HandlerServesTheHead'
        /\ \A x : Holds(connectionQueue, x) => Holds(connectionQueue', x)
        /\ \A d \in Conn \ {c} : HasNoTurn(d) => HasNoTurn(d)'
    <2>1. connectionQueue' = Append(connectionQueue, b)
      BY <1>1 DEF b
    <2>2. b.op = "read" => taken[c] = b.n - 1
      BY <1>3
    <2>3. sock[c] = "open" => answered'[c] = taken[c]
      BY <1>2, <1>4
    <2>4. UNCHANGED <<runner, isRunning, sock, requests, taken, mainQueue, dispatched,
                      mainBlock>>
      BY <1>1
    <2>5. QED
      BY <1>3, <1>4, <1>5, <1>6, <1>7, <2>1, <2>2, <2>3, <2>4, NewTurnIInv
  <1>9. AcceptIsPending' /\ NewIsIdle' /\ OpenSocketIsOwned'
    BY <1>1, <1>7, <1>8 DEF AcceptIsPending, NewIsIdle, OpenSocketIsOwned, beingAccepted, IsHead
  <1>10. QED
    BY <1>8, <1>9

-------------------------------------------------------------------------------
(* Steps of serverQueue. *)

(* What is known when a block of serverQueue is run. *)
LEMMA ServerHeadFacts ==
  ASSUME IInv, NEW o, NEW c, IsHead(serverQueue, o, c)
  PROVE  LET q == serverQueue
             t == Tail(serverQueue)
         IN  /\ q # <<>> /\ q[1].op = o /\ q[1].conn = c
             /\ Len(q) \in Nat /\ 1 \in 1 .. Len(q)
             /\ t \in Seq(ServerBlock)
             /\ Len(t) = Len(q) - 1
             /\ \A i \in 1 .. Len(t) : i + 1 \in 1 .. Len(q) /\ t[i] = q[i + 1]
             /\ \A i \in 1 .. Len(t) : t[i].conn # c /\ t[i].op \notin {"attach", "add"}
  <1> USE DEF IInv
  <1> DEFINE q == serverQueue
             t == Tail(serverQueue)
  <1>1. /\ q # <<>> /\ q[1].op = o /\ q[1].conn = c
        /\ Len(q) \in Nat /\ 1 \in 1 .. Len(q)
        /\ t \in Seq(ServerBlock)
        /\ Len(t) = Len(q) - 1
        /\ \A i \in 1 .. Len(t) : i + 1 \in 1 .. Len(q) /\ t[i] = q[i + 1]
    BY QueueFacts, PopProperties DEF IsHead, TypeOK
  <1>2. ASSUME NEW i \in 1 .. Len(t)
        PROVE  t[i].conn # c /\ t[i].op \notin {"attach", "add"}
    <2>1. i + 1 \in 1 .. Len(q) /\ t[i] = q[i + 1] /\ i + 1 # 1
      BY <1>1
    <2>2. q[i + 1].conn # q[1].conn
      BY <1>1, <2>1 DEF AcceptIsPending
    <2>3. q[i + 1].op \notin {"attach", "add"}
      BY <2>1 DEF AcceptIsPending
    <2>4. QED
      BY <1>1, <2>1, <2>2, <2>3
  <1>3. QED
    BY <1>1, <1>2

(* doAccept: the socket of c is made, with nothing outstanding. *)
LEMMA DoAcceptIInv ==
  ASSUME IInv, TypeOK', NEW c \in Conn, doAccept(c)
  PROVE  IInv'
  <1> USE DEF IInv
  <1> DEFINE q == serverQueue
             b == Blk("attach", c, 0)
  <1>1. /\ UNCHANGED <<lifeVars, connections, requests, reading, delivered, taken, writing,
                       answered, connectionQueue, mainQueue, dispatched, mainBlock>>
        /\ IsHead(q, "accept", c) /\ q' = <<b>> \o Tail(q)
        /\ sock' = [sock EXCEPT ![c] = "open"]
    BY DEF doAccept, protocolVars
  <1>2. b \in ServerBlock /\ b.op = "attach" /\ b.conn = c
    BY BlockType DEF Blk
  <1> HIDE DEF b
  <1>3. /\ q # <<>> /\ q[1].op = "accept" /\ q[1].conn = c
        /\ Len(q) \in Nat /\ 1 \in 1 .. Len(q)
    BY <1>1, ServerHeadFacts
  <1>4. /\ Len(q') = Len(q) /\ q'[1] = b /\ \A i \in 2 .. Len(q) : q'[i] = q[i]
    <2>1. q \in Seq(ServerBlock)
      BY DEF TypeOK
    <2>2. QED
      BY <1>1, <1>2, <1>3, <2>1, RewriteHeadProperties
  <1>5. q' # <<>> /\ Head(q') = b
    BY <1>3, <1>4, QueueFacts DEF TypeOK
  <1>6. sock[c] = "accepting"
    BY <1>3 DEF AcceptIsPending
  <1>7. sock'[c] = "open" /\ \A d \in Conn \ {c} : sock'[d] = sock[d]
    BY <1>1 DEF TypeOK
  <1>8. Idle(c)
    BY <1>6 DEF SocketIsCurrent, ExchangeIsCurrent
  <1>9. \A i \in 1 .. Len(connectionQueue) :
            BlockIsCurrent(connectionQueue[i])
            /\ (connectionQueue[i].conn = c =>
                   ~IsTurn(connectionQueue[i]) /\ connectionQueue[i].op # "disconnected")
    BY <1>6 DEF TurnIsCurrent, BlockIsCurrent
  <1>10. OneTurn' /\ ServedIsTaken' /\ SyncIsPaired' /\ HandlerServesTheHead'
    BY <1>1 DEF OneTurn, ServedIsTaken, SyncIsPaired, HandlerServesTheHead, HeadIsServed,
                InHandler, IsTurn
  <1>11. TurnIsCurrent'
    <2> SUFFICES ASSUME NEW i \in 1 .. Len(connectionQueue)
                 PROVE  BlockIsCurrent(connectionQueue[i])'
      BY <1>1 DEF TurnIsCurrent
    <2>1. CASE connectionQueue[i].conn = c
      BY <1>1, <1>7, <1>9, <2>1 DEF BlockIsCurrent, IsTurn
    <2>2. CASE connectionQueue[i].conn # c
      BY <1>1, <1>7, <1>9, <2>2 DEF BlockIsCurrent, IsTurn
    <2>3. QED
      BY <2>1, <2>2
  <1>12. SocketIsCurrent'
    <2> SUFFICES ASSUME NEW d \in Conn PROVE ExchangeIsCurrent(d)' /\ DebtIsKnown(d)'
      BY DEF SocketIsCurrent
    <2>1. ExchangeIsCurrent(d) /\ DebtIsKnown(d)
      BY DEF SocketIsCurrent
    <2>2. CASE d = c
      BY <1>1, <1>7, <1>8, <2>1, <2>2 DEF ExchangeIsCurrent, DebtIsKnown, Idle
    <2>3. CASE d # c
      BY <1>1, <1>7, <2>1, <2>3 DEF ExchangeIsCurrent, DebtIsKnown, Idle
    <2>4. QED
      BY <2>2, <2>3
  <1>13. AcceptIsPending'
    <2>1. \A i \in 1 .. Len(q') : q'[i].conn = q[i].conn
      BY <1>2, <1>3, <1>4
    <2>6. \A i \in 2 .. Len(q) : q[i].conn # c
      BY <1>3 DEF AcceptIsPending
    <2>2. \A i \in 1 .. Len(q') :
             \/ i = 1 /\ q'[i] = b
             \/ i \in 2 .. Len(q) /\ q'[i] = q[i] /\ q[i].conn # c
      BY <1>3, <1>4, <2>6
    <2>3. \A i \in 1 .. Len(q') :
             /\ q'[i].op = "accept" => q'[i].conn \in Conn /\ sock'[q'[i].conn] = "accepting"
             /\ q'[i].op \in {"attach", "add"} => i = 1 /\ q'[i].conn \in Conn
             /\ q'[i].op = "stop" => q'[i].conn = NoConn /\ mainBlock' = "stopping"
      BY <1>1, <1>2, <1>4, <1>7, <2>2 DEF AcceptIsPending
    <2>4. \A i, j \in 1 .. Len(q') : q'[i].conn = q'[j].conn => i = j
      BY <1>4, <2>1 DEF AcceptIsPending
    <2>5. QED
      BY <2>3, <2>4 DEF AcceptIsPending
  <1>14. NewIsIdle'
    <2> SUFFICES ASSUME NEW d \in Conn, d = c
                 PROVE  HasNoTurn(d)'
      BY <1>2, <1>5 DEF NewIsIdle, beingAccepted, IsHead
    <2>1. QED
      BY <1>1, <1>7, <1>8, <1>9 DEF HasNoTurn, Idle, IsTurn
  <1>15. OpenSocketIsOwned'
    <2> SUFFICES ASSUME NEW d \in Conn, d # c, sock[d] = "open"
                 PROVE  \/ Holds(connections, d)
                        \/ Holds(connectionQueue, Blk("stop", d, 0))
      BY <1>1, <1>2, <1>5, <1>7 DEF OpenSocketIsOwned, beingAccepted, IsHead
    <2>1. ~beingAccepted(d)
      BY <1>1 DEF beingAccepted, IsHead
    <2>2. QED
      BY <2>1 DEF OpenSocketIsOwned
  <1>16. QED
    BY <1>10, <1>11, <1>12, <1>13, <1>14, <1>15

(* initWithAsyncSocket: the connection becomes its socket's delegate. *)
LEMMA InitWithAsyncSocketIInv ==
  ASSUME IInv, TypeOK', NEW c \in Conn, initWithAsyncSocket(c)
  PROVE  IInv'
  <1> USE DEF IInv
  <1> DEFINE q == serverQueue
             b == Blk("add", c, 0)
  <1>1. /\ UNCHANGED <<lifeVars, connections, sock, requests, reading, delivered, taken,
                       writing, answered, connectionQueue, mainQueue, dispatched, mainBlock>>
        /\ IsHead(q, "attach", c) /\ q' = <<b>> \o Tail(q)
    BY DEF initWithAsyncSocket, protocolVars
  <1>2. b \in ServerBlock /\ b.op = "add" /\ b.conn = c
    BY BlockType DEF Blk
  <1> HIDE DEF b
  <1>3. /\ q # <<>> /\ q[1].op = "attach" /\ q[1].conn = c
        /\ Len(q) \in Nat /\ 1 \in 1 .. Len(q)
    BY <1>1, ServerHeadFacts
  <1>4. /\ Len(q') = Len(q) /\ q'[1] = b /\ \A i \in 2 .. Len(q) : q'[i] = q[i]
    <2>1. q \in Seq(ServerBlock)
      BY DEF TypeOK
    <2>2. QED
      BY <1>1, <1>2, <1>3, <2>1, RewriteHeadProperties
  <1>5. q' # <<>> /\ Head(q') = b
    BY <1>3, <1>4, QueueFacts DEF TypeOK
  <1>6. \A d \in Conn : beingAccepted(d) <=> beingAccepted(d)'
    BY <1>1, <1>2, <1>5 DEF beingAccepted, IsHead
  <1>7. OneTurn' /\ TurnIsCurrent'
    BY <1>1 DEF OneTurn, TurnIsCurrent, BlockIsCurrent, IsTurn
  <1>8. ServedIsTaken' /\ SyncIsPaired' /\ HandlerServesTheHead'
    BY <1>1 DEF ServedIsTaken, SyncIsPaired, HandlerServesTheHead, HeadIsServed, InHandler
  <1>9. SocketIsCurrent'
    BY <1>1 DEF SocketIsCurrent, ExchangeIsCurrent, DebtIsKnown, Idle
  <1>10. AcceptIsPending'
    <2>1. \A i \in 1 .. Len(q') : q'[i].conn = q[i].conn
      BY <1>2, <1>3, <1>4
    <2>2. \A i \in 1 .. Len(q') :
             \/ i = 1 /\ q'[i] = b
             \/ i \in 2 .. Len(q) /\ q'[i] = q[i]
      BY <1>3, <1>4
    <2>3. \A i \in 1 .. Len(q') :
             /\ q'[i].op = "accept" => q'[i].conn \in Conn /\ sock'[q'[i].conn] = "accepting"
             /\ q'[i].op \in {"attach", "add"} => i = 1 /\ q'[i].conn \in Conn
             /\ q'[i].op = "stop" => q'[i].conn = NoConn /\ mainBlock' = "stopping"
      BY <1>1, <1>2, <1>4, <2>2 DEF AcceptIsPending
    <2>4. \A i, j \in 1 .. Len(q') : q'[i].conn = q'[j].conn => i = j
      BY <1>4, <2>1 DEF AcceptIsPending
    <2>5. QED
      BY <2>3, <2>4 DEF AcceptIsPending
  <1>11. NewIsIdle'
    BY <1>1, <1>6 DEF NewIsIdle, HasNoTurn, Idle, IsTurn
  <1>12. OpenSocketIsOwned'
    BY <1>1, <1>6 DEF OpenSocketIsOwned
  <1>13. QED
    BY <1>7, <1>8, <1>9, <1>10, <1>11, <1>12

(* didAcceptNewSocket: the connection joins the array and has its first turn. *)
LEMMA DidAcceptNewSocketIInv ==
  ASSUME IInv, TypeOK', NEW c \in Conn, didAcceptNewSocket(c)
  PROVE  IInv'
  <1> USE DEF IInv
  <1> DEFINE q == serverQueue
             b == Blk("start", c, 0)
  <1>1. /\ UNCHANGED <<sock, requests, reading, delivered, taken, writing, answered,
                       mainQueue, dispatched, mainBlock>>
        /\ runner' = runner /\ isRunning' = isRunning
        /\ IsHead(q, "add", c) /\ q' = Tail(q)
        /\ connections' = Append(connections, c)
        /\ connectionQueue' = Append(connectionQueue, b)
    BY DEF didAcceptNewSocket, protocolVars, lifeVars
  <1>2. b \in ConnectionBlock /\ b.op = "start" /\ b.conn = c /\ IsTurn(b)
    BY BlockType DEF Blk, IsTurn
  <1> HIDE DEF b
  <1>3. HasNoTurn(c)
    BY <1>1 DEF NewIsIdle, beingAccepted
  <1>4. /\ ~reading[c] /\ writing[c] = 0 /\ delivered[c] = 0 /\ taken[c] = 0
        /\ answered[c] = 0 /\ sock[c] \in {"open", "closed"}
        /\ \A j \in 1 .. Len(connectionQueue) :
              connectionQueue[j].conn = c => ~IsTurn(connectionQueue[j])
    BY <1>3 DEF HasNoTurn, Idle
  <1>5. BlockIsCurrent(b)'
    BY <1>1, <1>2, <1>4 DEF BlockIsCurrent, IsTurn
  <1>6. ExchangeIsCurrent(c)'
    BY <1>1 DEF SocketIsCurrent, ExchangeIsCurrent, Idle
  <1>7. /\ OneTurn' /\ TurnIsCurrent' /\ ServedIsTaken' /\ SocketIsCurrent'
        /\ SyncIsPaired' /\ HandlerServesTheHead'
        /\ \A x : Holds(connectionQueue, x) => Holds(connectionQueue', x)
        /\ \A d \in Conn \ {c} : HasNoTurn(d) => HasNoTurn(d)'
    <2>1. b.op = "read" => taken[c] = b.n - 1
      BY <1>2
    <2>2. sock[c] = "open" => answered'[c] = taken[c]
      BY <1>1, <1>4
    <2>3. UNCHANGED <<runner, isRunning, sock, requests, taken, mainQueue, dispatched,
                      mainBlock>>
      BY <1>1
    <2>4. \A d \in Conn \ {c} : /\ reading'[d] = reading[d]
                                /\ writing'[d] = writing[d]
                                /\ delivered'[d] = delivered[d]
                                /\ answered'[d] = answered[d]
      BY <1>1
    <2>5. connectionQueue' = Append(connectionQueue, b)
      BY <1>1
    <2>6. QED
      BY <1>2, <1>4, <1>5, <1>6, <2>1, <2>2, <2>3, <2>4, <2>5, NewTurnIInv
  <1>8. /\ \A i \in 1 .. Len(q') : i + 1 \in 1 .. Len(q) /\ q'[i] = q[i + 1]
        /\ \A i \in 1 .. Len(q') : q'[i].conn # c /\ q'[i].op \notin {"attach", "add"}
        /\ q' \in Seq(ServerBlock)
    BY <1>1, ServerHeadFacts
  <1>9. AcceptIsPending'
    <2>1. \A i \in 1 .. Len(q') :
             /\ q'[i].op = "accept" => q'[i].conn \in Conn /\ sock'[q'[i].conn] = "accepting"
             /\ q'[i].op = "stop" => q'[i].conn = NoConn /\ mainBlock' = "stopping"
      BY <1>1, <1>8 DEF AcceptIsPending
    <2>2. \A i, j \in 1 .. Len(q') : q'[i].conn = q'[j].conn => i = j
      BY SMTT(60), <1>8 DEF AcceptIsPending
    <2>3. QED
      BY <1>8, <2>1, <2>2 DEF AcceptIsPending
  <1>10. \A d \in Conn : ~beingAccepted(d)'
    <2>1. q' # <<>> => 1 \in 1 .. Len(q') /\ Head(q') = q'[1]
      BY <1>8, QueueFacts
    <2>2. QED
      BY <1>8, <2>1 DEF beingAccepted, IsHead
  <1>11. NewIsIdle'
    BY <1>10 DEF NewIsIdle
  <1>12. OpenSocketIsOwned'
    <2> SUFFICES ASSUME NEW d \in Conn, sock[d] = "open"
                 PROVE  \/ Holds(connections', d)
                        \/ Holds(connectionQueue', Blk("stop", d, 0))
      BY <1>1 DEF OpenSocketIsOwned
    <2>1. /\ Holds(connections', c)
          /\ Holds(connections, d) => Holds(connections', d)
      BY <1>1, HoldsAppend DEF TypeOK
    <2>2. beingAccepted(d) => d = c
      BY <1>1 DEF beingAccepted, IsHead
    <2>3. QED
      BY <1>7, <2>1, <2>2 DEF OpenSocketIsOwned
  <1>13. QED
    BY <1>7, <1>9, <1>11, <1>12

(* stopServer: every connection of the array gets a stop block. *)
LEMMA StopServerIInv ==
  ASSUME IInv, TypeOK', stopServer
  PROVE  IInv'
  <1> USE DEF IInv
  <1> DEFINE q == serverQueue
             r == connectionQueue
             stops == [i \in 1 .. Len(connections) |-> Blk("stop", connections[i], 0)]
  <1>1. /\ UNCHANGED <<sock, requests, reading, delivered, taken, writing, answered,
                       mainQueue, dispatched>>
        /\ IsHead(q, "stop", NoConn) /\ q' = Tail(q) /\ r' = r \o stops
        /\ connections' = <<>> /\ mainBlock' = "stopped"
    BY DEF stopServer, protocolVars
  <1>2. /\ q[1].op = "stop" /\ 1 \in 1 .. Len(q) /\ q' \in Seq(ServerBlock)
        /\ \A i \in 1 .. Len(q') : i + 1 \in 1 .. Len(q) /\ q'[i] = q[i + 1]
        /\ \A i \in 1 .. Len(q') : q'[i].conn # NoConn /\ q'[i].op \notin {"attach", "add"}
    BY <1>1, ServerHeadFacts
  <1>3. mainBlock = "stopping" /\ ~InHandler /\ ~InHandler'
    BY <1>1, <1>2 DEF AcceptIsPending, InHandler
  <1>4. /\ Len(connections) \in Nat
        /\ \A i \in 1 .. Len(connections) : connections[i] \in Conn
    BY QueueFacts DEF TypeOK
  <1>5. /\ stops \in Seq(ConnectionBlock) /\ Len(stops) = Len(connections)
        /\ \A i \in 1 .. Len(connections) : stops[i] = Blk("stop", connections[i], 0)
    <2>1. stops \in [1 .. Len(connections) -> ConnectionBlock]
      BY <1>4, BlockType
    <2>2. QED
      BY <1>4, <2>1, FunctionIsSeq
  <1> HIDE DEF stops
  <1>6. /\ Len(r) \in Nat /\ Len(r') = Len(r) + Len(connections)
        /\ \A i \in 1 .. Len(r) : r'[i] = r[i]
        /\ \A i \in 1 .. Len(connections) :
              r'[Len(r) + i] = Blk("stop", connections[i], 0)
    <2>1. r \in Seq(ConnectionBlock)
      BY DEF TypeOK
    <2>2. /\ Len(r \o stops) = Len(r) + Len(stops)
          /\ \A i \in 1 .. Len(r) + Len(stops) :
                (r \o stops)[i] = IF i <= Len(r) THEN r[i] ELSE stops[i - Len(r)]
      <3> HIDE DEF r
      <3>1. stops \in Seq(ConnectionBlock)
        BY <1>5
      <3> QED
        BY <2>1, <3>1, ConcatProperties
    <2>3. Len(r) \in Nat
      BY <2>1, QueueFacts
    <2>4. \A i \in 1 .. Len(connections) : (Len(r) + i) - Len(r) = i
      BY <2>3
    <2>5. QED
      BY <1>1, <1>4, <1>5, <2>2, <2>3, <2>4
  <1>7. \A i \in 1 .. Len(r') :
           \/ i \in 1 .. Len(r) /\ r'[i] = r[i]
           \/ i \notin 1 .. Len(r) /\ r'[i].op = "stop" /\ r'[i].conn \in Conn
    <2> SUFFICES ASSUME NEW i \in 1 .. Len(r'), i \notin 1 .. Len(r)
                 PROVE  r'[i].op = "stop" /\ r'[i].conn \in Conn
      BY <1>6
    <2> DEFINE j == i - Len(r)
    <2>1. j \in 1 .. Len(connections) /\ i = Len(r) + j
      BY <1>4, <1>6
    <2>2. r'[i] = Blk("stop", connections[j], 0) /\ connections[j] \in Conn
      BY <1>4, <1>6, <2>1
    <2>3. QED
      BY <2>2 DEF Blk
  <1>8. r # <<>> => r' # <<>> /\ Head(r') = Head(r)
    <2>1. r \in Seq(ConnectionBlock) /\ r' \in Seq(ConnectionBlock)
      BY DEF TypeOK
    <2>2. QED
      BY <1>4, <1>6, <2>1, QueueFacts
  <1>9. OneTurn'
    <2> SUFFICES ASSUME NEW i \in 1 .. Len(r'), NEW j \in 1 .. Len(r'),
                        IsTurn(r'[i]), IsTurn(r'[j]), r'[i].conn = r'[j].conn
                 PROVE  i = j
      BY DEF OneTurn, IsTurn
    <2>1. /\ i \in 1 .. Len(r) /\ r'[i] = r[i]
          /\ j \in 1 .. Len(r) /\ r'[j] = r[j]
      BY <1>7 DEF IsTurn
    <2>2. QED
      BY <2>1 DEF OneTurn
  <1>10. TurnIsCurrent'
    <2> SUFFICES ASSUME NEW i \in 1 .. Len(r')
                 PROVE  BlockIsCurrent(r[i])'
      BY DEF TurnIsCurrent
    <2>1. CASE i \in 1 .. Len(r)
      <3>1. BlockIsCurrent(r[i]) /\ r'[i] = r[i]
        BY <1>6, <2>1 DEF TurnIsCurrent
      <3>2. QED
        BY <1>1, <3>1 DEF BlockIsCurrent, IsTurn
    <2>2. CASE i \notin 1 .. Len(r)
      BY <1>7, <2>2 DEF BlockIsCurrent, IsTurn
    <2>3. QED
      BY <2>1, <2>2
  <1>11. ServedIsTaken'
    <2>1. HeadIsServed' <=> HeadIsServed
      BY <1>1, <1>3 DEF HeadIsServed
    <2>2. QED
      BY <1>1, <1>7, <2>1 DEF ServedIsTaken
  <1>12. SocketIsCurrent'
    BY <1>1, <1>8 DEF SocketIsCurrent, ExchangeIsCurrent, DebtIsKnown, Idle
  <1>13. AcceptIsPending'
    <2>1. \A i \in 1 .. Len(q') :
             /\ q'[i].op = "accept" => q'[i].conn \in Conn /\ sock'[q'[i].conn] = "accepting"
             /\ q'[i].op # "stop"
      BY <1>1, <1>2 DEF AcceptIsPending
    <2>2. ASSUME NEW i \in 1 .. Len(q'), NEW j \in 1 .. Len(q'), q'[i].conn = q'[j].conn
          PROVE  i = j
      <3>1. /\ i + 1 \in 1 .. Len(q) /\ j + 1 \in 1 .. Len(q)
            /\ q[i + 1].conn = q[j + 1].conn
        BY <1>2, <2>2
      <3>2. i + 1 = j + 1
        BY <3>1 DEF AcceptIsPending
      <3>3. QED
        BY <3>2
    <2>3. QED
      BY <1>2, <2>1, <2>2 DEF AcceptIsPending
  <1>14. NewIsIdle'
    <2>1. q' # <<>> => 1 \in 1 .. Len(q') /\ Head(q') = q'[1]
      BY <1>2, QueueFacts
    <2>2. QED
      BY <1>2, <2>1 DEF NewIsIdle, beingAccepted, IsHead
  <1>15. SyncIsPaired'
    BY <1>1, <1>3, <1>8 DEF SyncIsPaired
  <1>16. HandlerServesTheHead'
    BY <1>1, <1>8 DEF HandlerServesTheHead
  <1>17. OpenSocketIsOwned'
    <2> SUFFICES ASSUME NEW d \in Conn, sock[d] = "open"
                 PROVE  Holds(r', Blk("stop", d, 0))
      BY <1>1 DEF OpenSocketIsOwned
    <2>1. ~beingAccepted(d)
      BY <1>1 DEF beingAccepted, IsHead
    <2>2. CASE Holds(connections, d)
      <3>1. PICK i \in 1 .. Len(connections) : connections[i] = d
        BY <2>2 DEF Holds
      <3>2. Len(r) + i \in 1 .. Len(r') /\ r'[Len(r) + i] = Blk("stop", d, 0)
        BY <1>4, <1>6, <3>1
      <3>3. QED
        BY <3>2 DEF Holds
    <2>3. CASE Holds(r, Blk("stop", d, 0))
      <3>1. PICK i \in 1 .. Len(r) : r[i] = Blk("stop", d, 0)
        BY <2>3 DEF Holds
      <3>2. i \in 1 .. Len(r') /\ r'[i] = Blk("stop", d, 0)
        BY <1>4, <1>6, <3>1
      <3>3. QED
        BY <3>2 DEF Holds
    <2>4. QED
      BY <2>1, <2>2, <2>3 DEF OpenSocketIsOwned
  <1>18. QED
    BY <1>9, <1>10, <1>11, <1>12, <1>13, <1>14, <1>15, <1>16, <1>17

-------------------------------------------------------------------------------
(* Steps of the main queue and of the runner. *)

(* While the main thread does not wait in -stop, serverQueue has no stop. *)
LEMMA NoStopQueued ==
  ASSUME IInv, mainBlock # "stopping"
  PROVE  \A i \in 1 .. Len(serverQueue) : /\ serverQueue[i].op \in {"accept", "attach", "add"}
                                          /\ serverQueue[i].conn \in Conn
  <1> USE DEF IInv
  <1> SUFFICES ASSUME NEW i \in 1 .. Len(serverQueue)
               PROVE  /\ serverQueue[i].op \in {"accept", "attach", "add"}
                      /\ serverQueue[i].conn \in Conn
    OBVIOUS
  <1>1. serverQueue[i].op \in {"accept", "attach", "add", "stop"}
    <2>1. serverQueue[i] \in ServerBlock
      BY QueueFacts DEF TypeOK
    <2>2. QED
      BY <2>1 DEF ServerBlock, Block
  <1>2. QED
    BY <1>1 DEF AcceptIsPending

(* What depends on the main queue only through the head of connectionQueue. *)
LEMMA MainStepKeeps ==
  ASSUME IInv,
         UNCHANGED <<connections, sock, requests, reading, delivered, taken, writing,
                     answered, serverQueue, connectionQueue>>,
         mainBlock # "stopping"
  PROVE  /\ OneTurn' /\ TurnIsCurrent' /\ SocketIsCurrent' /\ AcceptIsPending'
         /\ NewIsIdle' /\ OpenSocketIsOwned'
  <1> USE DEF IInv
  <1>1. OneTurn' /\ TurnIsCurrent'
    BY DEF OneTurn, TurnIsCurrent, BlockIsCurrent, IsTurn
  <1>2. SocketIsCurrent'
    BY DEF SocketIsCurrent, ExchangeIsCurrent, DebtIsKnown, Idle
  <1>3. AcceptIsPending'
    BY NoStopQueued DEF AcceptIsPending
  <1>4. NewIsIdle' /\ OpenSocketIsOwned'
    BY DEF NewIsIdle, OpenSocketIsOwned, beingAccepted, IsHead, HasNoTurn, Idle, IsTurn
  <1>5. QED
    BY <1>1, <1>2, <1>3, <1>4

(* handleRoute: the request at the head of connectionQueue is taken up. *)
LEMMA HandleRouteIInv ==
  ASSUME IInv, TypeOK', NEW c \in Conn, handleRoute(c)
  PROVE  IInv'
  <1> USE DEF IInv
  <1> DEFINE q == connectionQueue
  <1>1. /\ UNCHANGED <<connections, sock, requests, reading, delivered, writing, answered,
                       serverQueue, connectionQueue, mainQueue, dispatched>>
        /\ mainBlock = "none" /\ IsHead(mainQueue, "route", c)
        /\ taken' = [taken EXCEPT ![c] = Head(mainQueue).n]
        /\ mainBlock' \in {"runSync", "handler"}
    BY DEF handleRoute
  <1>2. 1 \in 1 .. Len(mainQueue) /\ Head(mainQueue) = mainQueue[1]
    BY <1>1, QueueFacts DEF IsHead, TypeOK
  <1>3. /\ dispatched = "waiting" /\ q # <<>>
        /\ Head(q) = Blk("read", c, Head(mainQueue).n)
    BY <1>1, <1>2 DEF HandlerServesTheHead, IsHead
  <1> PICK k \in Nat : k = Head(mainQueue).n
    BY <1>2, QueueFacts, BlockFields DEF TypeOK
  <1>4. /\ Head(q) = Blk("read", c, k) /\ IsHead(q, "read", c)
        /\ q[1].op = "read" /\ q[1].conn = c /\ q[1].n = k /\ 1 \in 1 .. Len(q)
    <2>1. Head(q) = Blk("read", c, k)
      BY <1>3
    <2>2. IsHead(q, "read", c) /\ Head(q).n = k
      BY <1>3, <2>1 DEF Blk, IsHead
    <2>3. Head(q) = q[1] /\ 1 \in 1 .. Len(q)
      BY <1>3, QueueFacts DEF TypeOK
    <2>4. QED
      BY <2>1, <2>2, <2>3 DEF IsHead
  <1>5. ~HeadIsServed /\ HeadIsServed'
    BY <1>1, <1>3 DEF HeadIsServed, InHandler
  <1>6. taken[c] = k - 1
    BY <1>4, <1>5 DEF ServedIsTaken
  <1>7. ~beingAccepted(c) /\ BlockIsCurrent(q[1])
    BY <1>4, HeadFacts
  <1>8. /\ ~reading[c] /\ writing[c] = 0 /\ sock[c] \in {"open", "closed"}
        /\ delivered[c] = k /\ answered[c] = k - 1
    <2>1. k = answered[c] + 1 /\ answered[c] \in Nat
      BY <1>4, <1>7 DEF BlockIsCurrent, TypeOK
    <2>2. QED
      BY <1>4, <1>7, <2>1 DEF BlockIsCurrent, IsTurn
  <1>9. taken'[c] = k /\ \A d \in Conn \ {c} : taken'[d] = taken[d]
    BY <1>1 DEF TypeOK
  <1>10. ASSUME NEW i \in 1 .. Len(q), i # 1
         PROVE  q[i].conn = c => ~IsTurn(q[i])
    <2>1. IsTurn(q[1])
      BY <1>4 DEF IsTurn
    <2>2. QED
      BY <1>4, <1>10, <2>1 DEF OneTurn
  <1>11. OneTurn'
    BY <1>1 DEF OneTurn, IsTurn
  <1>12. TurnIsCurrent'
    <2> SUFFICES ASSUME NEW i \in 1 .. Len(q)
                 PROVE  BlockIsCurrent(q[i])'
      BY <1>1 DEF TurnIsCurrent
    <2>1. BlockIsCurrent(q[i])
      BY DEF TurnIsCurrent
    <2>2. CASE i = 1
      BY <1>1, <1>4, <2>1, <2>2 DEF BlockIsCurrent, IsTurn
    <2>3. CASE i # 1
      <3>1. q[i].conn = c => ~IsTurn(q[i])
        BY <1>10, <2>3
      <3>2. QED
        BY <1>1, <1>9, <2>1, <3>1 DEF BlockIsCurrent, IsTurn
    <2>4. QED
      BY <2>2, <2>3
  <1>13. ServedIsTaken'
    <2> SUFFICES ASSUME NEW i \in 1 .. Len(q), q[i].op = "read"
                 PROVE  taken'[q[i].conn] = IF i = 1 THEN q[i].n ELSE q[i].n - 1
      BY <1>1, <1>5 DEF ServedIsTaken
    <2>1. CASE i = 1
      BY <1>4, <1>9, <2>1
    <2>2. CASE i # 1
      <3>1. q[i].conn # c /\ q[i].conn \in Conn
        BY <1>10, <2>2 DEF IsTurn, TurnIsCurrent, BlockIsCurrent
      <3>2. taken[q[i].conn] = q[i].n - 1
        BY <2>2 DEF ServedIsTaken
      <3>3. QED
        BY <1>9, <2>2, <3>1, <3>2
    <2>3. QED
      BY <2>1, <2>2
  <1>14. SocketIsCurrent'
    <2> SUFFICES ASSUME NEW d \in Conn PROVE ExchangeIsCurrent(d)' /\ DebtIsKnown(d)'
      BY DEF SocketIsCurrent
    <2>1. CASE d = c
      <3>1. /\ ~reading'[c] /\ writing'[c] = 0 /\ sock'[c] \in {"open", "closed"}
            /\ delivered'[c] = k /\ answered'[c] = k - 1 /\ taken'[c] = k
        BY <1>1, <1>8, <1>9
      <3>2. ExchangeIsCurrent(c)'
        BY <3>1 DEF ExchangeIsCurrent
      <3>3. DebtIsKnown(c)'
        BY <1>1, <1>3, <1>4, <1>9 DEF DebtIsKnown
      <3>4. QED
        BY <2>1, <3>2, <3>3
    <2>2. CASE d # c
      <3>1. ExchangeIsCurrent(d) /\ DebtIsKnown(d)
        BY DEF SocketIsCurrent
      <3>2. QED
        BY <1>1, <1>9, <2>2, <3>1 DEF ExchangeIsCurrent, DebtIsKnown, Idle
    <2>3. QED
      BY <2>1, <2>2
  <1>15. AcceptIsPending'
    BY <1>1, NoStopQueued DEF AcceptIsPending
  <1>16. NewIsIdle'
    <2> SUFFICES ASSUME NEW d \in Conn, beingAccepted(d)
                 PROVE  HasNoTurn(d)'
      BY <1>1 DEF NewIsIdle, beingAccepted, IsHead
    <2>1. HasNoTurn(d) /\ d # c
      BY <1>7 DEF NewIsIdle
    <2>2. QED
      BY <1>1, <1>9, <2>1 DEF HasNoTurn, Idle, IsTurn
  <1>17. SyncIsPaired'
    BY <1>1 DEF SyncIsPaired, InHandler, IsHead
  <1>18. HandlerServesTheHead' /\ OpenSocketIsOwned'
    BY <1>1 DEF HandlerServesTheHead, OpenSocketIsOwned, beingAccepted, IsHead
  <1>19. QED
    BY <1>11, <1>12, <1>13, <1>14, <1>15, <1>16, <1>17, <1>18

(* returnFromRoute: the handler's block leaves the main queue. *)
LEMMA ReturnFromRouteIInv ==
  ASSUME IInv, TypeOK', NEW c \in Conn, returnFromRoute(c)
  PROVE  IInv'
  <1> USE DEF IInv
  <1> DEFINE q == mainQueue
  <1>1. /\ UNCHANGED <<connections, sock, requests, reading, delivered, taken, writing,
                       answered, serverQueue, connectionQueue>>
        /\ mainBlock = "handler" /\ IsHead(q, "route", c)
        /\ mainBlock' = "none" /\ q' = Tail(q) /\ dispatched' = "returned"
    BY DEF returnFromRoute, protocolVars
  <1>2. /\ 1 \in 1 .. Len(q) /\ q[1].op = "route" /\ Len(q') = Len(q) - 1 /\ Len(q) \in Nat
        /\ \A i \in 1 .. Len(q') : i + 1 \in 1 .. Len(q) /\ q'[i] = q[i + 1]
    BY <1>1, PopProperties, QueueFacts DEF IsHead, TypeOK
  <1>3. \A i \in 1 .. Len(q') : q'[i].op # "route"
    <2> SUFFICES ASSUME NEW i \in 1 .. Len(q'), q'[i].op = "route"
                 PROVE  FALSE
      OBVIOUS
    <2>1. i + 1 \in 1 .. Len(q) /\ q[i + 1].op = "route"
      BY <1>2
    <2>2. i + 1 = 1
      BY <1>2, <2>1 DEF HandlerServesTheHead
    <2>3. QED
      BY <2>2
  <1>4. dispatched = "waiting"
    BY <1>2 DEF HandlerServesTheHead
  <1>5. HandlerServesTheHead'
    BY <1>3 DEF HandlerServesTheHead
  <1>6. SyncIsPaired'
    <2>1. \A i \in 1 .. Len(q') : q'[i].op = "stop" => q'[i].conn = NoConn
      BY <1>2 DEF SyncIsPaired
    <2>2. QED
      BY <1>1, <1>4, <2>1 DEF SyncIsPaired, InHandler
  <1>7. ServedIsTaken'
    <2>1. HeadIsServed /\ HeadIsServed'
      BY <1>1 DEF HeadIsServed, InHandler
    <2>2. QED
      BY <1>1, <2>1 DEF ServedIsTaken
  <1>8. QED
    BY <1>1, <1>5, <1>6, <1>7, MainStepKeeps

(* setToTrueWhenDone: the handler goes on. *)
LEMMA SetToTrueWhenDoneIInv ==
  ASSUME IInv, TypeOK', setToTrueWhenDone
  PROVE  IInv'
  <1> USE DEF IInv
  <1>1. /\ UNCHANGED <<connections, sock, requests, reading, delivered, taken, writing,
                       answered, serverQueue, connectionQueue, mainQueue, dispatched>>
        /\ mainBlock = "runSync" /\ mainBlock' = "handler"
    BY DEF setToTrueWhenDone, protocolVars
  <1>2. ServedIsTaken' /\ SyncIsPaired' /\ HandlerServesTheHead'
    BY <1>1 DEF ServedIsTaken, SyncIsPaired, HandlerServesTheHead, HeadIsServed, InHandler
  <1>3. QED
    BY <1>1, <1>2, MainStepKeeps

(* shutdownDelay: the block of -stop is put at the end of the main queue. *)
LEMMA ShutdownDelayIInv ==
  ASSUME IInv, TypeOK', shutdownDelay
  PROVE  IInv'
  <1> USE DEF IInv
  <1> DEFINE q == mainQueue
             b == Blk("stop", NoConn, 0)
  <1>1. /\ UNCHANGED <<connections, sock, requests, reading, delivered, taken, writing,
                       answered, serverQueue, connectionQueue, dispatched, mainBlock>>
        /\ q' = Append(q, b)
    BY DEF shutdownDelay, protocolVars
  <1>2. b \in MainBlock /\ b.op = "stop" /\ b.conn = NoConn
    BY DEF Blk, MainBlock, Block
  <1> HIDE DEF b
  <1>3. /\ Len(q) \in Nat /\ Len(q') = Len(q) + 1
        /\ \A i \in 1 .. Len(q) : q'[i] = q[i]
        /\ q'[Len(q) + 1] = b
    BY <1>1, <1>2, AppendProperties, QueueFacts DEF TypeOK
  <1>4. q # <<>> => q' # <<>> /\ Head(q') = Head(q)
    <2>1. q \in Seq(MainBlock)
      BY DEF TypeOK
    <2>2. QED
      BY <1>1, <1>2, <2>1, HeadStays
  <1>5. \A i \in 1 .. Len(q') : q'[i].op = "route" => i \in 1 .. Len(q) /\ q'[i] = q[i]
    BY <1>2, <1>3
  <1>6. HandlerServesTheHead'
    BY <1>1, <1>5 DEF HandlerServesTheHead
  <1>7. SyncIsPaired'
    <2>1. \A i \in 1 .. Len(q') : q'[i].op = "stop" => q'[i].conn = NoConn
      BY <1>2, <1>3 DEF SyncIsPaired
    <2>2. QED
      BY <1>1, <1>4, <2>1 DEF SyncIsPaired, InHandler
  <1>8. ServedIsTaken'
    BY <1>1 DEF ServedIsTaken, HeadIsServed, InHandler
  <1>9. OneTurn' /\ TurnIsCurrent'
    BY <1>1 DEF OneTurn, TurnIsCurrent, BlockIsCurrent, IsTurn
  <1>10. SocketIsCurrent' /\ AcceptIsPending'
    BY <1>1 DEF SocketIsCurrent, ExchangeIsCurrent, DebtIsKnown, Idle, AcceptIsPending
  <1>11. NewIsIdle' /\ OpenSocketIsOwned'
    BY <1>1 DEF NewIsIdle, OpenSocketIsOwned, beingAccepted, IsHead, HasNoTurn, Idle, IsTurn
  <1>12. QED
    BY <1>6, <1>7, <1>8, <1>9, <1>10, <1>11

(* stop: the main thread waits for serverQueue, or goes on from there. *)
LEMMA StopIInv ==
  ASSUME IInv, TypeOK', stop
  PROVE  IInv'
  <1> USE DEF IInv
  <1> DEFINE q == serverQueue
             b == Blk("stop", NoConn, 0)
  <1>1. /\ UNCHANGED <<connections, sock, requests, reading, delivered, taken, writing,
                       answered, connectionQueue, dispatched>>
        /\ IsHead(mainQueue, "stop", NoConn)
    BY DEF stop, protocolVars
  <1>2. CASE mainBlock = "none"
    <2>1. mainBlock' = "stopping" /\ q' = Append(q, b) /\ mainQueue' = mainQueue
      BY <1>2 DEF stop
    <2>2. b \in ServerBlock /\ b.op = "stop" /\ b.conn = NoConn
      BY DEF Blk, ServerBlock, Block
    <2> HIDE DEF b
    <2>3. /\ Len(q) \in Nat /\ Len(q') = Len(q) + 1
          /\ \A i \in 1 .. Len(q) : q'[i] = q[i]
          /\ q'[Len(q) + 1] = b
      BY <2>1, <2>2, AppendProperties, QueueFacts DEF TypeOK
    <2>4. \A d \in Conn : beingAccepted(d)' <=> beingAccepted(d)
      <3>1. CASE q = <<>>
        <4>1. q' # <<>> /\ Head(q') = b
          BY <2>1, <2>2, <2>3, <3>1, QueueFacts DEF TypeOK
        <4>2. QED
          BY <2>2, <3>1, <4>1 DEF beingAccepted, IsHead
      <3>2. CASE q # <<>>
        <4>1. q \in Seq(ServerBlock)
          BY DEF TypeOK
        <4>2. q' # <<>> /\ Head(q') = Head(q)
          BY <2>1, <2>2, <3>2, <4>1, HeadStays
        <4>3. QED
          BY <3>2, <4>2 DEF beingAccepted, IsHead
      <3>3. QED
        BY <3>1, <3>2
    <2>5. \A i \in 1 .. Len(q) : q[i].op \in {"accept", "attach", "add"} /\ q[i].conn \in Conn
      BY <1>2, NoStopQueued
    <2>6. AcceptIsPending'
      <3>1. \A i \in 1 .. Len(q') :
               \/ i \in 1 .. Len(q) /\ q'[i] = q[i]
               \/ i = Len(q) + 1 /\ q'[i] = b
        BY <2>3
      <3>2. \A i \in 1 .. Len(q) : q[i].conn # NoConn
        BY <2>5, ServerAssumption
      <3>3. QED
        BY <1>1, <2>1, <2>2, <2>5, <3>1, <3>2 DEF AcceptIsPending
    <2>7. OneTurn' /\ TurnIsCurrent'
      BY <1>1 DEF OneTurn, TurnIsCurrent, BlockIsCurrent, IsTurn
    <2>8. SocketIsCurrent' /\ HandlerServesTheHead'
      BY <1>1, <2>1 DEF SocketIsCurrent, ExchangeIsCurrent, DebtIsKnown, Idle,
                        HandlerServesTheHead
    <2>9. NewIsIdle' /\ OpenSocketIsOwned'
      BY <1>1, <2>4 DEF NewIsIdle, OpenSocketIsOwned, HasNoTurn, Idle, IsTurn
    <2>10. ServedIsTaken' /\ SyncIsPaired'
      BY <1>1, <1>2, <2>1 DEF ServedIsTaken, SyncIsPaired, HeadIsServed, InHandler, IsHead
    <2>11. QED
      BY <2>6, <2>7, <2>8, <2>9, <2>10
  <1>3. CASE mainBlock # "none"
    <2>1. /\ mainBlock = "stopped" /\ mainBlock' = "none"
          /\ mainQueue' = Tail(mainQueue) /\ q' = q
      BY <1>3 DEF stop
    <2>2. /\ 1 \in 1 .. Len(mainQueue) /\ mainQueue[1].op = "stop"
          /\ Len(mainQueue') = Len(mainQueue) - 1 /\ Len(mainQueue) \in Nat
          /\ \A i \in 1 .. Len(mainQueue') : /\ i + 1 \in 1 .. Len(mainQueue)
                                             /\ mainQueue'[i] = mainQueue[i + 1]
      BY <1>1, <2>1, PopProperties, QueueFacts DEF IsHead, TypeOK
    <2>3. HandlerServesTheHead'
      <3> SUFFICES ASSUME NEW i \in 1 .. Len(mainQueue'), mainQueue'[i].op = "route"
                   PROVE  /\ dispatched = "waiting" /\ connectionQueue # <<>>
                          /\ Head(connectionQueue)
                                = Blk("read", mainQueue'[i].conn, mainQueue'[i].n)
                          /\ \A j \in 1 .. Len(mainQueue') :
                                mainQueue'[j].op = "route" => j = i
        BY <1>1 DEF HandlerServesTheHead
      <3>1. /\ i + 1 \in 1 .. Len(mainQueue) /\ mainQueue'[i] = mainQueue[i + 1]
            /\ mainQueue[i + 1].op = "route"
        BY <2>2
      <3>2. ASSUME NEW j \in 1 .. Len(mainQueue'), mainQueue'[j].op = "route"
            PROVE  j = i
        <4>1. j + 1 \in 1 .. Len(mainQueue) /\ mainQueue[j + 1].op = "route"
          BY <2>2, <3>2
        <4>2. j + 1 = i + 1
          BY <3>1, <4>1 DEF HandlerServesTheHead
        <4>3. QED
          BY <4>2
      <3>3. QED
        BY <3>1, <3>2 DEF HandlerServesTheHead
    <2>4. SyncIsPaired'
      <3>1. \A i \in 1 .. Len(mainQueue') :
               mainQueue'[i].op = "stop" => mainQueue'[i].conn = NoConn
        BY <2>2 DEF SyncIsPaired
      <3>2. QED
        BY <1>1, <2>1, <3>1 DEF SyncIsPaired, InHandler
    <2>5. ServedIsTaken'
      <3>1. HeadIsServed' <=> HeadIsServed
        BY <1>1, <2>1 DEF HeadIsServed, InHandler
      <3>2. QED
        BY <1>1, <3>1 DEF ServedIsTaken
    <2>6. QED
      BY <1>1, <2>1, <2>3, <2>4, <2>5, MainStepKeeps
  <1>4. QED
    BY <1>2, <1>3

(* The steps of the runner, and the stutter, change nothing the invariant is about. *)
LEMMA RunnerIInv ==
  ASSUME IInv, TypeOK',
         UNCHANGED <<connections, sock, requests, reading, delivered, taken, writing,
                     answered, serverQueue, connectionQueue, mainQueue, dispatched,
                     mainBlock>>
  PROVE  IInv'
  <1> USE DEF IInv
  <1>1. OneTurn' /\ TurnIsCurrent'
    BY DEF OneTurn, TurnIsCurrent, BlockIsCurrent, IsTurn
  <1>2. ServedIsTaken' /\ SyncIsPaired' /\ HandlerServesTheHead'
    BY DEF ServedIsTaken, SyncIsPaired, HandlerServesTheHead, HeadIsServed, InHandler
  <1>3. SocketIsCurrent' /\ AcceptIsPending'
    BY DEF SocketIsCurrent, ExchangeIsCurrent, DebtIsKnown, Idle, AcceptIsPending
  <1>4. NewIsIdle' /\ OpenSocketIsOwned'
    BY DEF NewIsIdle, OpenSocketIsOwned, beingAccepted, IsHead, HasNoTurn, Idle, IsTurn
  <1>5. QED
    BY <1>1, <1>2, <1>3, <1>4

-------------------------------------------------------------------------------
(* The inductive invariant is kept by every step. *)
LEMMA NextIInv == IInv /\ [Next]_vars => IInv'
  <1> SUFFICES ASSUME IInv, [Next]_vars PROVE IInv'
    OBVIOUS
  <1>1. TypeOK'
    BY NextTypeOK DEF IInv
  <1>2. CASE start \/ RunnerStep \/ UNCHANGED vars
    BY <1>1, <1>2, RunnerIInv
       DEF start, RunnerStep, leaveRunLoop, finishTest, vars, protocolVars
  <1>3. CASE stopServer
    BY <1>1, <1>3, StopServerIInv
  <1>4. CASE stop
    BY <1>1, <1>4, StopIInv
  <1>5. CASE setToTrueWhenDone
    BY <1>1, <1>5, SetToTrueWhenDoneIInv
  <1>6. CASE shutdownDelay
    BY <1>1, <1>6, ShutdownDelayIInv
  <1>7. ASSUME NEW c \in Conn, ClientStep(c) PROVE IInv'
    BY <1>1, <1>7, ConnectIInv, HangUpIInv, SendIInv DEF ClientStep
  <1>8. ASSUME NEW c \in Conn, SocketStep(c) PROVE IInv'
    BY <1>1, <1>8, CompleteCurrentReadIInv, CompleteCurrentWriteIInv DEF SocketStep
  <1>9. ASSUME NEW c \in Conn, ServerStep(c) PROVE IInv'
    BY <1>1, <1>9, DoAcceptIInv, InitWithAsyncSocketIInv, DidAcceptNewSocketIInv DEF ServerStep
  <1>10. ASSUME NEW c \in Conn, ConnectionStep(c) PROVE IInv'
    BY <1>1, <1>10, StartConnectionIInv, StopConnectionIInv, DidReadDataIInv,
       ReplyToHTTPRequestIInv, DidWriteDataIInv, SocketDidDisconnectIInv DEF ConnectionStep
  <1>11. ASSUME NEW c \in Conn, MainStep(c) PROVE IInv'
    BY <1>1, <1>11, HandleRouteIInv, ReturnFromRouteIInv DEF MainStep
  <1>12. QED
    BY <1>2, <1>3, <1>4, <1>5, <1>6, <1>7, <1>8, <1>9, <1>10, <1>11 DEF Next

(* The invariant behind the properties of the server holds in every state, *)
(* for any connections, any requests and any number of them.               *)
THEOREM InvariantHolds == Spec => []IInv
  BY InitIInv, NextIInv, PTL DEF Spec

(* Every variable keeps its type: no step of the server, its sockets or the *)
(* handlers leaves the states the module speaks of (HTTPServer.m:404-678).  *)
THEOREM TypeCorrect == Spec => []TypeOK
  BY InitTypeOK, NextTypeOK, PTL DEF Spec

(* A connection works its requests off in order and one at a time, because  *)
(* it reads again only when its response is written (HTTPConnection.m:2471).*)
THEOREM RequestsAreServedInOrder == Spec => []PipelineOrder
  <1>1. IInv => PipelineOrder
    <2> SUFFICES ASSUME IInv, NEW c \in Conn
                 PROVE  /\ answered[c] <= taken[c]
                        /\ taken[c] <= delivered[c]
                        /\ delivered[c] <= answered[c] + 1
                        /\ writing[c] # 0 => /\ writing[c] = answered[c] + 1
                                             /\ taken[c] = writing[c]
      BY DEF PipelineOrder
    <2>1. QED
      BY DEF IInv, SocketIsCurrent, ExchangeIsCurrent
  <1>2. QED
    BY <1>1, InvariantHolds, PTL

(* A handler is on the main queue only while the connectionQueue waits for it *)
(* with the block of its request (RoutingHTTPServer.m:215).                   *)
THEOREM HandlersServeTheHead == Spec => []HandlerServesTheHead
  <1>1. IInv => HandlerServesTheHead
    BY DEF IInv
  <1>2. QED
    BY <1>1, InvariantHolds, PTL

(* No open socket is ever lost to the server (HTTPServer.m:452-461,547-556,  *)
(* 664-678).                                                                 *)
THEOREM OpenSocketsAreOwned == Spec => []OpenSocketIsOwned
  <1>1. IInv => OpenSocketIsOwned
    BY DEF IInv
  <1>2. QED
    BY <1>1, InvariantHolds, PTL

-------------------------------------------------------------------------------
(* What connectionQueue waits for when its thread is in dispatch_sync. *)
LEMMA WaitingFacts ==
  ASSUME IInv, SyncIsAnswerable, dispatched = "waiting"
  PROVE  /\ connectionQueue \in Seq(ConnectionBlock)
         /\ mainQueue \in Seq(MainBlock)
         /\ connectionQueue # <<>>
         /\ Head(connectionQueue).op = "read"
         /\ [Head(connectionQueue) EXCEPT !.op = "route"].op = "route"
         /\ Holds(mainQueue, [Head(connectionQueue) EXCEPT !.op = "route"])
  <1>1. /\ connectionQueue \in Seq(ConnectionBlock)
        /\ mainQueue \in Seq(MainBlock)
        /\ connectionQueue # <<>>
        /\ Head(connectionQueue).op = "read"
    BY DEF IInv, TypeOK, SyncIsPaired
  <1>2. Head(connectionQueue) \in ConnectionBlock
    BY <1>1, PopProperties
  <1>3. [Head(connectionQueue) EXCEPT !.op = "route"].op = "route"
    BY <1>2 DEF ConnectionBlock, Block
  <1>4. QED
    BY <1>1, <1>3 DEF SyncIsAnswerable

(* A wait goes on while the head of connectionQueue and the blocks of         *)
(* requests on the main queue stay.                                          *)
LEMMA WaitGoesOn ==
  ASSUME IInv, SyncIsAnswerable, dispatched' = dispatched,
         dispatched = "waiting" =>
             /\ Head(connectionQueue') = Head(connectionQueue)
             /\ \A b : b.op = "route" /\ Holds(mainQueue, b) => Holds(mainQueue', b)
  PROVE  dispatched' = "waiting" =>
             Holds(mainQueue', [Head(connectionQueue') EXCEPT !.op = "route"])
  BY WaitingFacts

(* The block of a dispatch_sync to the main queue is queued until it is run. *)
LEMMA WaitIsAnswerable ==
  ASSUME IInv, SyncIsAnswerable, Next
  PROVE  dispatched' = "waiting" =>
             Holds(mainQueue', [Head(connectionQueue') EXCEPT !.op = "route"])
  <1> DEFINE Goal == dispatched' = "waiting" =>
                        Holds(mainQueue', [Head(connectionQueue') EXCEPT !.op = "route"])
  <1>1. CASE start \/ RunnerStep \/ setToTrueWhenDone
    BY <1>1, WaitGoesOn
       DEF start, RunnerStep, leaveRunLoop, finishTest, setToTrueWhenDone
  <1>2. CASE stopServer
    <2> DEFINE stops == [i \in 1 .. Len(connections) |-> Blk("stop", connections[i], 0)]
    <2>1. stops \in Seq(ConnectionBlock)
      <3>1. connections \in Seq(Conn)
        BY DEF IInv, TypeOK
      <3>2. Len(connections) \in Nat /\ \A i \in 1 .. Len(connections) : connections[i] \in Conn
        BY <3>1, QueueFacts
      <3>3. stops \in [1 .. Len(connections) -> ConnectionBlock]
        BY <3>2, BlockType
      <3>4. QED
        BY <3>2, <3>3, FunctionIsSeq
    <2>2. connectionQueue' = connectionQueue \o stops
      BY <1>2 DEF stopServer
    <2>3. dispatched = "waiting" => Head(connectionQueue') = Head(connectionQueue)
      <3> HIDE DEF stops
      <3> SUFFICES ASSUME dispatched = "waiting"
                   PROVE  Head(connectionQueue') = Head(connectionQueue)
        OBVIOUS
      <3>1. connectionQueue \in Seq(ConnectionBlock) /\ connectionQueue # <<>>
        BY WaitingFacts
      <3>2. Len(connectionQueue) \in Nat \ {0}
        BY <3>1, PopProperties
      <3>3. /\ connectionQueue' \in Seq(ConnectionBlock)
            /\ Len(connectionQueue') = Len(connectionQueue) + Len(stops)
            /\ connectionQueue'[1] = connectionQueue[1]
        BY <2>1, <2>2, <3>1, <3>2, ConcatProperties
      <3>4. Len(stops) \in Nat
        BY <2>1, LenProperties
      <3>5. connectionQueue' # <<>>
        BY <3>2, <3>3, <3>4, QueueFacts
      <3>6. QED
        BY <3>1, <3>3, <3>5, PopProperties
    <2>4. QED
      BY <1>2, <2>3, WaitGoesOn DEF stopServer
  <1>3. CASE stop
    <2>1. \A b : b.op = "route" /\ Holds(mainQueue, b) => Holds(Tail(mainQueue), b)
      BY <1>3, HoldsPop DEF stop, IsHead, IInv, TypeOK
    <2>2. QED
      BY <1>3, <2>1, WaitGoesOn DEF stop
  <1>4. CASE shutdownDelay
    <2>1. \A b : Holds(mainQueue, b) => Holds(mainQueue', b)
      BY <1>4, HoldsAppend, BlockType DEF shutdownDelay, IInv, TypeOK
    <2>2. QED
      BY <1>4, <2>1, WaitGoesOn DEF shutdownDelay
  <1>5. ASSUME NEW c \in Conn, ClientStep(c) \/ SocketStep(c) \/ ServerStep(c) PROVE Goal
    <2>1. \/ connectionQueue' = connectionQueue
          \/ \E b \in ConnectionBlock : connectionQueue' = Append(connectionQueue, b)
      <3>1. delivered[c] + 1 \in Nat /\ writing[c] \in Nat
        BY DEF IInv, TypeOK
      <3>2. QED
        BY <1>5, <3>1, BlockType
        DEF ClientStep, SocketStep, ServerStep, connect, hangUp, send, closeWithError,
            completeCurrentRead, completeCurrentWrite, doAccept, initWithAsyncSocket,
            didAcceptNewSocket
    <2>2. dispatched = "waiting" => Head(connectionQueue') = Head(connectionQueue)
      BY <2>1, WaitingFacts, HeadStays
    <2>3. UNCHANGED <<dispatched, mainQueue>>
      BY <1>5
      DEF ClientStep, SocketStep, ServerStep, connect, hangUp, send,
          completeCurrentRead, completeCurrentWrite, doAccept, initWithAsyncSocket,
          didAcceptNewSocket
    <2>4. QED
      BY <2>2, <2>3, WaitGoesOn
  <1>6. ASSUME NEW c \in Conn, ConnectionStep(c) PROVE Goal
    <2>1. CASE startConnection(c) \/ stopConnection(c) \/ didWriteData(c) \/ socketDidDisconnect(c)
      BY <2>1, WaitingFacts
      DEF startConnection, stopConnection, didWriteData, socketDidDisconnect, IsHead
    <2>2. CASE didReadData(c)
      <3> DEFINE k == Head(connectionQueue).n
      <3>1. CASE dispatched' = "waiting"
        <4>1. /\ mainQueue' = Append(mainQueue, Blk("route", c, k))
              /\ connectionQueue' = connectionQueue
              /\ Head(connectionQueue).conn = c
          BY <2>2, <3>1 DEF didReadData, IsHead
        <4>2. connectionQueue \in Seq(ConnectionBlock) /\ connectionQueue # <<>>
          BY <2>2 DEF didReadData, IsHead, IInv, TypeOK
        <4>3. Head(connectionQueue) \in ConnectionBlock
          BY <4>2, PopProperties
        <4>4. /\ k \in Nat
              /\ [Head(connectionQueue) EXCEPT !.op = "route"] = Blk("route", c, k)
          BY <4>1, <4>3 DEF ConnectionBlock, Block, Blk
        <4>5. Holds(mainQueue', Blk("route", c, k))
          BY <4>1, <4>4, HoldsAppend, BlockType DEF IInv, TypeOK
        <4>6. QED
          BY <4>1, <4>4, <4>5
      <3>2. QED
        BY <3>1
    <2>3. CASE replyToHTTPRequest(c)
      BY <2>3 DEF replyToHTTPRequest
    <2>4. QED
      BY <1>6, <2>1, <2>2, <2>3 DEF ConnectionStep
  <1>7. ASSUME NEW c \in Conn, MainStep(c) PROVE Goal
    <2>1. CASE handleRoute(c)
      BY <2>1, WaitGoesOn DEF handleRoute
    <2>2. CASE returnFromRoute(c)
      BY <2>2 DEF returnFromRoute
    <2>3. QED
      BY <1>7, <2>1, <2>2 DEF MainStep
  <1>8. QED
    BY <1>1, <1>2, <1>3, <1>4, <1>5, <1>6, <1>7 DEF Next

(* The block of a dispatch_sync to serverQueue is queued until it is run. *)
LEMMA StopIsAnswerable ==
  ASSUME IInv, SyncIsAnswerable, Next
  PROVE  mainBlock' = "stopping" => Holds(serverQueue', Blk("stop", NoConn, 0))
  <1> DEFINE stopBlock == Blk("stop", NoConn, 0)
             Goal == mainBlock' = "stopping" => Holds(serverQueue', stopBlock)
  <1>1. CASE start \/ RunnerStep \/ setToTrueWhenDone \/ shutdownDelay
    BY <1>1 DEF start, RunnerStep, leaveRunLoop, finishTest, setToTrueWhenDone,
                shutdownDelay, SyncIsAnswerable
  <1>2. CASE stopServer
    BY <1>2 DEF stopServer
  <1>3. CASE stop
    <2>0. serverQueue \in Seq(ServerBlock) /\ stopBlock \in ServerBlock
      BY DEF IInv, TypeOK, Blk, Block, ServerBlock
    <2>1. Holds(Append(serverQueue, stopBlock), stopBlock)
      BY <2>0, HoldsAppend
    <2>2. QED
      BY <1>3, <2>1 DEF stop
  <1>4. ASSUME NEW c \in Conn, ClientStep(c) \/ SocketStep(c) \/ ConnectionStep(c) \/ MainStep(c)
        PROVE  Goal
    <2>1. CASE connect(c)
      <3>1. \A b : Holds(serverQueue, b) => Holds(serverQueue', b)
        BY <2>1, HoldsAppend, BlockType DEF connect, IInv, TypeOK
      <3>2. QED
        BY <2>1, <3>1 DEF connect, SyncIsAnswerable
    <2>2. CASE \/ hangUp(c) \/ \E kind \in Kinds : send(c, kind)
               \/ completeCurrentRead(c) \/ completeCurrentWrite(c)
      BY <2>2 DEF hangUp, send, completeCurrentRead, completeCurrentWrite, SyncIsAnswerable
    <2>3. CASE ConnectionStep(c)
      BY <2>3 DEF ConnectionStep, startConnection, stopConnection, didReadData,
                  replyToHTTPRequest, didWriteData, socketDidDisconnect, SyncIsAnswerable
    <2>4. CASE MainStep(c)
      BY <2>4 DEF MainStep, handleRoute, returnFromRoute
    <2>5. QED
      BY <1>4, <2>1, <2>2, <2>3, <2>4 DEF ClientStep, SocketStep
  <1>5. ASSUME NEW c \in Conn, ServerStep(c) PROVE Goal
    <2> SUFFICES ASSUME mainBlock' = "stopping" PROVE Holds(serverQueue', stopBlock)
      OBVIOUS
    <2>1. /\ serverQueue \in Seq(ServerBlock)
          /\ serverQueue # <<>>
          /\ Head(serverQueue).op # "stop"
          /\ Holds(serverQueue, stopBlock)
      BY <1>5 DEF ServerStep, doAccept, initWithAsyncSocket, didAcceptNewSocket, IsHead,
                  IInv, TypeOK, SyncIsAnswerable
    <2>2. Tail(serverQueue) \in Seq(ServerBlock) /\ Holds(Tail(serverQueue), stopBlock)
      BY <2>1, PopProperties, HoldsPop DEF Blk
    <2>3. ASSUME NEW b \in ServerBlock, serverQueue' = <<b>> \o Tail(serverQueue)
          PROVE  Holds(serverQueue', stopBlock)
      <3>1. PICK i \in 1 .. Len(Tail(serverQueue)) : Tail(serverQueue)[i] = stopBlock
        BY <2>2 DEF Holds
      <3>2. /\ Len(serverQueue') = Len(serverQueue)
            /\ \A j \in 2 .. Len(serverQueue) : serverQueue'[j] = serverQueue[j]
        BY <2>1, <2>3, RewriteHeadProperties
      <3>3. i + 1 \in 2 .. Len(serverQueue) /\ serverQueue[i + 1] = stopBlock
        BY <2>1, <3>1, PopProperties
      <3>4. QED
        BY <3>2, <3>3 DEF Holds
    <2>4. QED
      BY <1>5, <2>2, <2>3, BlockType
      DEF ServerStep, doAccept, initWithAsyncSocket, didAcceptNewSocket
  <1>6. QED
    BY <1>1, <1>2, <1>3, <1>4, <1>5 DEF Next, MainStep

LEMMA NextSyncIsAnswerable ==
  IInv /\ SyncIsAnswerable /\ [Next]_vars => SyncIsAnswerable'
  <1>1. IInv /\ SyncIsAnswerable /\ Next => SyncIsAnswerable'
    BY WaitIsAnswerable, StopIsAnswerable DEF SyncIsAnswerable
  <1>2. SyncIsAnswerable /\ UNCHANGED vars => SyncIsAnswerable'
    BY DEF SyncIsAnswerable, vars
  <1>3. QED
    BY <1>1, <1>2

(* The ends of the wait-for chain: connectionQueue waits for the main queue, *)
(* which waits for serverQueue, which waits for nobody.                      *)
LEMMA SomethingCanRun ==
  ASSUME IInv, SyncIsAnswerable, mainBlock # "runSync",
         connectionQueue # <<>> \/ mainQueue # <<>>
  PROVE  \/ serverQueue # <<>>
         \/ connectionQueue # <<>> /\ dispatched # "waiting"
         \/ MainCanRun
  <1> SUFFICES ASSUME serverQueue = <<>>, connectionQueue = <<>> \/ dispatched = "waiting"
               PROVE  MainCanRun
    OBVIOUS
  <1>1. mainBlock # "stopping"
    <2>1. ~Holds(serverQueue, Blk("stop", NoConn, 0))
      BY EmptySeq DEF Holds
    <2>2. QED
      BY <2>1 DEF SyncIsAnswerable
  <1>2. mainQueue # <<>>
    <2>1. CASE dispatched = "waiting"
      <3>1. PICK i \in 1 .. Len(mainQueue) : TRUE
        BY <2>1, WaitingFacts DEF Holds
      <3>2. QED
        BY <3>1, QueueFacts DEF IInv, TypeOK
    <2>2. QED
      BY <2>1
  <1>3. QED
    BY <1>1, <1>2 DEF MainCanRun, IInv, TypeOK

(* The queues that wait for each other never wait in a ring: while the run    *)
(* loop turns and no handler waits for testmanagerd, something that is queued *)
(* can run, and every dispatch_sync waits for a block that is still queued   *)
(* (RoutingHTTPServer.m:215, CBXCUITestServer.m:116, HTTPServer.m:442).       *)
THEOREM NobodyEverWaitsInVain == Spec => []NobodyWaitsInVain
  <1>1. Init => SyncIsAnswerable
    BY DEF Init, SyncIsAnswerable
  <1>2. Spec => []SyncIsAnswerable
    BY <1>1, NextSyncIsAnswerable, InvariantHolds, PTL DEF Spec
  <1>3. IInv /\ SyncIsAnswerable => NobodyWaitsInVain
    BY SomethingCanRun DEF NobodyWaitsInVain
  <1>4. QED
    BY <1>2, <1>3, InvariantHolds, PTL

-------------------------------------------------------------------------------
(* A connection the server closes owes nothing but the rest of a large response. *)
LEMMA ClosedByTheServer ==
  ASSUME IInv, NEW c \in Conn, sock[c] = "open",
         IsHead(connectionQueue, "stop", c) \/ IsHead(connectionQueue, "wrote", c),
         NEW k \in 1 .. taken[c], requests[c][k] # "tree"
  PROVE  k <= answered[c]
  <1> USE DEF IInv
  <1>1. taken[c] \in Nat /\ answered[c] \in Nat /\ writing[c] \in Nat
    BY DEF TypeOK
  <1>2. taken[c] # answered[c] => writing[c] # 0
    BY DEF SocketIsCurrent, DebtIsKnown, IsHead, Blk
  <1>3. writing[c] # 0 => /\ taken[c] = answered[c] + 1
                          /\ requests[c][taken[c]] = "tree"
    BY DEF SocketIsCurrent, ExchangeIsCurrent
  <1>4. QED
    BY <1>1, <1>2, <1>3

(* A step that closes an open socket is the client's, or its block's. *)
LEMMA ClosingSteps ==
  ASSUME IInv, Next, NEW c \in Conn, sock[c] = "open", sock'[c] = "closed", ~hangUp(c)
  PROVE  IsHead(connectionQueue, "stop", c) \/ IsHead(connectionQueue, "wrote", c)
  <1> USE DEF IInv
  <1>1. CASE start \/ RunnerStep \/ stopServer \/ stop \/ setToTrueWhenDone \/ shutdownDelay
    BY <1>1 DEF start, RunnerStep, leaveRunLoop, finishTest, stopServer, stop,
                setToTrueWhenDone, shutdownDelay
  <1>2. ASSUME NEW d \in Conn, ClientStep(d) PROVE FALSE
    <2>1. CASE connect(d)
      BY <2>1 DEF connect, TypeOK
    <2>2. CASE hangUp(d)
      <3>1. sock' = [sock EXCEPT ![d] = "closed"] /\ d # c
        BY <2>2 DEF hangUp, closeWithError
      <3>2. QED
        BY <3>1 DEF TypeOK
    <2>3. CASE \E kind \in Kinds : send(d, kind)
      BY <2>3 DEF send
    <2>4. QED
      BY <1>2, <2>1, <2>2, <2>3 DEF ClientStep
  <1>3. ASSUME NEW d \in Conn, SocketStep(d) PROVE FALSE
    BY <1>3 DEF SocketStep, completeCurrentRead, completeCurrentWrite
  <1>4. ASSUME NEW d \in Conn, ServerStep(d) PROVE FALSE
    <2>1. CASE doAccept(d)
      <3>1. sock' = [sock EXCEPT ![d] = "open"]
        BY <2>1 DEF doAccept
      <3>2. QED
        BY <3>1 DEF TypeOK
    <2>2. CASE initWithAsyncSocket(d) \/ didAcceptNewSocket(d)
      BY <2>2 DEF initWithAsyncSocket, didAcceptNewSocket
    <2>3. QED
      BY <1>4, <2>1, <2>2 DEF ServerStep
  <1>6. ASSUME NEW d \in Conn, ConnectionStep(d)
        PROVE  IsHead(connectionQueue, "stop", c) \/ IsHead(connectionQueue, "wrote", c)
    <2>1. CASE startConnection(d)
      BY <2>1 DEF startConnection
    <2>2. CASE stopConnection(d)
      <3>1. d # c => sock'[c] = sock[c]
        BY <2>2 DEF stopConnection, disconnect, closeWithError, TypeOK
      <3>2. QED
        BY <2>2, <3>1 DEF stopConnection
    <2>3. CASE didReadData(d)
      BY <2>3 DEF didReadData
    <2>4. CASE replyToHTTPRequest(d)
      BY <2>4 DEF replyToHTTPRequest
    <2>5. CASE didWriteData(d)
      <3>1. d # c => sock'[c] = sock[c]
        BY <2>5 DEF didWriteData, disconnect, closeWithError, TypeOK
      <3>2. QED
        BY <2>5, <3>1 DEF didWriteData
    <2>6. CASE socketDidDisconnect(d)
      BY <2>6 DEF socketDidDisconnect
    <2>7. QED
      BY <1>6, <2>1, <2>2, <2>3, <2>4, <2>5, <2>6 DEF ConnectionStep
  <1>7. ASSUME NEW d \in Conn, MainStep(d) PROVE FALSE
    BY <1>7 DEF MainStep, handleRoute, returnFromRoute
  <1>8. QED
    BY <1>1, <1>2, <1>3, <1>4, <1>6, <1>7 DEF Next

(* Whenever the server closes a connection, with -stop or after a final       *)
(* response, the requests it took up are answered: the stop of a connection   *)
(* waits in connectionQueue behind its reply (HTTPConnection.m:583-591).      *)
THEOREM StopsKeepReplies == Spec => StopKeepsReplies
  <1> DEFINE Kept == \A c \in Conn :
                        sock[c] = "open" /\ sock'[c] = "closed" /\ ~hangUp(c) =>
                            \A k \in 1 .. taken[c] : requests[c][k] # "tree" => k <= answered[c]
  <1>1. IInv /\ [Next]_vars => [Kept]_vars
    <2> SUFFICES ASSUME IInv, Next, NEW c \in Conn,
                        sock[c] = "open", sock'[c] = "closed", ~hangUp(c),
                        NEW k \in 1 .. taken[c], requests[c][k] # "tree"
                 PROVE  k <= answered[c]
      OBVIOUS
    <2>1. QED
      BY ClosingSteps, ClosedByTheServer
  <1>2. QED
    BY <1>1, InvariantHolds, PTL DEF Spec, StopKeepsReplies
=============================================================================
