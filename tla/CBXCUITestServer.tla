--------------------------- MODULE CBXCUITestServer ---------------------------
(***************************************************************************)
(* The DeviceAgent HTTP server: the three serial GCD queues it is built    *)
(* from, the connections it owns and the run loop that keeps the XCTest    *)
(* "testRunner" method alive until POST /shutdown.                         *)
(*                                                                         *)
(*   serverQueue      accepts sockets, starts and stops the listener       *)
(*   connectionQueue  shared by all HTTPConnections (HTTPServer.m:42,544)  *)
(*   mainQueue        the routeQueue: every route handler runs on it       *)
(*                    (CBXCUITestServer.m:37), reached by a dispatch_sync  *)
(*                    from connectionQueue (RoutingHTTPServer.m:215)       *)
(*                                                                         *)
(* The head of a queue is the block being executed.  Requests of a         *)
(* connection are numbered 1, 2, ... in the order the client sends them.   *)
(***************************************************************************)
EXTENDS Integers, Sequences, FiniteSets, Functions

CONSTANTS Conn,         \* the connections clients may open, each one once
          NoConn,       \* the conn field of a block that is about no connection
          MaxRequests,  \* bound: requests the clients send, all together
          Kinds         \* the kinds of request the clients send

(***************************************************************************)
(* "quick"    a handler that answers by itself (GET /version, /health...)  *)
(* "closing"  the same, from a client that asks for "Connection: close"    *)
(* "tree"     a handler whose response does not fit the socket's buffer     *)
(* "gesture"  a handler that waits for testmanagerd in ThreadUtils.runSync *)
(* "shutdown" POST /shutdown                                               *)
(* "invalid"  a request HTTPConnection refuses without routing it (400)    *)
(***************************************************************************)
RequestKind == {"quick", "closing", "tree", "gesture", "shutdown", "invalid"}

ASSUME ServerAssumption ==
    /\ NoConn \notin Conn
    /\ MaxRequests \in Nat \ {0}
    /\ Kinds \subseteq RequestKind

VARIABLES
    runner,             \* where the testRunner method is
    isRunning,          \* HTTPServer.isRunning; the listener accepts while it is set
    isFinishedTesting,  \* CBXCUITestServer.isFinishedTesting
    connections,        \* HTTPServer.connections, in insertion order
    sock,               \* the socket of each connection
    requests,           \* what the client has sent on it, kinds in order
    reading,            \* a readData is outstanding on the socket
    delivered,          \* the last request the socket has handed to its delegate
    taken,              \* the last request that was routed or refused
    writing,            \* the request whose response is partly sent, or 0
    answered,           \* the last request whose response reached the client
    serverQueue, connectionQueue, mainQueue,
    dispatched,         \* connectionQueue's dispatch_sync to mainQueue
    mainBlock,          \* what the block at the head of mainQueue is doing
    timers              \* /shutdown requests whose dispatch_after is pending

protocolVars == <<requests, reading, delivered, taken, writing, answered>>
lifeVars     == <<runner, isRunning, isFinishedTesting>>
vars == <<lifeVars, connections, sock, protocolVars, serverQueue,
          connectionQueue, mainQueue, dispatched, mainBlock, timers>>

Block(ops) == [op : ops, conn : Conn \cup {NoConn}, n : Nat]
Blk(o, c, k) == [op |-> o, conn |-> c, n |-> k]

ServerBlock     == Block({"accept", "attach", "add", "stop"})
ConnectionBlock == Block({"start", "stop", "read", "wrote", "disconnected"})
MainBlock       == Block({"route", "stop"})

IsHead(queue, o, c) == /\ queue # <<>>
                       /\ Head(queue).op = o
                       /\ Head(queue).conn = c

(* NSMutableArray's removeObject: of an array that holds an object once. *)
removeObject(s, c) ==
    IF \E i \in 1 .. Len(s) : s[i] = c
    THEN LET i == CHOOSE k \in 1 .. Len(s) : s[k] = c
         IN  [k \in 1 .. Len(s) - 1 |-> IF k < i THEN s[k] ELSE s[k + 1]]
    ELSE s

Holds(s, c) == \E i \in 1 .. Len(s) : s[i] = c

-------------------------------------------------------------------------------
Init ==
    /\ runner = "boot"
    /\ isRunning = FALSE
    /\ isFinishedTesting = FALSE
    /\ connections = <<>>
    /\ sock = [c \in Conn |-> "none"]
    /\ requests = [c \in Conn |-> <<>>]
    /\ reading = [c \in Conn |-> FALSE]
    /\ delivered = [c \in Conn |-> 0]
    /\ taken = [c \in Conn |-> 0]
    /\ writing = [c \in Conn |-> 0]
    /\ answered = [c \in Conn |-> 0]
    /\ serverQueue = <<>>
    /\ connectionQueue = <<>>
    /\ mainQueue = <<>>
    /\ dispatched = "no"
    /\ mainBlock = "none"
    /\ timers = {}

-------------------------------------------------------------------------------
(* The runner: -[CBXCUITestServer start] and +start.                       *)

(* The listener binds its port, or -start calls abort(). *)
start ==
    /\ runner = "boot"
    /\ \/ runner' = "serving" /\ isRunning' = TRUE
       \/ runner' = "aborted" /\ UNCHANGED isRunning
    /\ UNCHANGED <<isFinishedTesting, connections, sock, protocolVars,
                   serverQueue, connectionQueue, mainQueue, dispatched,
                   mainBlock, timers>>

(* The main queue is drained only from the run loops the runner is in: the  *)
(* loop of -start, then the one setOrientation: runs for a second.          *)
RunLoop == runner \in {"serving", "settling"}

(* The condition of the while loop of -start, tested between two run loops. *)
leaveRunLoop ==
    /\ runner = "serving"
    /\ mainBlock = "none"
    /\ ~isRunning \/ isFinishedTesting
    /\ runner' = "settling"
    /\ UNCHANGED <<isRunning, isFinishedTesting, connections, sock, protocolVars,
                   serverQueue, connectionQueue, mainQueue, dispatched,
                   mainBlock, timers>>

(* setOrientation: returns and with it the test method: the process ends. *)
finishTest ==
    /\ runner = "settling"
    /\ mainBlock = "none"
    /\ runner' = "exited"
    /\ UNCHANGED <<isRunning, isFinishedTesting, connections, sock, protocolVars,
                   serverQueue, connectionQueue, mainQueue, dispatched,
                   mainBlock, timers>>

-------------------------------------------------------------------------------
(* Clients and the sockets' own queues.                                    *)

(* A client connects: GCDAsyncSocket queues didAcceptNewSocket. *)
connect(c) ==
    /\ isRunning
    /\ sock[c] = "none"
    /\ sock' = [sock EXCEPT ![c] = "accepting"]
    /\ serverQueue' = Append(serverQueue, Blk("accept", c, 0))
    /\ UNCHANGED <<lifeVars, connections, protocolVars, connectionQueue,
                   mainQueue, dispatched, mainBlock, timers>>

(* A client sends a request, possibly before the last one was answered. *)
send(c, kind) ==
    /\ sock[c] \in {"accepting", "open"}
    /\ FoldFunction(LAMBDA s, n : Len(s) + n, 0, requests) < MaxRequests
    /\ requests' = [requests EXCEPT ![c] = Append(@, kind)]
    /\ UNCHANGED <<lifeVars, connections, sock, reading, delivered, taken,
                   writing, answered, serverQueue, connectionQueue, mainQueue,
                   dispatched, mainBlock, timers>>

(* Until -initWithAsyncSocket: a socket's delegate is the HTTPServer, which  *)
(* does not implement socketDidDisconnect:.                                  *)
delegateIsServer(c) == IsHead(serverQueue, "attach", c)

(* closeWithError: drops pending reads and writes and queues the delegate's *)
(* socketDidDisconnect:; blocks queued for the delegate before it still run. *)
closeWithError(c, queue) ==
    /\ sock' = [sock EXCEPT ![c] = "closed"]
    /\ reading' = [reading EXCEPT ![c] = FALSE]
    /\ writing' = [writing EXCEPT ![c] = 0]
    /\ connectionQueue' = IF delegateIsServer(c)
                           THEN queue
                           ELSE Append(queue, Blk("disconnected", c, 0))

(* -disconnect does nothing on a socket that is not connected. *)
disconnect(c, queue) ==
    IF sock[c] = "open"
    THEN closeWithError(c, queue)
    ELSE connectionQueue' = queue /\ UNCHANGED <<sock, reading, writing>>

(* The client goes away, or a read or write times out. *)
hangUp(c) ==
    /\ sock[c] = "open"
    /\ closeWithError(c, connectionQueue)
    /\ UNCHANGED <<lifeVars, connections, requests, delivered, taken, answered,
                   serverQueue, mainQueue, dispatched, mainBlock, timers>>

(* Fault: the read stays outstanding while its request is answered. *)
ReadsAhead(c) ==
    /\ sock[c] = "open"
    /\ reading[c]
    /\ delivered[c] < Len(requests[c])
    /\ delivered' = [delivered EXCEPT ![c] = @ + 1]
    /\ connectionQueue' = Append(connectionQueue, Blk("read", c, delivered[c] + 1))
    /\ UNCHANGED <<lifeVars, connections, sock, requests, reading, taken, writing,
                   answered, serverQueue, mainQueue, dispatched, mainBlock, timers>>

(* The socket has read a whole request for an outstanding readData. *)
completeCurrentRead(c) ==
    /\ sock[c] = "open"
    /\ reading[c]
    /\ delivered[c] < Len(requests[c])
    /\ reading' = [reading EXCEPT ![c] = FALSE]
    /\ delivered' = [delivered EXCEPT ![c] = @ + 1]
    /\ connectionQueue' = Append(connectionQueue, Blk("read", c, delivered[c] + 1))
    /\ UNCHANGED <<lifeVars, connections, sock, requests, taken, writing,
                   answered, serverQueue, mainQueue, dispatched, mainBlock, timers>>

(* Fault: "nothing left to send" is a negative number. *)
NegativeSentinel(c) ==
    /\ sock[c] = "open"
    /\ writing[c] > 0
    /\ answered' = [answered EXCEPT ![c] = writing[c]]
    /\ writing' = [writing EXCEPT ![c] = -1]
    /\ connectionQueue' = Append(connectionQueue, Blk("wrote", c, writing[c]))
    /\ UNCHANGED <<lifeVars, connections, sock, requests, reading, delivered,
                   taken, serverQueue, mainQueue, dispatched, mainBlock,
                   timers>>

(* The socket has sent the rest of a large response. *)
completeCurrentWrite(c) ==
    /\ sock[c] = "open"
    /\ writing[c] # 0
    /\ answered' = [answered EXCEPT ![c] = writing[c]]
    /\ writing' = [writing EXCEPT ![c] = 0]
    /\ connectionQueue' = Append(connectionQueue, Blk("wrote", c, writing[c]))
    /\ UNCHANGED <<lifeVars, connections, sock, requests, reading, delivered,
                   taken, serverQueue, mainQueue, dispatched, mainBlock, timers>>

-------------------------------------------------------------------------------
(* Blocks of serverQueue.                                                  *)

(* The block of doAccept: makes the GCDAsyncSocket, whose read source is     *)
(* resumed on its own queue, and goes on to didAcceptNewSocket:.             *)
doAccept(c) ==
    /\ IsHead(serverQueue, "accept", c)
    /\ serverQueue' = <<Blk("attach", c, 0)>> \o Tail(serverQueue)
    /\ sock' = [sock EXCEPT ![c] = "open"]
    /\ UNCHANGED <<lifeVars, connections, protocolVars, connectionQueue,
                   mainQueue, dispatched, mainBlock, timers>>

initWithAsyncSocket(c) ==
    /\ IsHead(serverQueue, "attach", c)
    /\ serverQueue' = <<Blk("add", c, 0)>> \o Tail(serverQueue)
    /\ UNCHANGED <<lifeVars, connections, sock, protocolVars, connectionQueue,
                   mainQueue, dispatched, mainBlock, timers>>

(* The new connection is put in the array and sent start. *)
didAcceptNewSocket(c) ==
    /\ IsHead(serverQueue, "add", c)
    /\ serverQueue' = Tail(serverQueue)
    /\ connections' = Append(connections, c)
    /\ connectionQueue' = Append(connectionQueue, Blk("start", c, 0))
    /\ UNCHANGED <<lifeVars, sock, protocolVars, mainQueue, dispatched,
                   mainBlock, timers>>

(* Fault: the array is emptied before the loop that stops its connections. *)
ForgetsBeforeStopping ==
    /\ IsHead(serverQueue, "stop", NoConn)
    /\ serverQueue' = Tail(serverQueue)
    /\ isRunning' = FALSE
    /\ connections' = <<>>
    /\ mainBlock' = "stopped"
    /\ UNCHANGED <<runner, isFinishedTesting, sock, protocolVars, connectionQueue,
                   mainQueue, dispatched, timers>>

(* Fault: the sockets are closed from serverQueue, not through their queue. *)
ClosesAtOnce ==
    /\ IsHead(serverQueue, "stop", NoConn)
    /\ serverQueue' = Tail(serverQueue)
    /\ isRunning' = FALSE
    /\ sock' = [c \in Conn |-> IF Holds(connections, c) THEN "closed" ELSE sock[c]]
    /\ connections' = <<>>
    /\ mainBlock' = "stopped"
    /\ UNCHANGED <<runner, isFinishedTesting, protocolVars, connectionQueue,
                   mainQueue, dispatched, timers>>

(* -[HTTPServer stop:NO], sent by the main thread with dispatch_sync: it     *)
(* closes the listener and sends stop to every connection of the array.     *)
stopServer ==
    /\ IsHead(serverQueue, "stop", NoConn)
    /\ serverQueue' = Tail(serverQueue)
    /\ isRunning' = FALSE
    /\ connectionQueue' = connectionQueue \o
           [i \in 1 .. Len(connections) |-> Blk("stop", connections[i], 0)]
    /\ connections' = <<>>
    /\ mainBlock' = "stopped"
    /\ UNCHANGED <<runner, isFinishedTesting, sock, protocolVars, mainQueue,
                   dispatched, timers>>

-------------------------------------------------------------------------------
(* Blocks of connectionQueue.                                              *)

startConnection(c) ==
    /\ IsHead(connectionQueue, "start", c)
    /\ connectionQueue' = Tail(connectionQueue)
    /\ reading' = [reading EXCEPT ![c] = (sock[c] = "open")]
    /\ UNCHANGED <<lifeVars, connections, sock, requests, delivered, taken,
                   writing, answered, serverQueue, mainQueue, dispatched,
                   mainBlock, timers>>

stopConnection(c) ==
    /\ IsHead(connectionQueue, "stop", c)
    /\ disconnect(c, Tail(connectionQueue))
    /\ UNCHANGED <<lifeVars, connections, requests, delivered, taken, answered,
                   serverQueue, mainQueue, dispatched, mainBlock, timers>>

(* A response that fits the socket's buffer is sent at once and its         *)
(* didWriteDataWithTag: queued; the rest of a larger one waits for the      *)
(* client to read; without a socket there is no response.                   *)
writeResponse(c, k, queue) ==
    IF sock[c] # "open"
    THEN connectionQueue' = queue /\ UNCHANGED <<writing, answered>>
    ELSE IF requests[c][k] = "tree"
    THEN /\ writing' = [writing EXCEPT ![c] = k]
         /\ connectionQueue' = queue
         /\ UNCHANGED answered
    ELSE /\ answered' = [answered EXCEPT ![c] = k]
         /\ connectionQueue' = Append(queue, Blk("wrote", c, k))
         /\ UNCHANGED writing

(* Fault: dispatch_async: the reply is written without waiting. *)
RoutesAsync(c) ==
    /\ IsHead(connectionQueue, "read", c)
    /\ dispatched = "no"
    /\ mainQueue' = Append(mainQueue, Blk("route", c, Head(connectionQueue).n))
    /\ writeResponse(c, Head(connectionQueue).n, Tail(connectionQueue))
    /\ UNCHANGED <<lifeVars, connections, sock, requests, reading, delivered,
                   taken, dispatched, serverQueue, mainBlock, timers>>

(* A request that cannot be parsed or whose method nobody serves is refused *)
(* on the spot; any other one is sent to the main queue with dispatch_sync, *)
(* and its block stays at the head of connectionQueue meanwhile.            *)
didReadData(c) ==
    /\ IsHead(connectionQueue, "read", c)
    /\ dispatched = "no"
    /\ LET k == Head(connectionQueue).n IN
       \/ /\ requests[c][k] = "invalid"
          /\ taken' = [taken EXCEPT ![c] = k]
          /\ writeResponse(c, k, Tail(connectionQueue))
          /\ UNCHANGED <<mainQueue, dispatched>>
       \/ /\ requests[c][k] # "invalid"
          /\ mainQueue' = Append(mainQueue, Blk("route", c, k))
          /\ dispatched' = "waiting"
          /\ UNCHANGED <<taken, writing, answered, connectionQueue>>
    /\ UNCHANGED <<lifeVars, connections, sock, requests, reading, delivered,
                   serverQueue, mainBlock, timers>>

(* Fault: the request is not released, and is routed once more. *)
RepliesWithoutReleasing(c) ==
    /\ IsHead(connectionQueue, "read", c)
    /\ dispatched = "returned"
    /\ dispatched' = "no"
    /\ writeResponse(c, Head(connectionQueue).n, connectionQueue)
    /\ UNCHANGED <<lifeVars, connections, sock, requests, reading, delivered,
                   taken, serverQueue, mainQueue, mainBlock, timers>>

(* dispatch_sync has returned with the handler's RouteResponse. *)
replyToHTTPRequest(c) ==
    /\ IsHead(connectionQueue, "read", c)
    /\ dispatched = "returned"
    /\ dispatched' = "no"
    /\ writeResponse(c, Head(connectionQueue).n, Tail(connectionQueue))
    /\ UNCHANGED <<lifeVars, connections, sock, requests, reading, delivered,
                   taken, serverQueue, mainQueue, mainBlock, timers>>

(* HTTP_FINAL_RESPONSE of a refused request, or -shouldDie. *)
shouldDie(kind) == kind \in {"invalid", "closing"}

(* Fault: a kept-alive connection does not read its next request. *)
DoesNotReadOn(c) ==
    /\ IsHead(connectionQueue, "wrote", c)
    /\ IF shouldDie(requests[c][Head(connectionQueue).n])
       THEN disconnect(c, Tail(connectionQueue))
       ELSE /\ connectionQueue' = Tail(connectionQueue)
            /\ UNCHANGED <<sock, writing, reading>>
    /\ UNCHANGED <<lifeVars, connections, requests, delivered, taken, answered,
                   serverQueue, mainQueue, dispatched, mainBlock, timers>>

didWriteData(c) ==
    /\ IsHead(connectionQueue, "wrote", c)
    /\ IF shouldDie(requests[c][Head(connectionQueue).n])
       THEN disconnect(c, Tail(connectionQueue))
       ELSE /\ connectionQueue' = Tail(connectionQueue)
            /\ reading' = [reading EXCEPT ![c] = (sock[c] = "open")]
            /\ UNCHANGED <<sock, writing>>
    /\ UNCHANGED <<lifeVars, connections, requests, delivered, taken, answered,
                   serverQueue, mainQueue, dispatched, mainBlock, timers>>

(* Fault: -die closes the connection without posting its notification. *)
DiesSilently(c) ==
    /\ IsHead(connectionQueue, "disconnected", c)
    /\ connectionQueue' = Tail(connectionQueue)
    /\ UNCHANGED <<lifeVars, connections, sock, protocolVars, serverQueue, mainQueue,
                   dispatched, mainBlock, timers>>

(* socketDidDisconnect: calls -die, whose notification reaches the server. *)
socketDidDisconnect(c) ==
    /\ IsHead(connectionQueue, "disconnected", c)
    /\ connectionQueue' = Tail(connectionQueue)
    /\ connections' = removeObject(connections, c)
    /\ UNCHANGED <<lifeVars, sock, protocolVars, serverQueue, mainQueue,
                   dispatched, mainBlock, timers>>

-------------------------------------------------------------------------------
(* Blocks of the main queue, and the threads that complete them.           *)

(* A handler starts.  One that needs testmanagerd spins its own run loop in *)
(* runSync, which does not drain the main queue again.                      *)
handleRoute(c) ==
    /\ RunLoop
    /\ mainBlock = "none"
    /\ IsHead(mainQueue, "route", c)
    /\ LET k == Head(mainQueue).n IN
       /\ taken' = [taken EXCEPT ![c] = k]
       /\ mainBlock' = IF requests[c][k] = "gesture" THEN "runSync" ELSE "handler"
    /\ UNCHANGED <<lifeVars, connections, sock, requests, reading, delivered,
                   writing, answered, serverQueue, connectionQueue, mainQueue,
                   dispatched, timers>>

(* testmanagerd's XPC thread sets the BOOL that runSync polls. *)
setToTrueWhenDone ==
    /\ mainBlock = "runSync"
    /\ mainBlock' = "handler"
    /\ UNCHANGED <<lifeVars, connections, sock, protocolVars, serverQueue,
                   connectionQueue, mainQueue, dispatched, timers>>

(* Fault: the thread that waits for the handler is not woken. *)
LosesTheWakeup(c) ==
    /\ mainBlock = "handler"
    /\ IsHead(mainQueue, "route", c)
    /\ mainBlock' = "none"
    /\ mainQueue' = Tail(mainQueue)
    /\ LET k == Head(mainQueue).n IN
       timers' = IF requests[c][k] = "shutdown" THEN timers \cup {<<c, k>>}
                                                ELSE timers
    /\ UNCHANGED <<lifeVars, connections, sock, protocolVars, serverQueue,
                   connectionQueue, dispatched>>

(* The handler returns, after arming the shutdown timer if it is /shutdown. *)
returnFromRoute(c) ==
    /\ mainBlock = "handler"
    /\ IsHead(mainQueue, "route", c)
    /\ mainBlock' = "none"
    /\ mainQueue' = Tail(mainQueue)
    /\ dispatched' = "returned"
    /\ LET k == Head(mainQueue).n IN
       timers' = IF requests[c][k] = "shutdown" THEN timers \cup {<<c, k>>}
                                                ELSE timers
    /\ UNCHANGED <<lifeVars, connections, sock, protocolVars, serverQueue,
                   connectionQueue>>

(* The delay of -stop is over: dispatch_after submits its block. *)
shutdownDelay ==
    /\ \E t \in timers : timers' = timers \ {t}
    /\ mainQueue' = Append(mainQueue, Blk("stop", NoConn, 0))
    /\ UNCHANGED <<lifeVars, connections, sock, protocolVars, serverQueue,
                   connectionQueue, dispatched, mainBlock>>

(* Fault: stop waits for the connections, which may be waiting for it. *)
WaitsForConnections ==
    /\ RunLoop
    /\ IsHead(mainQueue, "stop", NoConn)
    /\ \/ /\ mainBlock = "none"
          /\ mainBlock' = "stopping"
          /\ serverQueue' = Append(serverQueue, Blk("stop", NoConn, 0))
          /\ UNCHANGED <<isFinishedTesting, mainQueue>>
       \/ /\ mainBlock = "stopped"
          /\ connectionQueue = <<>>
          /\ mainBlock' = "none"
          /\ isFinishedTesting' = TRUE
          /\ mainQueue' = Tail(mainQueue)
          /\ UNCHANGED serverQueue
    /\ UNCHANGED <<runner, isRunning, connections, sock, protocolVars,
                   connectionQueue, dispatched, timers>>

(* The block of -stop: dispatch_sync to serverQueue, a line in the log, then *)
(* isFinishedTesting.                                                        *)
stop ==
    /\ RunLoop
    /\ IsHead(mainQueue, "stop", NoConn)
    /\ \/ /\ mainBlock = "none"
          /\ mainBlock' = "stopping"
          /\ serverQueue' = Append(serverQueue, Blk("stop", NoConn, 0))
          /\ UNCHANGED <<isFinishedTesting, mainQueue>>
       \/ /\ mainBlock = "stopped"
          /\ mainBlock' = "none"
          /\ isFinishedTesting' = TRUE
          /\ mainQueue' = Tail(mainQueue)
          /\ UNCHANGED serverQueue
    /\ UNCHANGED <<runner, isRunning, connections, sock, protocolVars,
                   connectionQueue, dispatched, timers>>

-------------------------------------------------------------------------------
ServerStep(c) == doAccept(c) \/ initWithAsyncSocket(c) \/ didAcceptNewSocket(c)

ConnectionStep(c) ==
    \/ startConnection(c) \/ stopConnection(c) \/ didReadData(c)
    \/ replyToHTTPRequest(c) \/ didWriteData(c) \/ socketDidDisconnect(c)

MainStep(c) == handleRoute(c) \/ returnFromRoute(c)

SocketStep(c) == completeCurrentRead(c) \/ completeCurrentWrite(c)

ClientStep(c) == connect(c) \/ hangUp(c) \/ \E kind \in Kinds : send(c, kind)

RunnerStep == leaveRunLoop \/ finishTest

Next ==
    \/ start
    \/ RunnerStep
    \/ stopServer
    \/ stop
    \/ setToTrueWhenDone
    \/ shutdownDelay
    \/ \E c \in Conn : \/ ClientStep(c) \/ SocketStep(c) \/ ServerStep(c)
                       \/ ConnectionStep(c) \/ MainStep(c)

Spec == Init /\ [][Next]_vars

(***************************************************************************)
(* GCD runs what is queued, sockets progress, the runner's loop turns, and *)
(* testmanagerd answers.  Clients owe nothing.                             *)
(***************************************************************************)
QueueFairness ==
    /\ WF_vars(start) /\ WF_vars(RunnerStep)
    /\ WF_vars(stopServer) /\ WF_vars(stop) /\ WF_vars(shutdownDelay)
    /\ \A c \in Conn : /\ WF_vars(SocketStep(c))
                       /\ WF_vars(ServerStep(c))
                       /\ WF_vars(ConnectionStep(c))
                       /\ WF_vars(MainStep(c))

DaemonFairness == WF_vars(setToTrueWhenDone)

FairSpec == Spec /\ QueueFairness /\ DaemonFairness

-------------------------------------------------------------------------------
TypeOK ==
    /\ runner \in {"boot", "aborted", "serving", "settling", "exited"}
    /\ isRunning \in BOOLEAN
    /\ isFinishedTesting \in BOOLEAN
    /\ connections \in Seq(Conn)
    /\ sock \in [Conn -> {"none", "accepting", "open", "closed"}]
    /\ requests \in [Conn -> Seq(Kinds)]
    /\ reading \in [Conn -> BOOLEAN]
    /\ delivered \in [Conn -> Nat]
    /\ taken \in [Conn -> Nat]
    /\ writing \in [Conn -> Nat]
    /\ answered \in [Conn -> Nat]
    /\ serverQueue \in Seq(ServerBlock)
    /\ connectionQueue \in Seq(ConnectionBlock)
    /\ mainQueue \in Seq(MainBlock)
    /\ dispatched \in {"no", "waiting", "returned"}
    /\ mainBlock \in {"none", "handler", "runSync", "stopping", "stopped"}
    /\ timers \subseteq Conn \X Nat

(* A response is never sent for a request no handler has taken up, and a     *)
(* request is never read ahead of the response to the one before it: the     *)
(* read of HTTPConnection.m:2471 is the only one after the first.            *)
PipelineOrder ==
    \A c \in Conn :
        /\ answered[c] <= taken[c]
        /\ taken[c] <= delivered[c]
        /\ delivered[c] <= answered[c] + 1
        /\ writing[c] # 0 => writing[c] = answered[c] + 1 /\ taken[c] = writing[c]

(* The handler on the main queue serves the request at the head of           *)
(* connectionQueue, whose thread waits for it: dispatch_sync from one serial *)
(* queue keeps a second request off the main queue (RoutingHTTPServer.m:215).*)
HandlerServesTheHead ==
    \A i \in 1 .. Len(mainQueue) : mainQueue[i].op = "route" =>
        /\ dispatched = "waiting"
        /\ connectionQueue # <<>>
        /\ Head(connectionQueue) = Blk("read", mainQueue[i].conn, mainQueue[i].n)
        /\ \A j \in 1 .. Len(mainQueue) : mainQueue[j].op = "route" => j = i

(* The block of doAccept is between making the socket and addObject:. *)
beingAccepted(c) == IsHead(serverQueue, "attach", c) \/ IsHead(serverQueue, "add", c)

(* Every open socket is in the server's array, or about to be put there, or  *)
(* its stop is queued: -stop: and -connectionDidDie: never lose a connection *)
(* that is alive, in whatever order accepts, stops and disconnects come.     *)
OpenSocketIsOwned ==
    \A c \in Conn : sock[c] = "open" =>
        \/ Holds(connections, c)
        \/ beingAccepted(c)
        \/ Holds(connectionQueue, Blk("stop", c, 0))

(* connectionQueue waits for the main queue only while the block it sent     *)
(* there is still queued, and the main queue for serverQueue likewise.       *)
SyncIsAnswerable ==
    /\ dispatched = "waiting" =>
           Holds(mainQueue, [Head(connectionQueue) EXCEPT !.op = "route"])
    /\ mainBlock = "stopping" => Holds(serverQueue, Blk("stop", NoConn, 0))

MainCanRun == \/ mainBlock = "none" /\ mainQueue # <<>>
              \/ mainBlock \in {"handler", "stopped"}

(* Queues that wait for each other never wait in a ring, nor for a block     *)
(* that is gone: as long as the run loop turns, something that is queued can *)
(* run, unless the one running handler waits for testmanagerd                *)
(* (RoutingHTTPServer.m:215, HTTPServer.m:442, CBXCUITestServer.m:116).      *)
NobodyWaitsInVain ==
    /\ SyncIsAnswerable
    /\ /\ RunLoop
       /\ mainBlock # "runSync"
       /\ connectionQueue # <<>> \/ mainQueue # <<>>
       => \/ serverQueue # <<>>
          \/ connectionQueue # <<>> /\ dispatched # "waiting"
          \/ MainCanRun

(* When the server itself closes a connection, every request it has taken up *)
(* there has its response, large ones excepted: POST /shutdown "actually     *)
(* returns a response to the client before shutting down"                    *)
(* (SessionRoutes.m:47), and so does any other request, however short the    *)
(* delay, because the stop of a connection queues behind its reply.          *)
StopKeepsReplies ==
    [][\A c \in Conn :
          sock[c] = "open" /\ sock'[c] = "closed" /\ ~hangUp(c) =>
              \A k \in 1 .. taken[c] : requests[c][k] # "tree" => k <= answered[c]]_vars

(* The server implements the service its clients see. *)
Service == INSTANCE SerialService WITH
    busy <- IF mainBlock \in {"runSync", "handler"} THEN Head(mainQueue).conn ELSE NoConn,
    link <- [c \in Conn |-> CASE sock[c] = "none" -> "none"
                              [] sock[c] \in {"accepting", "open"} -> "up"
                              [] sock[c] = "closed" -> "gone"]

ImplementsService == Service!Spec

-------------------------------------------------------------------------------
Over == runner \in {"exited", "aborted"}

(* A request is answered, or its connection is closed, or the test is over,  *)
(* if testmanagerd always answers.                                           *)
EveryRequestSettles ==
    \A c \in Conn : \A k \in 1 .. MaxRequests :
        Len(requests[c]) >= k ~> answered[c] >= k \/ sock[c] = "closed" \/ Over

(* A handled POST /shutdown ends the test, whatever else is queued. *)
ShutdownEnds == timers # {} ~> runner = "exited"

(* The server is told of a dead connection: "This will allow our server to   *)
(* release us from its array of connections" (HTTPConnection.m:2656).        *)
DeadConnectionsLeave ==
    \A c \in Conn : sock[c] = "closed" ~> ~Holds(connections, c) \/ Over

(* A connection whose disconnect is queued when it is in the array leaves it,*)
(* though the queue it waits in is also the one that waits for handlers.     *)
QueuedDisconnectsArrive ==
    \A c \in Conn :
        Holds(connections, c) /\ Holds(connectionQueue, Blk("disconnected", c, 0))
        ~> ~Holds(connections, c) \/ Over

-------------------------------------------------------------------------------
(***************************************************************************)
(* The inductive invariant behind PipelineOrder, HandlerServesTheHead and  *)
(* OpenSocketIsOwned.  A connection that is alive has one turn: a block of *)
(* connectionQueue that will act on it, or a read or a write outstanding   *)
(* on its socket; never two of them.                                       *)
(***************************************************************************)
IsTurn(b) == b.op \in {"start", "read", "wrote"}

InHandler == mainBlock \in {"runSync", "handler"}

(* At most one block of connectionQueue is the turn of a connection. *)
OneTurn ==
    \A i, j \in 1 .. Len(connectionQueue) :
        /\ IsTurn(connectionQueue[i])
        /\ IsTurn(connectionQueue[j])
        /\ connectionQueue[i].conn = connectionQueue[j].conn
        => i = j

(* While a block is the turn of a connection, nothing is outstanding on its  *)
(* socket, and the request it is about is the current one.                   *)
BlockIsCurrent(b) ==
    LET c == b.conn IN
    /\ c \in Conn
    /\ IsTurn(b) => /\ ~reading[c]
                    /\ writing[c] = 0
                    /\ sock[c] \in {"open", "closed"}
    /\ b.op \in {"start", "wrote"} => /\ taken[c] = delivered[c]
                                      /\ answered[c] = delivered[c]
    /\ b.op = "wrote" => b.n = delivered[c] /\ b.n \in 1 .. Len(requests[c])
    /\ b.op = "read" => /\ b.n = delivered[c]
                        /\ b.n = answered[c] + 1
                        /\ b.n \in 1 .. Len(requests[c])
    /\ b.op = "disconnected" => sock[c] = "closed"

TurnIsCurrent == \A i \in 1 .. Len(connectionQueue) : BlockIsCurrent(connectionQueue[i])

HeadIsServed == dispatched = "returned" \/ InHandler

(* A request whose block is queued has been taken up if it is being served,  *)
(* or has been; only the head of connectionQueue is.                         *)
ServedIsTaken ==
    \A i \in 1 .. Len(connectionQueue) :
        connectionQueue[i].op = "read" =>
            taken[connectionQueue[i].conn] = IF i = 1 /\ HeadIsServed
                                             THEN connectionQueue[i].n
                                             ELSE connectionQueue[i].n - 1

(* Nothing was ever read or written on the connection. *)
Idle(c) == /\ ~reading[c]
           /\ writing[c] = 0
           /\ delivered[c] = 0
           /\ taken[c] = 0
           /\ answered[c] = 0

(* What is outstanding on a socket is the current request. *)
ExchangeIsCurrent(c) ==
    /\ answered[c] <= taken[c]
    /\ taken[c] <= delivered[c]
    /\ delivered[c] <= answered[c] + 1
    /\ reading[c] => /\ sock[c] = "open"
                     /\ writing[c] = 0
                     /\ answered[c] = delivered[c]
    /\ writing[c] # 0 => /\ sock[c] = "open"
                         /\ writing[c] = delivered[c]
                         /\ writing[c] = taken[c]
                         /\ writing[c] = answered[c] + 1
                         /\ writing[c] \in 1 .. Len(requests[c])
                         /\ requests[c][writing[c]] = "tree"
    /\ sock[c] \in {"none", "accepting"} => Idle(c)

(* A response is owed by the socket or by the block that is being run. *)
DebtIsKnown(c) ==
    sock[c] = "open" /\ taken[c] # answered[c] =>
        \/ writing[c] # 0
        \/ connectionQueue # <<>> /\ Head(connectionQueue) = Blk("read", c, taken[c])

SocketIsCurrent == \A c \in Conn : ExchangeIsCurrent(c) /\ DebtIsKnown(c)

(* Each socket being accepted has one block of serverQueue. *)
AcceptIsPending ==
    /\ \A i \in 1 .. Len(serverQueue) :
          /\ serverQueue[i].op = "accept" => /\ serverQueue[i].conn \in Conn
                                             /\ sock[serverQueue[i].conn] = "accepting"
          /\ serverQueue[i].op \in {"attach", "add"} => i = 1 /\ serverQueue[i].conn \in Conn
          /\ serverQueue[i].op = "stop" => /\ serverQueue[i].conn = NoConn
                                           /\ mainBlock = "stopping"
    /\ \A i, j \in 1 .. Len(serverQueue) : serverQueue[i].conn = serverQueue[j].conn => i = j

(* A connection does nothing before its block of serverQueue is over. *)
HasNoTurn(c) ==
    /\ Idle(c)
    /\ sock[c] \in {"open", "closed"}
    /\ \A j \in 1 .. Len(connectionQueue) :
          connectionQueue[j].conn = c => ~IsTurn(connectionQueue[j])

NewIsIdle == \A c \in Conn : beingAccepted(c) => HasNoTurn(c)

(* The dispatch_sync of connectionQueue and the block it waits for. *)
SyncIsPaired ==
    /\ dispatched # "no" => /\ connectionQueue # <<>>
                            /\ Head(connectionQueue).op = "read"
                            /\ requests[Head(connectionQueue).conn]
                                       [Head(connectionQueue).n] # "invalid"
    /\ InHandler => mainQueue # <<>> /\ Head(mainQueue).op = "route"
    /\ mainBlock \in {"stopping", "stopped"} => mainQueue # <<>> /\ Head(mainQueue).op = "stop"
    /\ \A i \in 1 .. Len(mainQueue) :
          mainQueue[i].op = "stop" => mainQueue[i].conn = NoConn

IInv == /\ TypeOK /\ OneTurn /\ TurnIsCurrent /\ ServedIsTaken
        /\ SocketIsCurrent /\ AcceptIsPending /\ NewIsIdle /\ SyncIsPaired
        /\ HandlerServesTheHead /\ OpenSocketIsOwned
================================================================================
