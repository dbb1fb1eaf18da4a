---------------------------- MODULE SerialService ----------------------------
(***************************************************************************)
(* What the DeviceAgent server promises its clients, without its queues:   *)
(* one request at a time is served, the requests of a connection are       *)
(* taken up in the order they were sent, none twice, and none before the   *)
(* response to the one before it has been sent.                            *)
(***************************************************************************)
EXTENDS Integers, Sequences

CONSTANTS Conn, NoConn, Kinds

VARIABLES requests,  \* what each client has sent, kinds in order
          taken,     \* the last request taken up on each connection
          answered,  \* the last request answered on each connection
          busy,      \* the connection whose request a handler is serving
          link       \* "none", "up" or "gone"

vars == <<requests, taken, answered, busy, link>>

TypeOK ==
    /\ requests \in [Conn -> Seq(Kinds)]
    /\ taken \in [Conn -> Nat]
    /\ answered \in [Conn -> Nat]
    /\ busy \in Conn \cup {NoConn}
    /\ link \in [Conn -> {"none", "up", "gone"}]

Init ==
    /\ requests = [c \in Conn |-> <<>>]
    /\ taken = [c \in Conn |-> 0]
    /\ answered = [c \in Conn |-> 0]
    /\ busy = NoConn
    /\ link = [c \in Conn |-> "none"]

Open(c) ==
    /\ link[c] = "none"
    /\ link' = [link EXCEPT ![c] = "up"]
    /\ UNCHANGED <<requests, taken, answered, busy>>

Drop(c) ==
    /\ link[c] = "up"
    /\ link' = [link EXCEPT ![c] = "gone"]
    /\ UNCHANGED <<requests, taken, answered, busy>>

Submit(c, kind) ==
    /\ link[c] = "up"
    /\ requests' = [requests EXCEPT ![c] = Append(@, kind)]
    /\ UNCHANGED <<taken, answered, busy, link>>

NextRequest(c) ==
    /\ taken[c] = answered[c]
    /\ taken[c] < Len(requests[c])
    /\ link[c] # "none"

Begin(c) ==
    /\ busy = NoConn
    /\ NextRequest(c)
    /\ taken' = [taken EXCEPT ![c] = @ + 1]
    /\ busy' = c
    /\ UNCHANGED <<requests, answered, link>>

(* A request is refused without a handler, whoever is being served. *)
Refuse(c) ==
    /\ NextRequest(c)
    /\ taken' = [taken EXCEPT ![c] = @ + 1]
    /\ answered' = IF link[c] = "up" THEN [answered EXCEPT ![c] = @ + 1] ELSE answered
    /\ UNCHANGED <<requests, busy, link>>

End ==
    /\ busy # NoConn
    /\ busy' = NoConn
    /\ UNCHANGED <<requests, taken, answered, link>>

Answer(c) ==
    /\ busy # c
    /\ link[c] = "up"
    /\ answered[c] < taken[c]
    /\ answered' = [answered EXCEPT ![c] = taken[c]]
    /\ UNCHANGED <<requests, taken, busy, link>>

Next ==
    \/ End
    \/ \E c \in Conn : \/ Open(c) \/ Drop(c) \/ Begin(c) \/ Refuse(c) \/ Answer(c)
                       \/ \E kind \in Kinds : Submit(c, kind)

Spec == Init /\ [][Next]_vars

(* At most one request of a connection is taken up and not yet answered,   *)
(* and nothing is answered that was not taken up, or taken up unsent: the  *)
(* request-response discipline of HTTPConnection.                          *)
InStep ==
    \A c \in Conn : /\ answered[c] <= taken[c]
                    /\ taken[c] <= answered[c] + 1
                    /\ taken[c] <= Len(requests[c])

(* The connection being served is owed a response. *)
BusyIsOwed == busy # NoConn => answered[busy] < taken[busy]
================================================================================
