------------------------- MODULE SerialServiceProofs -------------------------
(***************************************************************************)
(* The promises of SerialService, for any set of connections and any       *)
(* number of requests.  InStep alone is not inductive: Answer is harmless  *)
(* only because nobody answers the connection being served, which is what  *)
(* BusyIsOwed adds.                                                        *)
(***************************************************************************)
EXTENDS SerialService, TLAPS

IInv == TypeOK /\ InStep /\ BusyIsOwed

(* The initial state satisfies the invariant. *)
LEMMA InitIInv == Init => IInv
  <1> SUFFICES ASSUME Init PROVE IInv
    OBVIOUS
  <1>1. TypeOK
    BY DEF Init, TypeOK
  <1>2. InStep
    <2> SUFFICES ASSUME NEW c \in Conn
                 PROVE  /\ answered[c] <= taken[c]
                        /\ taken[c] <= answered[c] + 1
                        /\ taken[c] <= Len(requests[c])
      BY DEF InStep
    <2>1. taken[c] = 0 /\ answered[c] = 0 /\ requests[c] = <<>>
      BY DEF Init
    <2>2. QED
      BY <2>1
  <1>3. BusyIsOwed
    BY DEF Init, BusyIsOwed
  <1>4. QED
    BY <1>1, <1>2, <1>3 DEF IInv

(* Every step of every action preserves the invariant. *)
LEMMA NextIInv ==
    ASSUME NoConn \notin Conn
    PROVE IInv /\ [Next]_vars => IInv'
  <1> SUFFICES ASSUME IInv, [Next]_vars PROVE IInv'
    OBVIOUS
  <1> USE DEF IInv, TypeOK, InStep, BusyIsOwed
  <1>1. ASSUME NEW c \in Conn, Open(c) PROVE IInv'
    BY <1>1 DEF Open
  <1>2. ASSUME NEW c \in Conn, Drop(c) PROVE IInv'
    BY <1>2 DEF Drop
  <1>3. ASSUME NEW c \in Conn, NEW kind \in Kinds, Submit(c, kind) PROVE IInv'
    BY <1>3 DEF Submit
  <1>4. ASSUME NEW c \in Conn, Begin(c) PROVE IInv'
    BY <1>4 DEF Begin, NextRequest
  <1>5. ASSUME NEW c \in Conn, Refuse(c) PROVE IInv'
    <2>1. busy # c
      BY <1>5 DEF Refuse, NextRequest
    <2>2. CASE link[c] = "up"
      BY <1>5, <2>1, <2>2 DEF Refuse, NextRequest
    <2>3. CASE link[c] # "up"
      BY <1>5, <2>1, <2>3 DEF Refuse, NextRequest
    <2>4. QED
      BY <2>2, <2>3
  <1>6. ASSUME End PROVE IInv'
    BY <1>6 DEF End
  <1>7. ASSUME NEW c \in Conn, Answer(c) PROVE IInv'
    BY <1>7 DEF Answer
  <1>8. CASE UNCHANGED vars
    BY <1>8 DEF vars
  <1>9. QED
    BY <1>1, <1>2, <1>3, <1>4, <1>5, <1>6, <1>7, <1>8 DEF Next

(* The types, the request-response discipline and the debt to the          *)
(* connection being served hold of every behaviour of the service.         *)
THEOREM ServiceKeepsInStep ==
    ASSUME NoConn \notin Conn
    PROVE Spec => [](TypeOK /\ InStep /\ BusyIsOwed)
  <1>1. Spec => []IInv
    <2>1. IInv /\ [Next]_vars => IInv'
      BY NextIInv
    <2>2. QED
      BY InitIInv, <2>1, PTL DEF Spec
  <1>2. IInv => TypeOK /\ InStep /\ BusyIsOwed
    BY DEF IInv
  <1>3. QED
    BY <1>1, <1>2, PTL
================================================================================
