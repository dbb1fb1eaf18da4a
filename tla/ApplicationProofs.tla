--------------------------- MODULE ApplicationProofs ---------------------------
(***************************************************************************)
(* Proofs about Application, for any applications and any number of        *)
(* attempts and of polls.  The second half counts the steps a request has  *)
(* left, and concludes that it is answered if its handler goes on.         *)
(***************************************************************************)
EXTENDS Application, TLAPS

Launching == {"launch", "check", "sleep"}
Terminating == {"terminate", "wait", "report"}

(* A handler is about an application, and has not answered. *)
HandlerIsBusy ==
    pc # "idle" => reply = "none" /\ application \in Bundle

(* terminateApplication is called by three routes, before any launch. *)
NothingLaunchedYet ==
    pc \in Terminating =>
        request \in {"session", "delete", "terminate"} /\ refused = 0 /\ ~launched

(* startSession counts an attempt when it is over, so that a launch is out  *)
(* or has been refused for each of them.                                    *)
AttemptsAreRefusals ==
    /\ pc \in Launching =>
           request = "session" /\ currentApplication = application /\ attempts <= MaxAttempts
    /\ pc = "launch" => refused = attempts - 1 /\ ~launched
    /\ pc = "check" => IF outerError THEN refused = attempts /\ ~launched
                                     ELSE refused < attempts /\ launched
    /\ pc = "sleep" => refused = attempts /\ ~launched

SessionIsAnswered == pc = "idle" /\ request = "session" => reply # "none"

(* What was stopped has been seen to be. *)
StoppedIsSeen ==
    /\ application \notin running => stopped
    /\ pc = "report" => stopped \/ polls = MaxPolls

Counts ==
    /\ HandlerIsBusy
    /\ NothingLaunchedYet
    /\ AttemptsAreRefusals
    /\ SessionIsAnswered
    /\ FailureIsEarned
    /\ ReplyTellsLaunch

(* TypeOK in two parts. *)
Flags == outerError \in BOOLEAN /\ launched \in BOOLEAN /\ stopped \in BOOLEAN

Types ==
    /\ installed \subseteq Bundle
    /\ running \subseteq installed
    /\ currentApplication \in Bundle \cup {NoApp}
    /\ pc \in Launching \cup Terminating \cup {"idle"}
    /\ request \in {"none", "session", "delete", "terminate", "query"}
    /\ application \in Bundle \cup {NoApp}
    /\ attempts \in 1 .. MaxAttempts + 1
    /\ polls \in 0 .. MaxPolls
    /\ reply \in {"none", "launched!", "failed", "NotRunning", "Running", "nil", "results"}
    /\ sessions \subseteq Bundle
    /\ refused \in 0 .. MaxAttempts

Inv == Flags /\ Types /\ Counts /\ StoppedIsSeen

LEMMA BoundTypes == MaxAttempts \in Nat /\ MaxAttempts > 0 /\ MaxPolls \in Nat /\ NoApp \notin Bundle
  BY ApplicationAssumption DEF ApplicationAssumption

LEMMA InitInv == Init => Inv
<1> SUFFICES ASSUME Init PROVE Inv
  OBVIOUS
<1>1. Flags
  BY DEF Init, Flags
<1>2. Types
  BY BoundTypes DEF Init, Types
<1>3. Counts
  BY DEF Init, Counts, HandlerIsBusy, NothingLaunchedYet, AttemptsAreRefusals,
     SessionIsAnswered, FailureIsEarned, ReplyTellsLaunch, Launching, Terminating
<1>4. StoppedIsSeen
  BY DEF Init, StoppedIsSeen
<1> QED
  BY <1>1, <1>2, <1>3, <1>4 DEF Inv

LEMMA InvImplies == Inv => TypeOK /\ FailureIsEarned /\ ReplyTellsLaunch
<1>1. Inv => TypeOK
  BY DEF Inv, Flags, Types, TypeOK, Launching, Terminating
<1>2. Inv => FailureIsEarned /\ ReplyTellsLaunch
  BY DEF Inv, Counts
<1> QED
  BY <1>1, <1>2

(* The device changes nothing a handler counts or answers. *)
LEMMA DeviceKeepsInv == ASSUME Inv, Device PROVE Inv'
<1>1. ASSUME NEW b \in Bundle, install(b) PROVE Inv'
  BY <1>1 DEF install, Inv, Flags, Types, Counts, HandlerIsBusy, NothingLaunchedYet, session, history,
     AttemptsAreRefusals, SessionIsAnswered, FailureIsEarned, ReplyTellsLaunch,
     StoppedIsSeen, Launching, Terminating
<1>2. ASSUME NEW b \in Bundle, open(b) PROVE Inv'
  BY <1>2 DEF open, Runs, Inv, Flags, Types, Counts, HandlerIsBusy, NothingLaunchedYet, session,
     AttemptsAreRefusals, SessionIsAnswered, FailureIsEarned, ReplyTellsLaunch,
     StoppedIsSeen, Launching, Terminating
<1>3. ASSUME NEW b \in Bundle, exit(b) PROVE Inv'
  <2>1. /\ running' = running \ {b} /\ installed' = installed
        /\ currentApplication' = currentApplication /\ pc' = pc /\ request' = request
        /\ application' = application /\ polls' = polls /\ reply' = reply
        /\ sessions' = sessions /\ refused' = refused /\ attempts' = attempts
        /\ outerError' = outerError /\ launched' = launched
        /\ stopped' = (stopped \/ application \notin running \ {b})
    BY <1>3 DEF exit, Runs, session
  <2>2. Types'
    BY <2>1 DEF Inv, Types, Launching, Terminating
  <2>3. Flags'
    BY <2>1 DEF Inv, Flags
  <2>4. Counts'
    BY <1>3 DEF exit, Runs, Inv, Counts, HandlerIsBusy, NothingLaunchedYet, session,
       history, AttemptsAreRefusals, SessionIsAnswered, FailureIsEarned, ReplyTellsLaunch
  <2>5. StoppedIsSeen'
    BY <1>3 DEF exit, Runs, Inv, StoppedIsSeen
  <2> QED
    BY <2>2, <2>3, <2>4, <2>5 DEF Inv
<1> QED
  BY <1>1, <1>2, <1>3 DEF Device

LEMMA ClientKeepsInv == ASSUME Inv, Client PROVE Inv'
<1> USE DEF receive, device, session, Inv, Flags, Types, Counts, HandlerIsBusy, NothingLaunchedYet,
            AttemptsAreRefusals, SessionIsAnswered, FailureIsEarned, ReplyTellsLaunch,
            StoppedIsSeen, Launching, Terminating
<1>1. ASSUME NEW b \in Bundle, NEW t \in BOOLEAN, postSession(b, t) PROVE Inv'
  <2>1. CASE t
    <3>1. Flags'
      BY <1>1, <2>1, BoundTypes DEF postSession
    <3>2. Types'
      BY <1>1, <2>1, BoundTypes DEF postSession
    <3>3. Counts'
      BY <1>1, <2>1, BoundTypes DEF postSession
    <3>4. StoppedIsSeen'
      BY <1>1, <2>1, BoundTypes DEF postSession
    <3> QED
      BY <3>1, <3>2, <3>3, <3>4
  <2>2. CASE ~t
    <3>1. Flags'
      BY <1>1, <2>2, BoundTypes DEF postSession, startSession
    <3>2. Types'
      BY <1>1, <2>2, BoundTypes DEF postSession, startSession
    <3>3. Counts'
      BY <1>1, <2>2, BoundTypes DEF postSession, startSession
    <3>4. StoppedIsSeen'
      BY <1>1, <2>2, BoundTypes DEF postSession, startSession
    <3> QED
      BY <3>1, <3>2, <3>3, <3>4
  <2> QED
    BY <2>1, <2>2
<1>2. ASSUME NEW b \in Bundle, terminateApplicationWithIdentifier(b) PROVE Inv'
  <2>1. Flags'
    BY <1>2, BoundTypes DEF terminateApplicationWithIdentifier
  <2>2. Types'
    BY <1>2, BoundTypes DEF terminateApplicationWithIdentifier
  <2>3. Counts'
    BY <1>2, BoundTypes DEF terminateApplicationWithIdentifier
  <2>4. StoppedIsSeen'
    BY <1>2, BoundTypes DEF terminateApplicationWithIdentifier
  <2> QED
    BY <2>1, <2>2, <2>3, <2>4
<1>3. ASSUME terminateCurrentApplication PROVE Inv'
  <2>1. Flags'
    BY <1>3, BoundTypes DEF terminateCurrentApplication, answer
  <2>2. Types'
    BY <1>3, BoundTypes DEF terminateCurrentApplication, answer
  <2>3. Counts'
    BY <1>3, BoundTypes DEF terminateCurrentApplication, answer
  <2>4. StoppedIsSeen'
    BY <1>3, BoundTypes DEF terminateCurrentApplication, answer
  <2> QED
    BY <2>1, <2>2, <2>3, <2>4
<1>4. ASSUME query PROVE Inv'
  <2>1. Flags'
    BY <1>4, BoundTypes DEF query, answer
  <2>2. Types'
    BY <1>4, BoundTypes DEF query, answer
  <2>3. Counts'
    BY <1>4, BoundTypes DEF query, answer
  <2>4. StoppedIsSeen'
    BY <1>4, BoundTypes DEF query, answer
  <2> QED
    BY <2>1, <2>2, <2>3, <2>4
<1> QED
  BY <1>1, <1>2, <1>3, <1>4 DEF Client

(* terminateApplication returns: the request is answered or goes on to launch. *)
LEMMA TerminatedKeepsInv ==
    ASSUME Inv, pc \in Terminating, terminated, device' = device, stopped' = stopped,
           request' = request, application' = application, sessions' = sessions,
           refused' = refused, launched' = launched, polls' = polls
    PROVE  Inv'
<1> USE DEF device, session, Inv, Flags, Types, Counts, HandlerIsBusy, NothingLaunchedYet,
            AttemptsAreRefusals, SessionIsAnswered, FailureIsEarned, ReplyTellsLaunch,
            StoppedIsSeen, Launching, Terminating
<1>1. CASE request = "session"
  <2>1. Flags'
    BY <1>1, BoundTypes DEF terminated, startSession
  <2>2. Types'
    BY <1>1, BoundTypes DEF terminated, startSession
  <2>3. Counts'
    BY <1>1, BoundTypes DEF terminated, startSession
  <2>4. StoppedIsSeen'
    BY <1>1, BoundTypes DEF terminated, startSession
  <2> QED
    BY <2>1, <2>2, <2>3, <2>4
<1>2. CASE request # "session"
  BY <1>2, BoundTypes DEF terminated, answer
<1> QED
  BY <1>1, <1>2

LEMMA HandlerKeepsInv == ASSUME Inv, Handler PROVE Inv'
<1> USE DEF device, session, history, Inv, Flags, Types, Counts, HandlerIsBusy, NothingLaunchedYet,
            AttemptsAreRefusals, SessionIsAnswered, FailureIsEarned, ReplyTellsLaunch,
            StoppedIsSeen, Launching, Terminating
<1>1. CASE terminate
  <2>1. CASE application \notin running
    BY <1>1, <2>1, TerminatedKeepsInv DEF terminate
  <2>2. CASE application \in running
    <3>1. Flags'
      BY <1>1, <2>2, BoundTypes DEF terminate, Runs
    <3>2. Types'
      BY <1>1, <2>2, BoundTypes DEF terminate, Runs
    <3>3. Counts'
      BY <1>1, <2>2, BoundTypes DEF terminate, Runs
    <3>4. StoppedIsSeen'
      BY <1>1, <2>2, BoundTypes DEF terminate, Runs
    <3> QED
      BY <3>1, <3>2, <3>3, <3>4
  <2> QED
    BY <2>1, <2>2
<1>2. CASE waitUntilTrue
  BY <1>2, BoundTypes DEF waitUntilTrue
<1>3. CASE reportState
  BY <1>3, TerminatedKeepsInv DEF reportState
<1>4. CASE launchApplication
  <2>1. Flags'
    BY <1>4, BoundTypes DEF launchApplication, completion, Runs
  <2>2. Types'
    BY <1>4, BoundTypes DEF launchApplication, completion, Runs
  <2>3. Counts'
    BY <1>4, BoundTypes DEF launchApplication, completion, Runs
  <2>4. StoppedIsSeen'
    BY <1>4, BoundTypes DEF launchApplication, completion, Runs
  <2> QED
    BY <2>1, <2>2, <2>3, <2>4
<1>5. CASE checkError
  BY <1>5, BoundTypes DEF checkError, answer
<1>6. CASE sleepBetween
  BY <1>6, BoundTypes DEF sleepBetween, answer
<1> QED
  BY <1>1, <1>2, <1>3, <1>4, <1>5, <1>6 DEF Handler

THEOREM InvariantHolds == Spec => []Inv
<1>1. Inv /\ [Next]_vars => Inv'
  <2> SUFFICES ASSUME Inv, [Next]_vars PROVE Inv'
    OBVIOUS
  <2>1. CASE Next
    BY <2>1, HandlerKeepsInv, ClientKeepsInv, DeviceKeepsInv DEF Next
  <2>2. CASE UNCHANGED vars
    BY <2>2 DEF vars, device, session, history, Inv, Flags, Types, Counts, HandlerIsBusy,
       NothingLaunchedYet, AttemptsAreRefusals, SessionIsAnswered, FailureIsEarned,
       ReplyTellsLaunch, StoppedIsSeen, Launching, Terminating
  <2> QED
    BY <2>1, <2>2
<1> QED
  BY InitInv, <1>1, PTL DEF Spec

(* Every variable keeps its type; in particular a session makes no more than *)
(* maxAttempts launches and a wait no more polls than its timeout holds.     *)
THEOREM TypeCorrect == Spec => []TypeOK
  BY InvariantHolds, InvImplies, PTL

(* A session is given up only after maxAttempts refused launches of its own. *)
THEOREM FailuresAreEarned == Spec => []FailureIsEarned
  BY InvariantHolds, InvImplies, PTL

(* "launched!" is answered if and only if the application was launched in    *)
(* this request, and then it is the current one.                             *)
THEOREM RepliesTellLaunches == Spec => []ReplyTellsLaunch
  BY InvariantHolds, InvImplies, PTL

(* No application is left running before the timeout is over, unless it came *)
(* back.                                                                     *)
THEOREM TerminationsHadTime == Spec => TerminationHadTime
<1> DEFINE HadTime == (pc \in {"terminate", "report"} /\ (pc' = "launch" \/ reply' = "Running"))
                          => stopped \/ polls = MaxPolls
<1>1. Inv /\ [Next]_vars => [HadTime]_vars
  <2> SUFFICES ASSUME Inv, Next, pc = "terminate", pc' = "launch" \/ reply' = "Running"
               PROVE  stopped
    BY DEF Inv, StoppedIsSeen
  <2>1. application \notin running \/ reply' = reply
    BY DEF Next, Handler, Client, Device, terminate, waitUntilTrue, reportState,
       launchApplication, checkError, sleepBetween, postSession, receive, query,
       terminateApplicationWithIdentifier, terminateCurrentApplication, install, open, exit
  <2>2. application \notin running \/ pc' # "launch"
    BY DEF Next, Handler, Client, Device, terminate, waitUntilTrue, reportState,
       launchApplication, checkError, sleepBetween, postSession, receive, query,
       terminateApplicationWithIdentifier, terminateCurrentApplication, install, open, exit
  <2>3. application \notin running
    BY <2>1, <2>2 DEF Inv, Counts, HandlerIsBusy
  <2> QED
    BY <2>3 DEF Inv, StoppedIsSeen
<1> QED
  BY InvariantHolds, <1>1, PTL DEF Spec, TerminationHadTime
-------------------------------------------------------------------------------
(* How many steps the handler may still take: three for each attempt, after  *)
(* the polls of a termination.                                               *)
StepsLeft ==
    CASE pc = "terminate" -> 3 * MaxAttempts + MaxPolls + 3
      [] pc = "wait" -> 3 * MaxAttempts + (MaxPolls - polls) + 2
      [] pc = "report" -> 3 * MaxAttempts + 1
      [] pc = "launch" -> 3 * (MaxAttempts - attempts) + 3
      [] pc = "check" -> 3 * (MaxAttempts - attempts) + 2
      [] pc = "sleep" -> 3 * (MaxAttempts - attempts) + 1
      [] OTHER -> 0

MaxSteps == 3 * MaxAttempts + MaxPolls + 3

StepsAreCounted == /\ StepsLeft \in 0 .. MaxSteps
                   /\ StepsLeft = 0 <=> pc = "idle"

LEMMA WorkTypes ==
    ASSUME Inv
    PROVE  /\ MaxAttempts \in Nat \ {0} /\ MaxPolls \in Nat
           /\ polls \in 0 .. MaxPolls
           /\ attempts \in 1 .. MaxAttempts + 1
           /\ pc \in Launching => attempts <= MaxAttempts
           /\ pc \in Launching \cup Terminating \cup {"idle"}
  BY BoundTypes DEF Inv, Types, Counts, AttemptsAreRefusals

LEMMA WorkIsCounted == Inv => StepsAreCounted
<1> SUFFICES ASSUME Inv PROVE StepsAreCounted
  OBVIOUS
<1>1. CASE pc \in Launching
  <2>1. /\ MaxAttempts - attempts \in Nat /\ MaxAttempts - attempts < MaxAttempts
        /\ MaxAttempts \in Nat /\ MaxPolls \in Nat
    BY <1>1, WorkTypes
  <2> QED
    BY <1>1, <2>1 DEF StepsAreCounted, StepsLeft, MaxSteps, Launching
<1>2. CASE pc \in Terminating \cup {"idle"}
  <2>1. /\ MaxAttempts \in Nat /\ MaxPolls \in Nat
        /\ MaxPolls - polls \in 0 .. MaxPolls
    BY WorkTypes
  <2> QED
    BY <1>2, <2>1 DEF StepsAreCounted, StepsLeft, MaxSteps, Terminating
<1> QED
  BY <1>1, <1>2, WorkTypes

(* A termination that is over leaves the launches of a session, or nothing. *)
LEMMA TerminatedShrinksWork ==
    ASSUME Inv, terminated
    PROVE  StepsLeft' \in 0 .. 3 * MaxAttempts
<1>1. CASE request = "session"
  <2>1. pc' = "launch" /\ attempts' = 1
    BY <1>1 DEF terminated, startSession
  <2> QED
    BY <2>1, WorkTypes DEF StepsLeft
<1>2. CASE request # "session"
  <2>1. pc' = "idle"
    BY <1>2 DEF terminated, answer
  <2> QED
    BY <2>1, WorkTypes DEF StepsLeft
<1> QED
  BY <1>1, <1>2

LEMMA HandlerShrinksWork ==
    ASSUME Inv, Handler
    PROVE  pc # "idle" /\ StepsLeft' < StepsLeft
<1>1. CASE terminate
  <2>1. pc = "terminate" /\ StepsLeft = 3 * MaxAttempts + MaxPolls + 3
    BY <1>1 DEF terminate, StepsLeft
  <2>2. CASE application \notin running
    BY <1>1, <2>1, <2>2, WorkTypes, TerminatedShrinksWork DEF terminate
  <2>3. CASE application \in running
    <3>1. pc' = "wait" /\ polls' = 0
      BY <1>1, <2>3 DEF terminate
    <3> QED
      BY <2>1, <3>1, WorkTypes DEF StepsLeft
  <2> QED
    BY <2>2, <2>3
<1>2. CASE waitUntilTrue
  <2>1. pc = "wait" /\ StepsLeft = 3 * MaxAttempts + (MaxPolls - polls) + 2
    BY <1>2 DEF waitUntilTrue, StepsLeft
  <2>2. \/ pc' = "wait" /\ polls' = polls + 1
        \/ pc' = "report"
    BY <1>2 DEF waitUntilTrue
  <2> QED
    BY <2>1, <2>2, WorkTypes DEF StepsLeft
<1>3. CASE reportState
  <2>1. pc = "report" /\ StepsLeft = 3 * MaxAttempts + 1
    BY <1>3 DEF reportState, StepsLeft
  <2> QED
    BY <1>3, <2>1, WorkTypes, TerminatedShrinksWork DEF reportState
<1>4. CASE launchApplication
  <2>1. pc = "launch" /\ pc' = "check" /\ attempts' = attempts
    BY <1>4 DEF launchApplication
  <2> QED
    BY <2>1, WorkTypes DEF StepsLeft
<1>5. CASE checkError
  <2>1. pc = "check" /\ attempts' = attempts /\ pc' \in {"idle", "sleep"}
    BY <1>5 DEF checkError, answer, session
  <2>2. attempts <= MaxAttempts
    BY <2>1, WorkTypes DEF Launching
  <2> QED
    BY <2>1, <2>2, WorkTypes DEF StepsLeft
<1>6. CASE sleepBetween
  <2>1. pc = "sleep" /\ attempts' = attempts + 1 /\ pc' \in {"idle", "launch"}
    BY <1>6 DEF sleepBetween, answer
  <2>2. attempts <= MaxAttempts
    BY <2>1, WorkTypes DEF Launching
  <2> QED
    BY <2>1, <2>2, WorkTypes DEF StepsLeft
<1> QED
  BY <1>1, <1>2, <1>3, <1>4, <1>5, <1>6 DEF Handler

(* What is not a step of the handler leaves its work as it is. *)
LEMMA OthersLeaveWork ==
    ASSUME [Next]_vars, ~Handler, pc # "idle"
    PROVE  UNCHANGED <<pc, StepsLeft>>
<1>1. UNCHANGED <<pc, polls, attempts>>
  BY DEF Next, Client, postSession, terminateApplicationWithIdentifier,
         terminateCurrentApplication, query, receive, Device, install, open, exit,
         vars, session
<1> QED
  BY <1>1 DEF StepsLeft

(* The work of a request is bounded by the attempts and the polls, whatever   *)
(* the device does: each step of its handler is one of at most               *)
(* 3 * maxAttempts + polls + 3 (Application.m:49-72,88-107).                 *)
WorkShrinks ==
    [][/\ Handler => pc # "idle" /\ StepsLeft' < StepsLeft
       /\ ~Handler /\ pc # "idle" => UNCHANGED <<pc, StepsLeft>>]_vars

THEOREM RequestsAreBounded == Spec => []StepsAreCounted /\ WorkShrinks
<1>1. Inv /\ [Next]_vars =>
          /\ Handler => pc # "idle" /\ StepsLeft' < StepsLeft
          /\ ~Handler /\ pc # "idle" => UNCHANGED <<pc, StepsLeft>>
  BY HandlerShrinksWork, OthersLeaveWork
<1> QED
  BY <1>1, InvariantHolds, WorkIsCounted, PTL DEF Spec, WorkShrinks

-------------------------------------------------------------------------------
(***************************************************************************)
(* Steps are put together by doubling.  Induction over their number would  *)
(* reach any number, but TLA+ has no set of the numbers for which a        *)
(* temporal formula fails; forty doublings reach 2^40 steps, far more than  *)
(* a request ever takes.                                                   *)
(***************************************************************************)
Reach == 1099511627776

(* The handler can take a step as long as it has not answered.  The provers   *)
(* do not expand ENABLED; RequestReturns of a run shows it for its instance. *)
NeverStuck == pc # "idle" => ENABLED <<Handler>>_vars

ReturnsWithin(n) ==
    FairSpec /\ []NeverStuck => [](StepsLeft <= n => <>(pc = "idle"))

LEMMA ReturnsAtOnce == ReturnsWithin(0)
<1>1. Inv /\ StepsLeft <= 0 => pc = "idle"
  <2> SUFFICES ASSUME Inv, StepsLeft <= 0 PROVE pc = "idle"
    OBVIOUS
  <2>1. StepsAreCounted /\ MaxSteps \in Nat
    BY WorkIsCounted, BoundTypes DEF MaxSteps
  <2> QED
    BY <2>1 DEF StepsAreCounted
<1> QED
  BY <1>1, InvariantHolds, PTL DEF ReturnsWithin, FairSpec

(* With one more step left, fairness makes the handler take it. *)
LEMMA ReturnsAStepLater ==
    ASSUME NEW n \in Nat
    PROVE  ReturnsWithin(n) => ReturnsWithin(n + 1)
<1>0. Inv => StepsLeft \in Nat /\ (StepsLeft = 0 <=> pc = "idle")
  <2>1. MaxSteps \in Nat
    BY BoundTypes DEF MaxSteps
  <2> QED
    BY <2>1, WorkIsCounted DEF StepsAreCounted
<1>1. Inv /\ StepsLeft <= n + 1 => StepsLeft <= n \/ StepsLeft = n + 1
  BY <1>0
<1>2. Inv /\ StepsLeft = n + 1 => pc # "idle"
  BY <1>0
<1>3. Inv /\ Inv' /\ StepsLeft = n + 1 /\ Handler => (StepsLeft <= n)'
  <2> SUFFICES ASSUME Inv, Inv', StepsLeft = n + 1, Handler PROVE (StepsLeft <= n)'
    OBVIOUS
  <2>1. StepsLeft' < n + 1
    BY HandlerShrinksWork
  <2>2. Inv' => (StepsLeft \in Nat)'
    BY <1>0, PTL
  <2> QED
    BY <2>1, <2>2
<1>4. Inv /\ Inv' /\ StepsLeft = n + 1 /\ [Next]_vars
          => (StepsLeft = n + 1)' \/ (StepsLeft <= n)'
  BY <1>2, <1>3, OthersLeaveWork
<1>5. Inv /\ StepsLeft = n + 1 /\ NeverStuck => ENABLED <<Handler>>_vars
  BY <1>2 DEF NeverStuck
<1> QED
  BY <1>1, <1>3, <1>4, <1>5, InvariantHolds, PTL DEF ReturnsWithin, FairSpec, Spec

Carries(k) == \A n \in Nat : ReturnsWithin(n) => ReturnsWithin(n + k)

LEMMA CarriesTwice == ASSUME NEW k \in Nat PROVE Carries(k) => Carries(k + k)
<1> SUFFICES ASSUME Carries(k), NEW n \in Nat, ReturnsWithin(n) PROVE ReturnsWithin(n + (k + k))
  BY DEF Carries
<1> HIDE DEF ReturnsWithin
<1>1. ReturnsWithin(n + k)
  BY DEF Carries
<1>2. n + k \in Nat /\ (n + k) + k = n + (k + k)
  OBVIOUS
<1>3. ReturnsWithin((n + k) + k)
  BY <1>1, <1>2 DEF Carries
<1> QED
  BY <1>2, <1>3

LEMMA ReturnsWithinReach == ReturnsWithin(Reach)
<1>1. Carries(1)
  BY ReturnsAStepLater DEF Carries
<1> HIDE DEF Carries
<1>2. Carries(16)
  BY <1>1, CarriesTwice
<1>3. Carries(256)
  BY <1>2, CarriesTwice
<1>4. Carries(4096)
  BY <1>3, CarriesTwice
<1>5. Carries(65536)
  BY <1>4, CarriesTwice
<1>6. Carries(1048576)
  BY <1>5, CarriesTwice
<1>7. Carries(16777216)
  BY <1>6, CarriesTwice
<1>8. Carries(268435456)
  BY <1>7, CarriesTwice
<1>9. Carries(4294967296)
  BY <1>8, CarriesTwice
<1>10. Carries(68719476736)
  BY <1>9, CarriesTwice
<1>11. Carries(1099511627776)
  BY <1>10, CarriesTwice
<1>12. ReturnsWithin(0 + 1099511627776)
  BY <1>11, ReturnsAtOnce DEF Carries
<1> QED
  BY <1>12 DEF Reach

(* Every request is answered, however often launches are refused and however *)
(* long applications take to terminate, if the main thread goes on with its  *)
(* handler.                                                                  *)
THEOREM RequestsReturn ==
    ASSUME MaxSteps <= Reach
    PROVE  FairSpec /\ []NeverStuck => RequestReturns
<1>1. MaxSteps \in Nat
  BY BoundTypes DEF MaxSteps
<1>2. ReturnsWithin(Reach)
  BY ReturnsWithinReach
<1>3. Inv => StepsLeft <= Reach
  BY WorkIsCounted, <1>1 DEF StepsAreCounted, Reach
<1> QED
  BY <1>2, <1>3, InvariantHolds, PTL DEF ReturnsWithin, FairSpec, RequestReturns
===============================================================================
