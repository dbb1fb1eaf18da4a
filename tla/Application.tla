------------------------------ MODULE Application ------------------------------
(***************************************************************************)
(* The application under test: how POST /session launches it, how DELETE   *)
(* /session and POST /terminate end it, and which application the queries  *)
(* are sent to.                                                            *)
(*                                                                         *)
(* The device goes on while a handler waits: applications are installed,   *)
(* started by somebody else, and exit or crash.  testmanagerd may refuse   *)
(* to launch an application that is there ("In some contexts, the          *)
(* application has not been completely installed", Application.m:36), and  *)
(* one that is asked to terminate may take its time.                       *)
(***************************************************************************)
EXTENDS Integers

CONSTANTS Bundle,       \* bundle identifiers
          NoApp,        \* the currentApplication before the first session
          MaxAttempts,  \* maxAttempts of startSession: 12 in the code
          MaxPolls      \* polls within the timeout of CBXWaiter: 10 s, 0.1 s each

ASSUME ApplicationAssumption ==
    /\ NoApp \notin Bundle
    /\ MaxAttempts \in Nat \ {0}
    /\ MaxPolls \in Nat

VARIABLES
    installed, running, \* the device: what is installed, what runs
    currentApplication,
    pc,            \* where the handler of the request waits
    request,       \* its route
    application,   \* the XCUIApplication it is about
    attempts, outerError, \* of startSession
    polls,         \* of CBXWaiter
    reply,         \* what the last request was answered
    sessions,      \* the applications testmanagerd has launched for a session
    \* What happened since the request came:
    refused,       \* launches testmanagerd has refused
    launched,      \* testmanagerd has launched the application
    stopped        \* the application was not running at some time

device == <<installed, running>>
session == <<attempts, outerError>>
history == <<refused, launched, stopped>>
vars == <<device, currentApplication, pc, request, application, session, polls,
          reply, sessions, history>>

Init ==
    /\ installed \in SUBSET Bundle
    /\ running \in SUBSET installed
    /\ currentApplication = NoApp
    /\ pc = "idle"
    /\ request = "none"
    /\ application = NoApp
    /\ attempts = 1
    /\ outerError = FALSE
    /\ polls = 0
    /\ reply = "none"
    /\ sessions = {}
    /\ refused = 0
    /\ launched = FALSE
    /\ stopped = TRUE

-------------------------------------------------------------------------------
(* The device.                                                             *)

Runs(apps) ==
    /\ running' = apps
    /\ stopped' = (stopped \/ application \notin apps)

install(b) ==
    /\ b \notin installed
    /\ installed' = installed \cup {b}
    /\ UNCHANGED <<running, currentApplication, pc, request, application, session,
                   polls, reply, sessions, history>>

open(b) ==
    /\ b \in installed \ running
    /\ Runs(running \cup {b})
    /\ UNCHANGED <<installed, currentApplication, pc, request, application, session,
                   polls, reply, sessions, refused, launched>>

exit(b) ==
    /\ b \in running
    /\ Runs(running \ {b})
    /\ UNCHANGED <<installed, currentApplication, pc, request, application, session,
                   polls, reply, sessions, refused, launched>>

-------------------------------------------------------------------------------
answer(r) ==
    /\ reply' = r
    /\ pc' = "idle"

(* A request comes; its handler goes on at step for application b. *)
receive(route, b) ==
    /\ pc = "idle"
    /\ request' = route
    /\ application' = b
    /\ refused' = 0
    /\ launched' = FALSE
    /\ stopped' = (b \notin running)
    /\ UNCHANGED <<device, sessions>>

(* launchAppWithBundleId makes the application current, and only then begins *)
(* to launch it.                                                             *)
startSession(b) ==
    /\ currentApplication' = b
    /\ attempts' = 1
    /\ outerError' = FALSE
    /\ pc' = "launch"

postSession(b, terminateIfRunning) ==
    /\ receive("session", b)
    /\ reply' = "none"
    /\ UNCHANGED polls
    /\ \/ /\ terminateIfRunning
          /\ pc' = "terminate"
          /\ UNCHANGED <<currentApplication, session>>
       \/ ~terminateIfRunning /\ startSession(b)

terminateCurrentApplication ==
    /\ receive("delete", currentApplication)
    /\ UNCHANGED <<currentApplication, session, polls>>
    /\ \/ currentApplication = NoApp /\ answer("NotRunning")
       \/ currentApplication # NoApp /\ pc' = "terminate" /\ reply' = "none"

terminateApplicationWithIdentifier(b) ==
    /\ receive("terminate", b)
    /\ pc' = "terminate"
    /\ reply' = "none"
    /\ UNCHANGED <<currentApplication, session, polls>>

(* /query: the current application must not be nil. *)
query ==
    /\ receive("query", currentApplication)
    /\ IF currentApplication = NoApp THEN answer("nil") ELSE answer("results")
    /\ UNCHANGED <<currentApplication, session, polls>>

-------------------------------------------------------------------------------
(* terminateApplication.                                                   *)

(* What becomes of its result: the session does not look at it. *)
terminated ==
    \/ /\ request = "session"
       /\ startSession(application)
       /\ UNCHANGED reply
    \/ /\ request # "session"
       /\ answer(IF application \in running THEN "Running" ELSE "NotRunning")
       /\ UNCHANGED <<currentApplication, session>>

(* An application that is not running is not asked to terminate; one that is *)
(* may be gone when terminate returns, or not.                               *)
terminate ==
    /\ pc = "terminate"
    /\ UNCHANGED <<installed, request, application, sessions, refused, launched>>
    /\ \/ /\ application \notin running
          /\ terminated
          /\ UNCHANGED <<running, stopped, polls>>
       \/ /\ application \in running
          /\ pc' = "wait"
          /\ polls' = 0
          /\ \/ Runs(running \ {application})
             \/ Runs(running)
          /\ UNCHANGED <<currentApplication, session, reply>>

(* Fault: the loop of the waiter runs while the block is true. *)
WaitsTheWrongWay ==
    /\ pc = "wait"
    /\ UNCHANGED <<device, currentApplication, request, application, session,
                   reply, sessions, history>>
    /\ \/ /\ application \notin running
          /\ polls < MaxPolls
          /\ polls' = polls + 1
          /\ UNCHANGED pc
       \/ /\ application \in running \/ polls = MaxPolls
          /\ pc' = "report"
          /\ UNCHANGED polls

(* Fault: the timeout is not looked at. *)
WaitsForEver ==
    /\ pc = "wait"
    /\ UNCHANGED <<device, currentApplication, request, application, session,
                   reply, sessions, history>>
    /\ \/ /\ application \in running
          /\ polls' = IF polls < MaxPolls THEN polls + 1 ELSE polls
          /\ UNCHANGED pc
       \/ /\ application \notin running
          /\ pc' = "report"
          /\ UNCHANGED polls

(* One turn of CBXWaiter: it polls until the block is true or time is up. *)
waitUntilTrue ==
    /\ pc = "wait"
    /\ UNCHANGED <<device, currentApplication, request, application, session,
                   reply, sessions, history>>
    /\ \/ /\ application \in running
          /\ polls < MaxPolls
          /\ polls' = polls + 1
          /\ UNCHANGED pc
       \/ /\ application \notin running \/ polls = MaxPolls
          /\ pc' = "report"
          /\ UNCHANGED polls

(* What the wait has found is not used: the state is read again. *)
reportState ==
    /\ pc = "report"
    /\ terminated
    /\ UNCHANGED <<device, request, application, polls, sessions, history>>

-------------------------------------------------------------------------------
(* startSession.                                                           *)

(* Fault: the error of an attempt is never cleared. *)
KeepsTheError(innerError) ==
    outerError' = (outerError \/ innerError)

(* The completion of the launch request, on a queue of testmanagerd's        *)
(* connection, while runSync polls.                                          *)
completion(innerError) ==
    outerError' = innerError

launchApplication ==
    /\ pc = "launch"
    /\ \/ /\ application \in installed
          /\ Runs(running \cup {application})
          /\ launched' = TRUE
          /\ sessions' = sessions \cup {application}
          /\ UNCHANGED refused
          /\ completion(FALSE)
       \/ /\ refused' = refused + 1
          /\ UNCHANGED <<running, launched, stopped, sessions>>
          /\ completion(TRUE)
    /\ pc' = "check"
    /\ UNCHANGED <<installed, currentApplication, request, application, attempts,
                   polls, reply>>

checkError ==
    /\ pc = "check"
    /\ \/ ~outerError /\ answer("launched!")
       \/ outerError /\ pc' = "sleep" /\ UNCHANGED reply
    /\ UNCHANGED <<device, currentApplication, request, application, session,
                   polls, sessions, history>>

(* Fault: the loop ends one attempt early. *)
StopsShort ==
    /\ pc = "sleep"
    /\ attempts' = attempts + 1
    /\ \/ attempts' < MaxAttempts /\ pc' = "launch" /\ UNCHANGED reply
       \/ attempts' >= MaxAttempts /\ answer("failed")
    /\ UNCHANGED <<device, currentApplication, request, application, outerError,
                   polls, sessions, history>>

(* Fault: one attempt too many. *)
TriesOnceMore ==
    /\ pc = "sleep"
    /\ attempts' = attempts + 1
    /\ \/ attempts' <= MaxAttempts + 1 /\ pc' = "launch" /\ UNCHANGED reply
       \/ attempts' > MaxAttempts + 1 /\ answer("failed")
    /\ UNCHANGED <<device, currentApplication, request, application, outerError,
                   polls, sessions, history>>

(* Five seconds of run loop, after the last attempt too. *)
sleepBetween ==
    /\ pc = "sleep"
    /\ attempts' = attempts + 1
    /\ \/ attempts' < MaxAttempts + 1 /\ pc' = "launch" /\ UNCHANGED reply
       \/ attempts' >= MaxAttempts + 1 /\ answer("failed")
    /\ UNCHANGED <<device, currentApplication, request, application, outerError,
                   polls, sessions, history>>

-------------------------------------------------------------------------------
Handler ==
    \/ terminate \/ waitUntilTrue \/ reportState
    \/ launchApplication \/ checkError \/ sleepBetween

Client ==
    \/ \E b \in Bundle : \/ \E t \in BOOLEAN : postSession(b, t)
                         \/ terminateApplicationWithIdentifier(b)
    \/ terminateCurrentApplication \/ query

Device == \E b \in Bundle : install(b) \/ open(b) \/ exit(b)

Next == Handler \/ Client \/ Device

Spec == Init /\ [][Next]_vars

(* The main thread goes on with its handler, and testmanagerd answers. *)
FairSpec == Spec /\ WF_vars(Handler)

-------------------------------------------------------------------------------
TypeOK ==
    /\ installed \subseteq Bundle
    /\ running \subseteq installed
    /\ currentApplication \in Bundle \cup {NoApp}
    /\ pc \in {"idle", "terminate", "wait", "report", "launch", "check", "sleep"}
    /\ request \in {"none", "session", "delete", "terminate", "query"}
    /\ application \in Bundle \cup {NoApp}
    /\ attempts \in 1 .. MaxAttempts + 1
    /\ outerError \in BOOLEAN
    /\ polls \in 0 .. MaxPolls
    /\ reply \in {"none", "launched!", "failed", "NotRunning", "Running", "nil", "results"}
    /\ sessions \subseteq Bundle
    /\ refused \in 0 .. MaxAttempts
    /\ launched \in BOOLEAN
    /\ stopped \in BOOLEAN

(* A session is given up only after maxAttempts launches were refused, each  *)
(* of them in this request (the loop of startSession, Application.m:49-72).  *)
FailureIsEarned == reply = "failed" => refused = MaxAttempts

(* A client is told "launched!" if and only if testmanagerd launched the     *)
(* application in this request, and it is the one queries go to              *)
(* (SessionRoutes.m:31, Application.m:188).                                  *)
ReplyTellsLaunch ==
    request = "session" /\ reply # "none" =>
        /\ (reply = "launched!") <=> launched
        /\ currentApplication = application

(* terminateApplication leaves an application running, whether it says so to  *)
(* the client or goes on to launch it, only if the application had the whole *)
(* timeout to end or has come back since (Application.m:107).                *)
TerminationHadTime ==
    [][(pc \in {"terminate", "report"} /\ (pc' = "launch" \/ reply' = "Running"))
           => stopped \/ polls = MaxPolls]_vars

(* Every request is answered, however often launches are refused and however *)
(* long applications take to terminate.                                      *)
RequestReturns == pc # "idle" ~> pc = "idle"
===============================================================================
