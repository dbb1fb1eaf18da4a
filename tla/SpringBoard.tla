------------------------------ MODULE SpringBoard ------------------------------
(***************************************************************************)
(* How DeviceAgent deals with SpringBoard's alerts: the handleAlertsOrThrow *)
(* that every /gesture, /query and /tree request begins with, the routes   *)
(* that dismiss alerts on demand and the switch between the two modes.     *)
(*                                                                         *)
(* A route handler looks at the screen many times, and SpringBoard goes on *)
(* showing and removing alerts between two looks.  XCUIElements are not    *)
(* objects of the screen but queries: "the first alert" and "its button    *)
(* named OK" are resolved again at every use.  One step of the handler is  *)
(* one look, or one touch.                                                 *)
(***************************************************************************)
EXTENDS Integers, Sequences

CONSTANTS Alert,       \* the alerts SpringBoard may show
          Title,       \* the titles of their buttons
          NoTitle,     \* the title field of a button that is known by its index
          Buttons,     \* the button titles of each alert, in order
          Entry,       \* SpringBoardAlerts: recognized alerts to their entries
          MaxTries,    \* maxTries of handleAlertsOrThrow: 20 in the code
          MaxShowing   \* bound: alerts on the screen at a time

ASSUME AlertAssumption ==
    /\ NoTitle \notin Title
    /\ Buttons \in [Alert -> Seq(Title)]
    /\ DOMAIN Entry \subseteq Alert
    /\ \A a \in DOMAIN Entry : /\ Entry[a].marks \in Seq(Title)
                               /\ Entry[a].shouldAccept \in BOOLEAN
    /\ MaxTries \in Nat \ {0}
    /\ MaxShowing \in Nat \ {0}

Recognized == DOMAIN Entry

VARIABLES
    showing,    \* the alerts on the screen, the one queries find first in front
    shouldDismissAlertsAutomatically,
    request,    \* the request being handled, or "none"
    pc,         \* the next look or touch of its handler
    alertTitle, \* the alert whose entry handleAlert has looked up, or "none"
    button,     \* the query for the button to touch
    looping,    \* handleAlertsOrThrow is in its while loop
    try,        \* its counter
    reply,      \* what the last request was answered
    \* What has happened since the request came:
    still,      \* no alert has come or gone by itself
    obeyed      \* no touch has raised or gone unheard

callVars == <<alertTitle, button, looping, try>>
history == <<still, obeyed>>
vars == <<showing, shouldDismissAlertsAutomatically, request, pc, callVars, reply,
          history>>

ByTitle(t) == [title |-> t, index |-> 0]
ByIndex(i) == [title |-> NoTitle, index |-> i]
NoButton == ByIndex(0)

(* Which buttons of the alert a button query matches. *)
Matches(b, a) == {i \in DOMAIN Buttons[a] :
                     IF b.title = NoTitle THEN i = b.index ELSE Buttons[a][i] = b.title}

inFront == IF showing = <<>> THEN {} ELSE {Head(showing)}

Present(b) == showing # <<>> /\ Matches(b, Head(showing)) # {}

Init ==
    /\ showing = <<>>
    /\ shouldDismissAlertsAutomatically = TRUE
    /\ request = "none"
    /\ pc = "idle"
    /\ alertTitle = "none"
    /\ button = NoButton
    /\ looping = FALSE
    /\ try = 0
    /\ reply = "none"
    /\ still = TRUE
    /\ obeyed = TRUE

-------------------------------------------------------------------------------
(* SpringBoard.                                                            *)

ChangesByItself(screen) ==
    /\ showing' = screen
    /\ still' = FALSE
    /\ UNCHANGED <<shouldDismissAlertsAutomatically, request, pc, callVars, reply, obeyed>>

(* An alert pops up, over the alert that is showing or queued under it. *)
appear(a) ==
    /\ Len(showing) < MaxShowing
    /\ \A i \in DOMAIN showing : showing[i] # a
    /\ \/ ChangesByItself(<<a>> \o showing)
       \/ ChangesByItself(Append(showing, a))

(* The alert in front goes away by itself: a user, a timeout, the system. *)
vanish ==
    /\ showing # <<>>
    /\ ChangesByItself(Tail(showing))

(* The touch of a button that is there dismisses its alert, or does nothing. *)
touch(b) ==
    /\ Present(b)
    /\ \/ showing' = Tail(showing) /\ UNCHANGED obeyed
       \/ UNCHANGED showing /\ obeyed' = FALSE
    /\ UNCHANGED still

(* XCTest raises when the button is gone, or for reasons of its own. *)
raises == obeyed' = FALSE /\ UNCHANGED <<showing, still>>

-------------------------------------------------------------------------------
(* handleAlertsOrThrow.                                                    *)

answer(r) ==
    /\ reply' = r
    /\ request' = "none"
    /\ pc' = "idle"

(* Fault: the counter may reach maxTries and go on. *)
OverrunsTheLimit(result) ==
    IF result = "NoAlert" /\ ~looping
    THEN pc' = "act" /\ UNCHANGED <<looping, try, request, reply>>
    ELSE /\ looping' = TRUE
         /\ try' = IF looping /\ result # "UnrecognizedAlert" THEN try + 1 ELSE try
         /\ IF looping /\ (result = "UnrecognizedAlert" \/ try' > MaxTries)
            THEN answer("blocked")
            ELSE /\ pc' = IF result = "NoAlert" THEN "act" ELSE "query"
                 /\ UNCHANGED <<request, reply>>

(* Fault: a failed touch is tried again without being counted. *)
RetriesForFree(result) ==
    IF result = "NoAlert" /\ ~looping
    THEN pc' = "act" /\ UNCHANGED <<looping, try, request, reply>>
    ELSE /\ looping' = TRUE
         /\ try' = IF looping /\ result # "Failed" THEN try + 1 ELSE try
         /\ IF looping /\ (result = "UnrecognizedAlert" \/ try' = MaxTries)
            THEN answer("blocked")
            ELSE /\ pc' = IF result = "NoAlert" THEN "act" ELSE "query"
                 /\ UNCHANGED <<request, reply>>

(* The result of the first call only decides whether the loop is entered;    *)
(* in the loop an unrecognized alert breaks out before the counter, and the  *)
(* count alone decides about the exception, whatever the last result was.    *)
current(result) ==
    IF result = "NoAlert" /\ ~looping
    THEN pc' = "act" /\ UNCHANGED <<looping, try, request, reply>>
    ELSE /\ looping' = TRUE
         /\ try' = IF looping /\ result # "UnrecognizedAlert" THEN try + 1 ELSE try
         /\ IF looping /\ (result = "UnrecognizedAlert" \/ try' = MaxTries)
            THEN answer("blocked")
            ELSE /\ pc' = IF result = "NoAlert" THEN "act" ELSE "query"
                 /\ UNCHANGED <<request, reply>>

quiet == UNCHANGED <<showing, shouldDismissAlertsAutomatically, history>>

(* handleAlert asks for the first alert. *)
queryForAlert ==
    /\ pc = "query"
    /\ quiet
    /\ UNCHANGED <<alertTitle, button>>
    /\ \/ showing = <<>> /\ current("NoAlert")
       \/ showing # <<>> /\ pc' = "match" /\ UNCHANGED <<looping, try, request, reply>>

(* Fault: the entry of the last alert is used for one that has none. *)
KeepsTheLastEntry ==
    /\ pc = "match"
    /\ quiet
    /\ UNCHANGED button
    /\ IF alertTitle # "none" \/ inFront \cap Recognized # {}
       THEN /\ alertTitle' = IF inFront \cap Recognized = {} THEN alertTitle
                                                           ELSE Head(showing)
            /\ pc' = "find"
            /\ UNCHANGED <<looping, try, request, reply>>
       ELSE UNCHANGED alertTitle /\ current("UnrecognizedAlert")

(* It reads the alert's label and looks it up.  The label of an alert that   *)
(* is gone is empty and matches nothing, or nil, which NSRegularExpression   *)
(* answers with an exception.                                                *)
alertMatchingTitle ==
    /\ pc = "match"
    /\ quiet
    /\ UNCHANGED button
    /\ \/ /\ inFront \cap Recognized # {}
          /\ alertTitle' = Head(showing)
          /\ pc' = "find"
          /\ UNCHANGED <<looping, try, request, reply>>
       \/ /\ inFront \cap Recognized = {}
          /\ current("UnrecognizedAlert")
          /\ UNCHANGED alertTitle
       \/ /\ showing = <<>>
          /\ answer("500")
          /\ UNCHANGED <<alertTitle, looping, try>>

(* Fault: the loop over the marks returns with its first turn. *)
OnlyTheFirstMark ==
    /\ pc = "find"
    /\ quiet
    /\ UNCHANGED alertTitle
    /\ \/ /\ showing = <<>>
          /\ current("NoAlert")
          /\ UNCHANGED button
       \/ /\ showing # <<>>
          /\ UNCHANGED <<looping, try, request, reply>>
          /\ LET mark == ByTitle(Head(Entry[alertTitle].marks)) IN
             IF Present(mark)
             THEN button' = mark /\ pc' = "resolve"
             ELSE UNCHANGED button /\ pc' = "default"

(* It takes the first mark of the entry that names a button of the alert... *)
findDismissButtonOnAlert ==
    /\ pc = "find"
    /\ quiet
    /\ UNCHANGED alertTitle
    /\ LET marks == Entry[alertTitle].marks
           found == {m \in DOMAIN marks : Present(ByTitle(marks[m]))}
       IN
       \/ /\ showing = <<>>
          /\ current("NoAlert")
          /\ UNCHANGED button
       \/ /\ showing # <<>>
          /\ UNCHANGED <<looping, try, request, reply>>
          /\ \/ \E m \in found : /\ \A k \in found : m <= k
                                /\ button' = ByTitle(marks[m])
                                /\ pc' = "resolve"
             \/ found = {} /\ pc' = "default" /\ UNCHANGED button

(* The button that accepts, by the number of buttons: the second of two or *)
(* three, the last of any other number.                                     *)
defaultIndex(shouldAccept, n) ==
    IF ~shouldAccept THEN 1 ELSE IF n = 3 THEN 2 ELSE n

(* ...or else one of its buttons by their number. *)
defaultButton ==
    /\ pc = "default"
    /\ quiet
    /\ UNCHANGED alertTitle
    /\ LET n == IF showing = <<>> THEN 0 ELSE Len(Buttons[Head(showing)]) IN
       \/ n = 0 /\ current("NoAlert") /\ UNCHANGED button
       \/ /\ n > 0
          /\ button' = ByIndex(defaultIndex(Entry[alertTitle].shouldAccept, n))
          /\ pc' = "resolve"
          /\ UNCHANGED <<looping, try, request, reply>>

resolve ==
    /\ pc = "resolve"
    /\ quiet
    /\ UNCHANGED <<alertTitle, button>>
    /\ \/ ~Present(button) /\ current("NoAlert")
       \/ Present(button) /\ pc' = "tap" /\ UNCHANGED <<looping, try, request, reply>>

(* Fault: an exception of the touch is taken for the absence of an alert. *)
IgnoresFailure ==
    /\ pc = "tap"
    /\ UNCHANGED <<shouldDismissAlertsAutomatically, alertTitle, button>>
    /\ \/ raises /\ current("NoAlert")
       \/ touch(button) /\ current("DismissedAlert")

tap ==
    /\ pc = "tap"
    /\ UNCHANGED <<shouldDismissAlertsAutomatically, alertTitle, button>>
    /\ \/ raises /\ current("Failed")
       \/ touch(button) /\ current("DismissedAlert")

(* Fault: the switch is not looked at. *)
IgnoresTheSwitch(kind) ==
    /\ pc = "idle"
    /\ request' = kind
    /\ pc' = "query"
    /\ looping' = FALSE
    /\ try' = 0
    /\ reply' = "none"
    /\ still' = TRUE
    /\ obeyed' = TRUE
    /\ UNCHANGED <<showing, shouldDismissAlertsAutomatically, alertTitle, button>>

(* Fault: the call before the loop is counted. *)
CountsTheFirstCall(kind) ==
    /\ pc = "idle"
    /\ request' = kind
    /\ pc' = IF shouldDismissAlertsAutomatically THEN "query" ELSE "act"
    /\ looping' = FALSE
    /\ try' = 1
    /\ reply' = "none"
    /\ still' = TRUE
    /\ obeyed' = TRUE
    /\ UNCHANGED <<showing, shouldDismissAlertsAutomatically, alertTitle, button>>

(* A request whose handler begins with handleAlertsOrThrow: a /gesture, which *)
(* stands for /query and /tree too, or /dismiss-springboard-alerts.           *)
handleAlertsOrThrow(kind) ==
    /\ pc = "idle"
    /\ request' = kind
    /\ pc' = IF shouldDismissAlertsAutomatically THEN "query" ELSE "act"
    /\ looping' = FALSE
    /\ try' = 0
    /\ reply' = "none"
    /\ still' = TRUE
    /\ obeyed' = TRUE
    /\ UNCHANGED <<showing, shouldDismissAlertsAutomatically, alertTitle, button>>

(* handleAlertsOrThrow has returned. *)
executeGesture ==
    /\ pc = "act"
    /\ request = "gesture"
    /\ answer("success")
    /\ quiet
    /\ UNCHANGED callVars

dismissAlerts ==
    /\ pc = "act"
    /\ request = "dismiss-alerts"
    /\ answer("no alerts")
    /\ quiet
    /\ UNCHANGED callVars

-------------------------------------------------------------------------------
(* /dismiss-springboard-alert: dismissAlertByTappingButtonWithTitle:.      *)

dismissAlert(t) ==
    /\ pc = "idle"
    /\ request' = "dismiss-alert"
    /\ pc' = "askQuery"
    /\ button' = ByTitle(t)
    /\ reply' = "none"
    /\ still' = TRUE
    /\ obeyed' = TRUE
    /\ UNCHANGED <<showing, shouldDismissAlertsAutomatically, alertTitle, looping, try>>

askQuery ==
    /\ pc = "askQuery"
    /\ quiet
    /\ UNCHANGED callVars
    /\ \/ showing = <<>> /\ answer("NoAlert")
       \/ showing # <<>> /\ pc' = "askResolve" /\ UNCHANGED <<request, reply>>

askResolve ==
    /\ pc = "askResolve"
    /\ quiet
    /\ UNCHANGED callVars
    /\ \/ ~Present(button) /\ answer("NoMatchingButton")
       \/ Present(button) /\ pc' = "askTap" /\ UNCHANGED <<request, reply>>

(* The touch is not protected: what it raises is answered by handleRequest-  *)
(* AndExceptions with status 500.                                            *)
askTap ==
    /\ pc = "askTap"
    /\ UNCHANGED <<shouldDismissAlertsAutomatically, callVars>>
    /\ \/ raises /\ answer("500")
       \/ touch(button) /\ answer("DismissedAlert")

(* /set-dismiss-springboard-alerts-automatically *)
setDismissAutomatically(value) ==
    /\ pc = "idle"
    /\ shouldDismissAlertsAutomatically' = value
    /\ UNCHANGED <<showing, request, pc, callVars, reply, history>>

-------------------------------------------------------------------------------
Handler ==
    \/ queryForAlert \/ alertMatchingTitle \/ findDismissButtonOnAlert
    \/ defaultButton \/ resolve \/ tap \/ executeGesture \/ dismissAlerts
    \/ askQuery \/ askResolve \/ askTap

Client ==
    \/ \E kind \in {"gesture", "dismiss-alerts"} : handleAlertsOrThrow(kind)
    \/ \E t \in Title : dismissAlert(t)
    \/ \E value \in BOOLEAN : setDismissAutomatically(value)

Next == Handler \/ Client \/ vanish \/ \E a \in Alert : appear(a)

Spec == Init /\ [][Next]_vars

(* The main thread goes on with the handler it runs; SpringBoard and the   *)
(* clients owe nothing.                                                    *)
FairSpec == Spec /\ WF_vars(Handler)

-------------------------------------------------------------------------------
Looking == {"query", "match", "find", "default", "resolve", "tap"}
Asking == {"askQuery", "askResolve", "askTap"}

TypeOK ==
    /\ showing \in Seq(Alert)
    /\ shouldDismissAlertsAutomatically \in BOOLEAN
    /\ request \in {"none", "gesture", "dismiss-alerts", "dismiss-alert"}
    /\ pc \in Looking \cup Asking \cup {"idle", "act"}
    /\ alertTitle \in Recognized \cup {"none"}
    /\ button \in [title : Title \cup {NoTitle}, index : Nat]
    /\ looping \in BOOLEAN
    /\ try \in 0 .. MaxTries
    /\ reply \in {"none", "success", "blocked", "no alerts", "NoAlert",
                  "NoMatchingButton", "DismissedAlert", "500"}
    /\ still \in BOOLEAN
    /\ obeyed \in BOOLEAN

Touches == pc \in {"tap", "askTap"} /\ pc' # pc /\ showing' # showing

(* A handler never runs for ever, however many alerts SpringBoard shows and  *)
(* however many touches fail: "To avoid an infinite loop, this method will   *)
(* raise" (SpringBoard.h:65).                                                *)
HandlerReturns == pc # "idle" ~> pc = "idle"

(* In manual mode the only alerts that are touched are those a client asks   *)
(* for, on the button it names, whatever the mode was before.                *)
ManualTouchIsAsked ==
    [][Touches /\ ~shouldDismissAlertsAutomatically =>
           /\ request = "dismiss-alert"
           /\ \E i \in DOMAIN Buttons[Head(showing)] :
                 Buttons[Head(showing)][i] = button.title]_vars

TouchesOnlyKnown == Touches /\ pc = "tap" => Head(showing) = alertTitle

(* An automatic touch lands on the alert that was recognized: "Use the       *)
(* default accept/deny button, but only if we recognize this alert."         *)
(* (SpringBoard.m:195).                                                      *)
OnlyKnownAlertsAreTouched == [][TouchesOnlyKnown]_vars

(* It does so if no alert came or went by itself since the request came,     *)
(* however many touches were raised or not heard before.                     *)
StillAlertsAreKnown == [][still => TouchesOnlyKnown]_vars

ChoosesAMark ==
    LET shown == Head(showing)
        marks == {Entry[alertTitle].marks[m] : m \in DOMAIN Entry[alertTitle].marks}
        titled == {i \in DOMAIN Buttons[shown] : Buttons[shown][i] \in marks}
    IN titled # {} => Matches(button, shown) \subseteq titled

(* A recognized alert that has a button its entry names is dismissed with    *)
(* such a button, not by its number: the number decides only for alerts that *)
(* changed with an iOS update (SpringBoard.m:189).                           *)
MarksComeFirst == [][still /\ Touches /\ pc = "tap" => ChoosesAMark]_vars

(* In automatic mode a gesture that is performed finds no alert in its way,  *)
(* if none came up meanwhile: "SpringBoard alerts block gestures."           *)
(* (GestureRoutes.m:16).                                                     *)
GestureIsUnblocked ==
    still /\ shouldDismissAlertsAutomatically /\ pc = "act" => showing = <<>>

(* Recognized alerts, fewer than maxTries of them, do not stop a request     *)
(* whose touches work, not even when the last of them goes with the last     *)
(* try: "This is necessary to handle apps that present multiple alerts at    *)
(* launch" (SpringBoard.h:57).                                               *)
KnownAlertsAreCleared ==
    [][request # "none" /\ reply' = "blocked" /\ still /\ obeyed' =>
           \E i \in DOMAIN showing : showing[i] \notin Recognized]_vars
================================================================================
