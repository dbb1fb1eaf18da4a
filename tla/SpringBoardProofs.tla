--------------------------- MODULE SpringBoardProofs ---------------------------
(***************************************************************************)
(* Proofs about SpringBoard, for any alerts and any dictionary: types, and *)
(* that manual mode touches nothing unasked.  If recognized alerts have    *)
(* buttons, also what an undisturbed screen promises, and, if it shows     *)
(* fewer alerts than there are tries, that alerts which heed their touches *)
(* do not stop a request.  The last part counts the steps a handler has    *)
(* left, and concludes that it returns if it goes on.                      *)
(***************************************************************************)
EXTENDS SpringBoard, SequenceTheorems, TLAPS

(* The counter is below its limit whenever the loop is entered again. *)
TryIsBelow == pc \in Looking => try < MaxTries

(* handleAlert has looked up the entry it reads. *)
EntryIsKnown == pc \in {"find", "default"} => alertTitle \in Recognized

TypeInv == TypeOK /\ TryIsBelow /\ EntryIsKnown

(* The screen a handler has looked at is the screen it touches. *)
LookIsFresh ==
    /\ pc = "match" => showing # <<>>
    /\ pc \in {"find", "default", "resolve", "tap"} => inFront = {alertTitle}

marksOf(a) == {Entry[a].marks[m] : m \in DOMAIN Entry[a].marks}

titledButtons(a) == {i \in DOMAIN Buttons[a] : Buttons[a][i] \in marksOf(a)}

(* A button is known by its number only if the alert has none of the marks. *)
ChoiceIsSound ==
    /\ pc = "default" => titledButtons(alertTitle) = {}
    /\ pc \in {"resolve", "tap"} =>
           /\ Matches(button, alertTitle) # {}
           /\ titledButtons(alertTitle) # {} => Matches(button, alertTitle) \subseteq titledButtons(alertTitle)

Fresh == LookIsFresh /\ ChoiceIsSound /\ GestureIsUnblocked

CalmInv == TypeInv /\ (still => Fresh)

(* Every recognized alert has a button. *)
Labelled == \A a \in Recognized : Buttons[a] # <<>>

-------------------------------------------------------------------------------
LEMMA LimitType == MaxTries \in Nat /\ MaxTries > 0
  BY AlertAssumption DEF AlertAssumption

(* What the front, the rest and an extension of the screen are. *)
LEMMA ScreenTypes ==
    ASSUME NEW s \in Seq(Alert)
    PROVE  /\ s # <<>> => Tail(s) \in Seq(Alert) /\ Head(s) \in Alert
           /\ \A a \in Alert : <<a>> \o s \in Seq(Alert) /\ Append(s, a) \in Seq(Alert)
<1>1. s # <<>> => Tail(s) \in Seq(Alert) /\ Head(s) \in Alert
  OBVIOUS
<1>2. ASSUME NEW a \in Alert
      PROVE  <<a>> \o s \in Seq(Alert) /\ Append(s, a) \in Seq(Alert)
  <2>1. <<a>> \in Seq(Alert)
    OBVIOUS
  <2>2. <<a>> \o s \in Seq(Alert)
    BY <2>1, ConcatProperties
  <2> QED
    BY <2>2
<1> QED
  BY <1>1, <1>2

LEMMA SeqOfTitles ==
    ASSUME NEW s \in Seq(Title)
    PROVE  /\ Len(s) \in Nat
           /\ \A i \in DOMAIN s : s[i] \in Title
  OBVIOUS

(* What a result of handleAlert does to the counter, the type of which it    *)
(* keeps, and where it leads.                                                *)
LEMMA ResultIsTyped ==
    ASSUME TypeInv, pc \in Looking, NEW result, current(result)
    PROVE  /\ looping' \in BOOLEAN
           /\ try' \in 0 .. MaxTries
           /\ pc' \in {"act", "query", "idle"}
           /\ pc' \in Looking => try' < MaxTries
           /\ pc' = "act" => result = "NoAlert"
           /\ request' \in {request, "none"}
           /\ reply' \in {reply, "blocked"}
<1>0. looping \in BOOLEAN
  BY DEF TypeInv, TypeOK
<1>1. try \in Nat /\ MaxTries \in Nat /\ try < MaxTries
  <2>1. try \in 0 .. MaxTries
    BY DEF TypeInv, TypeOK
  <2>2. try < MaxTries
    BY DEF TypeInv, TryIsBelow
  <2> QED
    BY <2>1, <2>2, LimitType
<1>2. CASE result = "NoAlert" /\ ~looping
  <2>1. pc' = "act" /\ UNCHANGED <<looping, try, request, reply>>
    BY <1>2 DEF current
  <2> QED
    BY <1>0, <1>1, <1>2, <2>1 DEF Looking
<1>3. CASE ~(result = "NoAlert" /\ ~looping)
  <2>1. looping' = TRUE
    BY <1>3 DEF current
  <2>2. try' = try \/ try' = try + 1
    BY <1>3 DEF current
  <2>3. try' \in 0 .. MaxTries
    BY <1>1, <2>2
  <2>4. CASE looping /\ (result = "UnrecognizedAlert" \/ try' = MaxTries)
    <3>1. answer("blocked")
      BY <1>3, <2>4 DEF current
    <3> QED
      BY <2>1, <2>3, <3>1 DEF answer, Looking
  <2>5. CASE ~(looping /\ (result = "UnrecognizedAlert" \/ try' = MaxTries))
    <3>1. /\ pc' = IF result = "NoAlert" THEN "act" ELSE "query"
          /\ UNCHANGED <<request, reply>>
      BY <1>3, <2>5 DEF current
    <3>2. looping => try' < MaxTries
      BY <1>1, <2>2, <2>5
    <3>3. ~looping => try' = try
      BY <1>3 DEF current
    <3>4. try' < MaxTries
      BY <1>1, <3>2, <3>3
    <3> QED
      BY <2>1, <2>3, <3>1, <3>4
  <2> QED
    BY <2>4, <2>5
<1> QED
  BY <1>2, <1>3

(* The screen stays a sequence of alerts. *)
LEMMA TouchIsTyped ==
    ASSUME TypeInv, NEW b, touch(b)
    PROVE  showing' \in Seq(Alert) /\ still' \in BOOLEAN /\ obeyed' \in BOOLEAN
<1>1. showing \in Seq(Alert) /\ showing # <<>>
  BY DEF touch, Present, TypeInv, TypeOK
<1>2. showing' = Tail(showing) \/ showing' = showing
  BY DEF touch
<1>4. still' \in BOOLEAN /\ obeyed' \in BOOLEAN
  BY DEF touch, TypeInv, TypeOK
<1>5. Tail(showing) \in Seq(Alert)
  BY <1>1, ScreenTypes
<1> QED
  BY <1>1, <1>2, <1>4, <1>5

LEMMA ButtonTypes ==
    /\ \A t \in Title : ByTitle(t) \in [title : Title \cup {NoTitle}, index : Nat]
    /\ \A i \in Nat : ByIndex(i) \in [title : Title \cup {NoTitle}, index : Nat]
  BY DEF ByTitle, ByIndex

-------------------------------------------------------------------------------
(* The result of handleAlert leaves the state well typed, if the rest is. *)
LEMMA ResultKeepsType ==
    ASSUME TypeInv, pc \in Looking, NEW result, current(result),
           showing' \in Seq(Alert), still' \in BOOLEAN, obeyed' \in BOOLEAN,
           UNCHANGED <<shouldDismissAlertsAutomatically, alertTitle, button>>
    PROVE  TypeInv'
<1>1. /\ looping' \in BOOLEAN
      /\ try' \in 0 .. MaxTries
      /\ pc' \in {"act", "query", "idle"}
      /\ pc' \in Looking => try' < MaxTries
      /\ request' \in {request, "none"}
      /\ reply' \in {reply, "blocked"}
  BY ResultIsTyped
<1>2. TypeOK'
  <2>1. /\ shouldDismissAlertsAutomatically' \in BOOLEAN
        /\ alertTitle' \in Recognized \cup {"none"}
        /\ button' \in [title : Title \cup {NoTitle}, index : Nat]
    BY DEF TypeInv, TypeOK
  <2>2. /\ request' \in {"none", "gesture", "dismiss-alerts", "dismiss-alert"}
        /\ pc' \in Looking \cup Asking \cup {"idle", "act"}
        /\ reply' \in {"none", "success", "blocked", "no alerts", "NoAlert",
                       "NoMatchingButton", "DismissedAlert", "500"}
    BY <1>1 DEF TypeInv, TypeOK, Looking
  <2> QED
    BY <1>1, <2>1, <2>2, Zenon DEF TypeOK
<1>3. TryIsBelow' /\ EntryIsKnown'
  BY <1>1 DEF TryIsBelow, EntryIsKnown
<1> QED
  BY <1>2, <1>3 DEF TypeInv

LEMMA InitType == Init => TypeInv
<1> SUFFICES ASSUME Init PROVE TypeInv
  OBVIOUS
<1>1. button \in [title : Title \cup {NoTitle}, index : Nat]
  BY DEF Init, NoButton, ByIndex
<1>2. try \in 0 .. MaxTries /\ try < MaxTries
  BY LimitType DEF Init
<1>3. /\ looping \in BOOLEAN
      /\ still \in BOOLEAN /\ obeyed \in BOOLEAN
      /\ shouldDismissAlertsAutomatically \in BOOLEAN
      /\ showing = <<>>
  BY DEF Init
<1>4. /\ request = "none" /\ pc = "idle" /\ alertTitle = "none" /\ reply = "none"
      /\ pc \notin Looking
  BY DEF Init, Looking
<1>5. TypeOK
  BY <1>1, <1>2, <1>3, <1>4 DEF TypeOK, Looking, Asking
<1> QED
  BY <1>4, <1>5 DEF TypeInv, TryIsBelow, EntryIsKnown

LEMMA NextType == TypeInv /\ [Next]_vars => TypeInv'
<1> SUFFICES ASSUME TypeInv, [Next]_vars PROVE TypeInv'
  OBVIOUS
<1> USE DEF TypeInv, TypeOK, TryIsBelow, EntryIsKnown
<1>1. ASSUME NEW a \in Alert, appear(a) PROVE TypeInv'
  <2>1. showing \in Seq(Alert)
    OBVIOUS
  <2>2. <<a>> \o showing \in Seq(Alert) /\ Append(showing, a) \in Seq(Alert)
    BY <2>1, ScreenTypes
  <2>3. showing' = <<a>> \o showing \/ showing' = Append(showing, a)
    BY <1>1 DEF appear, ChangesByItself
  <2>5. showing' \in Seq(Alert)
    BY <2>2, <2>3
  <2> QED
    BY ZenonT(60), <1>1, <2>5 DEF appear, ChangesByItself, callVars
<1>2. CASE vanish
  <2>1. showing \in Seq(Alert) /\ showing # <<>>
    BY <1>2 DEF vanish
  <2>2. Tail(showing) \in Seq(Alert)
    BY <2>1, ScreenTypes
  <2>3. showing' = Tail(showing)
    BY <1>2 DEF vanish, ChangesByItself
  <2>4. showing' \in Seq(Alert)
    BY <2>2, <2>3
  <2>5. /\ still' = FALSE
        /\ UNCHANGED <<shouldDismissAlertsAutomatically, request, pc, callVars, reply, obeyed>>
    BY <1>2 DEF vanish, ChangesByItself
  <2>6. TypeOK'
    BY ZenonT(60), <2>4, <2>5 DEF callVars
  <2>7. TryIsBelow' /\ EntryIsKnown'
    BY <2>5 DEF callVars
  <2> QED
    BY <2>6, <2>7
<1>3. CASE queryForAlert
  <2>1. CASE current("NoAlert")
    <3>1. pc \in Looking
      BY <1>3 DEF queryForAlert, Looking
    <3> QED
      BY <1>3, <2>1, <3>1, ResultKeepsType DEF queryForAlert, quiet, history, Looking
  <2>2. CASE ~current("NoAlert")
    BY ZenonT(60), <1>3, <2>2 DEF queryForAlert, quiet, history, Looking
  <2> QED
    BY <2>1, <2>2
<1>4. CASE alertMatchingTitle
  <2>1. CASE current("UnrecognizedAlert") /\ UNCHANGED alertTitle
    <3>1. pc \in Looking
      BY <1>4 DEF alertMatchingTitle, Looking
    <3>2. current("UnrecognizedAlert")
      BY <2>1
    <3> QED
      BY <1>4, <2>1, <3>1, <3>2, ResultKeepsType DEF alertMatchingTitle, quiet, history
  <2>2. CASE inFront \cap Recognized # {} /\ alertTitle' = Head(showing) /\ pc' = "find"
               /\ UNCHANGED <<looping, try, request, reply>>
    <3>1. Head(showing) \in Recognized
      BY <2>2 DEF inFront
    <3> QED
      BY ZenonT(60), <1>4, <2>2, <3>1 DEF alertMatchingTitle, quiet, history, Looking
  <2>3. CASE answer("500") /\ UNCHANGED <<alertTitle, looping, try>>
    BY <1>4, <2>3 DEF alertMatchingTitle, quiet, history, answer, Looking
  <2> QED
    BY <1>4, <2>1, <2>2, <2>3 DEF alertMatchingTitle
<1>5. CASE findDismissButtonOnAlert
  <2>1. CASE current("NoAlert") /\ UNCHANGED button
    <3>1. pc \in Looking
      BY <1>5 DEF findDismissButtonOnAlert, Looking
    <3>2. current("NoAlert")
      BY <2>1
    <3> QED
      BY <1>5, <2>1, <3>1, <3>2, ResultKeepsType DEF findDismissButtonOnAlert, quiet, history
  <2>2. CASE UNCHANGED <<looping, try, request, reply>> /\ pc' = "default" /\ UNCHANGED button
    BY ZenonT(60), <1>5, <2>2 DEF findDismissButtonOnAlert, quiet, history, Looking
  <2>3. ASSUME UNCHANGED <<looping, try, request, reply>>, pc' = "resolve",
               NEW m \in DOMAIN Entry[alertTitle].marks,
               button' = ByTitle(Entry[alertTitle].marks[m])
        PROVE  TypeInv'
    <3>1. Entry[alertTitle].marks \in Seq(Title)
      BY <1>5, AlertAssumption DEF AlertAssumption, findDismissButtonOnAlert, Recognized
    <3>2. m \in DOMAIN Entry[alertTitle].marks
      BY <2>3
    <3>4. Entry[alertTitle].marks[m] \in Title
      BY <3>1, <3>2, SeqOfTitles
    <3>3. button' \in [title : Title \cup {NoTitle}, index : Nat]
      BY <2>3, <3>4, ButtonTypes
    <3> QED
      BY ZenonT(60), <1>5, <2>3, <3>3 DEF findDismissButtonOnAlert, quiet, history, Looking
  <2> QED
    BY <1>5, <2>1, <2>2, <2>3 DEF findDismissButtonOnAlert
<1>6. CASE defaultButton
  <2> DEFINE n == IF showing = <<>> THEN 0 ELSE Len(Buttons[Head(showing)])
  <2>1. n \in Nat
    <3>1. CASE showing # <<>>
      <4>1. Head(showing) \in Alert
        BY <3>1, ScreenTypes
      <4>2. Buttons[Head(showing)] \in Seq(Title)
        BY <4>1, AlertAssumption DEF AlertAssumption
      <4>3. Len(Buttons[Head(showing)]) \in Nat
        BY <4>2, SeqOfTitles
      <4> QED
        BY <3>1, <4>3
    <3> QED
      BY <3>1
  <2>2. CASE current("NoAlert") /\ UNCHANGED button
    <3>1. pc \in Looking
      BY <1>6 DEF defaultButton, Looking
    <3>2. current("NoAlert")
      BY <2>2
    <3> QED
      BY <1>6, <2>2, <3>1, <3>2, ResultKeepsType DEF defaultButton, quiet, history
  <2>3. CASE n > 0 /\ button' = ByIndex(defaultIndex(Entry[alertTitle].shouldAccept, n))
               /\ pc' = "resolve" /\ UNCHANGED <<looping, try, request, reply>>
    <3>1. defaultIndex(Entry[alertTitle].shouldAccept, n) \in Nat
      BY <2>1 DEF defaultIndex
    <3>2. button' \in [title : Title \cup {NoTitle}, index : Nat]
      BY <2>3, <3>1, ButtonTypes
    <3> QED
      BY ZenonT(60), <1>6, <2>3, <3>2 DEF defaultButton, quiet, history, Looking
  <2> QED
    BY <1>6, <2>2, <2>3 DEF defaultButton
<1>7. CASE resolve
  <2>1. CASE current("NoAlert")
    <3>1. pc \in Looking
      BY <1>7 DEF resolve, Looking
    <3> QED
      BY <1>7, <2>1, <3>1, ResultKeepsType DEF resolve, quiet, history
  <2>2. CASE pc' = "tap" /\ UNCHANGED <<looping, try, request, reply>>
    BY ZenonT(60), <1>7, <2>2 DEF resolve, quiet, history, Looking
  <2> QED
    BY <1>7, <2>1, <2>2 DEF resolve
<1>8. CASE tap
  <2>1. pc \in Looking
    BY <1>8 DEF tap, Looking
  <2>2. CASE raises /\ current("Failed")
    <3>1. current("Failed")
      BY <2>2
    <3> QED
      BY <1>8, <2>1, <2>2, <3>1, ResultKeepsType DEF tap, raises
  <2>3. CASE touch(button) /\ current("DismissedAlert")
    <3>1. current("DismissedAlert")
      BY <2>3
    <3>2. showing' \in Seq(Alert) /\ still' \in BOOLEAN /\ obeyed' \in BOOLEAN
      BY <2>3, TouchIsTyped
    <3> QED
      BY <1>8, <2>1, <3>1, <3>2, ResultKeepsType DEF tap
  <2> QED
    BY <1>8, <2>2, <2>3 DEF tap
<1>9. CASE executeGesture \/ dismissAlerts
  BY <1>9 DEF executeGesture, dismissAlerts, answer, quiet, history, callVars, Looking
<1>10. CASE askQuery \/ askResolve
  BY ZenonT(60), <1>10 DEF askQuery, askResolve, answer, quiet, history, callVars, Looking, Asking
<1>11. CASE askTap
  <2>1. CASE raises /\ answer("500")
    BY <1>11, <2>1 DEF askTap, raises, answer, callVars, Looking
  <2>2. CASE touch(button) /\ answer("DismissedAlert")
    <3>1. showing' \in Seq(Alert) /\ still' \in BOOLEAN /\ obeyed' \in BOOLEAN
      BY <2>2, TouchIsTyped
    <3> QED
      BY <1>11, <2>2, <3>1 DEF askTap, answer, callVars, Looking
  <2> QED
    BY <1>11, <2>1, <2>2 DEF askTap
<1>12. ASSUME NEW kind \in {"gesture", "dismiss-alerts"}, handleAlertsOrThrow(kind)
       PROVE  TypeInv'
  <2>1. try' \in 0 .. MaxTries /\ try' < MaxTries
    <3>1. try' = 0
      BY <1>12 DEF handleAlertsOrThrow
    <3> HIDE DEF TypeInv, TypeOK, TryIsBelow, EntryIsKnown
    <3> QED
      BY <3>1, LimitType
  <2>2. still' \in BOOLEAN /\ obeyed' \in BOOLEAN /\ looping' \in BOOLEAN
    BY <1>12 DEF handleAlertsOrThrow
  <2>3. pc' \in {"query", "act"} /\ request' = kind /\ reply' = "none"
    BY <1>12 DEF handleAlertsOrThrow
  <2> QED
    BY <1>12, <2>1, <2>2, <2>3 DEF handleAlertsOrThrow, Looking
<1>13. ASSUME NEW t \in Title, dismissAlert(t) PROVE TypeInv'
  <2>1. button' \in [title : Title \cup {NoTitle}, index : Nat]
    BY <1>13, ButtonTypes DEF dismissAlert
  <2> QED
    BY <1>13, <2>1 DEF dismissAlert, Looking, Asking
<1>14. ASSUME NEW value \in BOOLEAN, setDismissAutomatically(value) PROVE TypeInv'
  <2>1. /\ showing' = showing /\ request' = request /\ pc' = pc /\ reply' = reply
        /\ shouldDismissAlertsAutomatically' = value
        /\ alertTitle' = alertTitle /\ button' = button /\ looping' = looping
        /\ try' = try /\ still' = still /\ obeyed' = obeyed
    <3> HIDE DEF TypeInv, TypeOK, TryIsBelow, EntryIsKnown
    <3> QED
      BY <1>14 DEF setDismissAutomatically, callVars, history
  <2>2. TypeOK'
    <3>1. TypeOK
      BY DEF TypeInv
    <3> HIDE DEF TypeInv, TryIsBelow, EntryIsKnown
    <3>2. showing \in Seq(Alert) /\ button \in [title : Title \cup {NoTitle}, index : Nat]
      BY <3>1 DEF TypeOK
    <3>3. showing' \in Seq(Alert) /\ button' \in [title : Title \cup {NoTitle}, index : Nat]
      BY <2>1, <3>2
    <3>4. /\ pc' \in Looking \cup Asking \cup {"idle", "act"}
          /\ request' \in {"none", "gesture", "dismiss-alerts", "dismiss-alert"}
          /\ alertTitle' \in Recognized \cup {"none"}
      BY <2>1, <3>1 DEF TypeOK
    <3>5. reply' \in {"none", "success", "blocked", "no alerts", "NoAlert",
                       "NoMatchingButton", "DismissedAlert", "500"}
      BY <2>1, <3>1 DEF TypeOK
    <3>6. try' \in 0 .. MaxTries /\ looping' \in BOOLEAN
      BY <2>1, <3>1 DEF TypeOK
    <3>7. /\ shouldDismissAlertsAutomatically' \in BOOLEAN
          /\ still' \in BOOLEAN /\ obeyed' \in BOOLEAN
      BY <2>1, <3>1 DEF TypeOK
    <3> QED
      BY <3>3, <3>4, <3>5, <3>6, <3>7 DEF TypeOK
  <2>3. TryIsBelow' /\ EntryIsKnown'
    BY <2>1
  <2> QED
    BY <2>2, <2>3
<1>15. CASE UNCHANGED vars
  <2>1. TypeOK'
    <3>1. /\ showing' = showing /\ request' = request /\ pc' = pc /\ reply' = reply
          /\ shouldDismissAlertsAutomatically' = shouldDismissAlertsAutomatically
          /\ alertTitle' = alertTitle /\ button' = button /\ looping' = looping
          /\ try' = try /\ still' = still /\ obeyed' = obeyed
      <4> HIDE DEF TypeInv, TypeOK, TryIsBelow, EntryIsKnown
      <4> QED
        BY <1>15 DEF vars, callVars, history
    <3>2. TypeOK
      BY DEF TypeInv
    <3> HIDE DEF TypeInv, TryIsBelow, EntryIsKnown
    <3>3. showing \in Seq(Alert) /\ button \in [title : Title \cup {NoTitle}, index : Nat]
      BY <3>2 DEF TypeOK
    <3>4. showing' \in Seq(Alert) /\ button' \in [title : Title \cup {NoTitle}, index : Nat]
      BY <3>1, <3>3
    <3>5. /\ pc' \in Looking \cup Asking \cup {"idle", "act"}
          /\ request' \in {"none", "gesture", "dismiss-alerts", "dismiss-alert"}
          /\ alertTitle' \in Recognized \cup {"none"}
      BY <3>1, <3>2 DEF TypeOK
    <3>6. reply' \in {"none", "success", "blocked", "no alerts", "NoAlert",
                       "NoMatchingButton", "DismissedAlert", "500"}
      BY <3>1, <3>2 DEF TypeOK
    <3>7. try' \in 0 .. MaxTries /\ looping' \in BOOLEAN
      BY <3>1, <3>2 DEF TypeOK
    <3>8. /\ shouldDismissAlertsAutomatically' \in BOOLEAN
          /\ still' \in BOOLEAN /\ obeyed' \in BOOLEAN
      BY <3>1, <3>2 DEF TypeOK
    <3> QED
      BY <3>4, <3>5, <3>6, <3>7, <3>8 DEF TypeOK
  <2>2. TryIsBelow' /\ EntryIsKnown'
    BY <1>15 DEF vars, callVars, history, Looking
  <2> QED
    BY <2>1, <2>2
<1> QED
  BY <1>1, <1>2, <1>3, <1>4, <1>5, <1>6, <1>7, <1>8, <1>9, <1>10, <1>11, <1>12,
     <1>13, <1>14, <1>15 DEF Next, Handler, Client

(* The state has its types, and the counter of handleAlertsOrThrow never     *)
(* passes maxTries, whatever SpringBoard shows and whatever touches do.      *)
THEOREM TypeCorrect == Spec => []TypeOK
<1>1. TypeInv => TypeOK
  BY DEF TypeInv
<1> QED
  BY <1>1, InitType, NextType, PTL DEF Spec

-------------------------------------------------------------------------------
(* Outside of a look at the screen the calm invariant only speaks of "act".  *)
LEMMA NotLooking ==
    ASSUME TypeInv', pc' \notin {"match", "find", "default", "resolve", "tap"},
           shouldDismissAlertsAutomatically' /\ pc' = "act" => showing' = <<>>
    PROVE  CalmInv'
  BY DEF CalmInv, Fresh, LookIsFresh, ChoiceIsSound, GestureIsUnblocked

LEMMA CalmResult ==
    ASSUME TypeInv, TypeInv', pc \in Looking, NEW result, current(result),
           result = "NoAlert" => showing' = <<>>
    PROVE  CalmInv'
<1>1. pc' \in {"act", "query", "idle"} /\ (pc' = "act" => result = "NoAlert")
  BY ResultIsTyped
<1> QED
  BY <1>1, NotLooking

(* The buttons a title matches, and the one a number does. *)
LEMMA MatchByTitle ==
    ASSUME NEW t \in Title, NEW a
    PROVE  Matches(ByTitle(t), a) = {i \in DOMAIN Buttons[a] : Buttons[a][i] = t}
<1>1. t # NoTitle
  BY AlertAssumption DEF AlertAssumption
<1> QED
  BY <1>1 DEF Matches, ByTitle

LEMMA MatchByIndex ==
    ASSUME NEW a \in Alert, NEW k \in 1 .. Len(Buttons[a])
    PROVE  k \in Matches(ByIndex(k), a)
<1>1. Buttons[a] \in Seq(Title)
  BY AlertAssumption DEF AlertAssumption
<1>2. k \in DOMAIN Buttons[a]
  BY <1>1
<1> QED
  BY <1>2 DEF Matches, ByIndex

(* Which button the entry of an alert selects on the alert itself. *)
LEMMA EntryMarks ==
    ASSUME NEW a \in Recognized
    PROVE  /\ a \in Alert
           /\ \A m \in DOMAIN Entry[a].marks : Entry[a].marks[m] \in Title
<1>1. a \in Alert /\ Entry[a].marks \in Seq(Title)
  BY AlertAssumption DEF AlertAssumption, Recognized
<1> QED
  BY <1>1, SeqOfTitles

LEMMA MarkIsTitled ==
    ASSUME NEW a \in Recognized, NEW m \in DOMAIN Entry[a].marks
    PROVE  Matches(ByTitle(Entry[a].marks[m]), a) \subseteq titledButtons(a)
<1>1. Entry[a].marks[m] \in Title
  BY EntryMarks
<1>2. Entry[a].marks[m] \in marksOf(a)
  BY DEF marksOf
<1> QED
  BY <1>1, <1>2, MatchByTitle DEF titledButtons

LEMMA NoMarkFound ==
    ASSUME NEW a \in Recognized,
           \A m \in DOMAIN Entry[a].marks : Matches(ByTitle(Entry[a].marks[m]), a) = {}
    PROVE  titledButtons(a) = {}
<1> SUFFICES ASSUME NEW i \in titledButtons(a) PROVE FALSE
  OBVIOUS
<1>1. PICK m \in DOMAIN Entry[a].marks : Buttons[a][i] = Entry[a].marks[m]
  BY DEF titledButtons, marksOf
<1>2. i \in Matches(ByTitle(Entry[a].marks[m]), a)
  BY <1>1, EntryMarks, MatchByTitle DEF titledButtons
<1> QED
  BY <1>2

LEMMA FrontIsHead ==
    ASSUME NEW a, inFront = {a}
    PROVE  showing # <<>> /\ Head(showing) = a
  BY DEF inFront

LEMMA PresentOnFront ==
    ASSUME NEW a, inFront = {a}, NEW b
    PROVE  Present(b) <=> Matches(b, a) # {}
  BY FrontIsHead DEF Present

LEMMA DefaultIndexInRange ==
    ASSUME NEW accept, NEW n \in Nat, n > 0
    PROVE  defaultIndex(accept, n) \in 1 .. n
  BY DEF defaultIndex

LEMMA InitCalm == Init => CalmInv
  BY InitType DEF Init, CalmInv, Fresh, LookIsFresh, ChoiceIsSound, GestureIsUnblocked

(* The steps of a handler, while the screen has kept still. *)
LEMMA HandlerKeepsCalm ==
    ASSUME Labelled, CalmInv, TypeInv', still, Handler
    PROVE  CalmInv'
<1>a. TypeInv /\ TypeInv'
  BY DEF CalmInv
<1>b. LookIsFresh /\ ChoiceIsSound /\ GestureIsUnblocked
  BY DEF CalmInv, Fresh
<1>c. pc \in {"find", "default", "resolve", "tap"} =>
          inFront = {alertTitle} /\ showing # <<>> /\ Head(showing) = alertTitle
  BY <1>b, FrontIsHead DEF LookIsFresh
<1>3. CASE queryForAlert
  <2>0. pc \in Looking
    BY <1>3 DEF queryForAlert, Looking
  <2>1. CASE showing = <<>> /\ current("NoAlert")
    <3>1. current("NoAlert") /\ showing' = <<>>
      BY <1>3, <2>1 DEF queryForAlert, quiet
    <3> QED
      BY <1>a, <2>0, <3>1, CalmResult
  <2>2. CASE showing # <<>> /\ pc' = "match"
    <3>1. showing' # <<>> /\ pc' = "match"
      BY <1>3, <2>2 DEF queryForAlert, quiet
    <3> QED
      BY <1>a, <3>1 DEF CalmInv, Fresh, LookIsFresh, ChoiceIsSound, GestureIsUnblocked
  <2> QED
    BY <1>3, <2>1, <2>2 DEF queryForAlert
<1>4. CASE alertMatchingTitle
  <2>0. pc \in Looking
    BY <1>4 DEF alertMatchingTitle, Looking
  <2>1. CASE current("UnrecognizedAlert")
    BY <1>a, <2>0, <2>1, CalmResult
  <2>2. CASE inFront \cap Recognized # {} /\ alertTitle' = Head(showing) /\ pc' = "find"
    <3>1. inFront' = {alertTitle'}
      BY <1>4, <2>2 DEF alertMatchingTitle, quiet, inFront
    <3> QED
      BY <1>a, <2>2, <3>1 DEF CalmInv, Fresh, LookIsFresh, ChoiceIsSound, GestureIsUnblocked
  <2>3. CASE answer("500")
    BY <1>a, <2>3, NotLooking DEF answer
  <2> QED
    BY <1>4, <2>1, <2>2, <2>3 DEF alertMatchingTitle
<1>5. CASE findDismissButtonOnAlert
  <2> DEFINE marks == Entry[alertTitle].marks
             found == {m \in DOMAIN marks : Present(ByTitle(marks[m]))}
  <2>0. /\ pc = "find" /\ pc \in Looking
        /\ showing' = showing /\ alertTitle' = alertTitle
        /\ alertTitle \in Recognized
        /\ inFront = {alertTitle} /\ inFront' = {alertTitle'}
    BY <1>5, <1>a, <1>c DEF findDismissButtonOnAlert, quiet, Looking, TypeInv,
       EntryIsKnown, inFront
  <2>1. CASE showing = <<>> /\ current("NoAlert")
    BY <1>c, <2>0, <2>1
  <2>2. CASE found = {} /\ pc' = "default"
    <3>1. \A m \in DOMAIN marks : Matches(ByTitle(marks[m]), alertTitle) = {}
      BY <2>0, <2>2, PresentOnFront
    <3>2. titledButtons(alertTitle) = {}
      BY <2>0, <3>1, NoMarkFound
    <3>3. titledButtons(alertTitle') = {}
      BY <2>0, <3>2
    <3> QED
      BY <1>a, <2>0, <2>2, <3>3 DEF CalmInv, Fresh, LookIsFresh, ChoiceIsSound, GestureIsUnblocked
  <2>3. ASSUME NEW m \in found, button' = ByTitle(marks[m]), pc' = "resolve"
        PROVE  CalmInv'
    <3>1. Matches(ByTitle(marks[m]), alertTitle) # {}
      BY <2>0, PresentOnFront
    <3>2. Matches(ByTitle(marks[m]), alertTitle) \subseteq titledButtons(alertTitle)
      BY <2>0, MarkIsTitled
    <3>3. /\ Matches(button', alertTitle') # {}
          /\ Matches(button', alertTitle') \subseteq titledButtons(alertTitle')
      BY <2>0, <2>3, <3>1, <3>2
    <3> QED
      BY <1>a, <2>0, <2>3, <3>3 DEF CalmInv, Fresh, LookIsFresh, ChoiceIsSound, GestureIsUnblocked
  <2> QED
    BY <1>5, <2>1, <2>2, <2>3 DEF findDismissButtonOnAlert
<1>6. CASE defaultButton
  <2> DEFINE n == IF showing = <<>> THEN 0 ELSE Len(Buttons[Head(showing)])
             k == defaultIndex(Entry[alertTitle].shouldAccept, n)
  <2>0. /\ pc = "default"
        /\ showing' = showing /\ alertTitle' = alertTitle
        /\ alertTitle \in Recognized
        /\ inFront' = {alertTitle'}
        /\ titledButtons(alertTitle) = {}
    BY <1>6, <1>a, <1>b, <1>c DEF defaultButton, quiet, TypeInv, EntryIsKnown,
       inFront, ChoiceIsSound
  <2>1. n = Len(Buttons[alertTitle]) /\ n \in Nat /\ n > 0 /\ alertTitle \in Alert
    <3>1. alertTitle \in Alert /\ Buttons[alertTitle] \in Seq(Title)
      BY <2>0, EntryMarks, AlertAssumption DEF AlertAssumption
    <3>2. Buttons[alertTitle] # <<>>
      BY <2>0 DEF Labelled
    <3>3. n = Len(Buttons[alertTitle])
      BY <1>c, <2>0
    <3>4. \A s \in Seq(Title) : s # <<>> => Len(s) \in Nat /\ Len(s) > 0
      OBVIOUS
    <3> QED
      BY <3>1, <3>2, <3>3, <3>4
  <2>2. button' = ByIndex(k) /\ pc' = "resolve"
    <3>1. n # 0
      BY <2>1
    <3> QED
      BY <1>6, <3>1 DEF defaultButton
  <2>3. k \in 1 .. Len(Buttons[alertTitle])
    BY <2>1, DefaultIndexInRange
  <2>4. Matches(ByIndex(k), alertTitle) # {}
    BY <2>1, <2>3, MatchByIndex
  <2>5. Matches(button', alertTitle') # {} /\ titledButtons(alertTitle') = {}
    BY <2>0, <2>2, <2>4
  <2> QED
    BY <1>a, <2>0, <2>2, <2>5 DEF CalmInv, Fresh, LookIsFresh, ChoiceIsSound, GestureIsUnblocked
<1>7. CASE resolve
  <2>0. pc = "resolve" /\ inFront = {alertTitle} /\ Matches(button, alertTitle) # {}
    BY <1>7, <1>b, <1>c DEF resolve, ChoiceIsSound
  <2>1. Present(button)
    BY <2>0, PresentOnFront
  <2>2. pc' = "tap" /\ showing' = showing /\ alertTitle' = alertTitle /\ button' = button
    BY <1>7, <2>1 DEF resolve, quiet
  <2>3. inFront' = {alertTitle'}
    BY <2>0, <2>2 DEF inFront
  <2>4. /\ Matches(button', alertTitle') # {}
        /\ titledButtons(alertTitle') # {} =>
               Matches(button', alertTitle') \subseteq titledButtons(alertTitle')
    BY <1>b, <2>0, <2>2 DEF ChoiceIsSound
  <2> QED
    BY <1>a, <2>2, <2>3, <2>4 DEF CalmInv, Fresh, LookIsFresh, ChoiceIsSound, GestureIsUnblocked
<1>8. CASE tap
  <2>0. pc \in Looking
    BY <1>8 DEF tap, Looking
  <2>1. CASE current("Failed")
    BY <1>a, <2>0, <2>1, CalmResult
  <2>2. CASE current("DismissedAlert")
    BY <1>a, <2>0, <2>2, CalmResult
  <2> QED
    BY <1>8, <2>1, <2>2 DEF tap
<1>9. CASE executeGesture \/ dismissAlerts
  BY <1>9, <1>a, NotLooking DEF executeGesture, dismissAlerts, answer
<1>10. CASE askQuery \/ askResolve \/ askTap
  BY <1>10, <1>a, NotLooking DEF askQuery, askResolve, askTap, answer
<1> QED
  BY <1>3, <1>4, <1>5, <1>6, <1>7, <1>8, <1>9, <1>10 DEF Handler

LEMMA HandlerKeepsStill == Handler => still' = still
  BY DEF Handler, queryForAlert, alertMatchingTitle, findDismissButtonOnAlert,
     defaultButton, resolve, tap, executeGesture, dismissAlerts, askQuery, askResolve,
     askTap, quiet, history, touch, raises

LEMMA NextCalm ==
    ASSUME Labelled
    PROVE  CalmInv /\ [Next]_vars => CalmInv'
<1> SUFFICES ASSUME CalmInv, [Next]_vars PROVE CalmInv'
  OBVIOUS
<1>a. TypeInv /\ TypeInv'
  BY NextType DEF CalmInv
<1>1. CASE vanish \/ \E a \in Alert : appear(a)
  <2>1. still' = FALSE
    BY <1>1 DEF appear, vanish, ChangesByItself
  <2> QED
    BY <1>a, <2>1 DEF CalmInv
<1>2. CASE Handler
  <2>1. CASE still
    BY <1>2, <1>a, <2>1, HandlerKeepsCalm
  <2>2. CASE ~still
    BY <1>2, <1>a, <2>2, HandlerKeepsStill DEF CalmInv
  <2> QED
    BY <2>1, <2>2
<1>12. ASSUME NEW kind \in {"gesture", "dismiss-alerts"}, handleAlertsOrThrow(kind)
       PROVE  CalmInv'
  <2>1. CASE shouldDismissAlertsAutomatically
    <3>1. pc' = "query"
      BY <1>12, <2>1 DEF handleAlertsOrThrow
    <3> QED
      BY <1>a, <3>1, NotLooking
  <2>2. CASE ~shouldDismissAlertsAutomatically
    <3>1. pc' = "act" /\ ~shouldDismissAlertsAutomatically'
      BY <1>12, <2>2 DEF handleAlertsOrThrow
    <3> QED
      BY <1>a, <3>1, NotLooking
  <2> QED
    BY <2>1, <2>2
<1>13. ASSUME NEW t \in Title, dismissAlert(t) PROVE CalmInv'
  BY <1>13, <1>a, NotLooking DEF dismissAlert
<1>14. ASSUME NEW value \in BOOLEAN, setDismissAutomatically(value) PROVE CalmInv'
  BY <1>14, <1>a, NotLooking DEF setDismissAutomatically
<1>15. CASE UNCHANGED vars
  <2>1. UNCHANGED <<showing, shouldDismissAlertsAutomatically, pc, alertTitle, button, still>>
    BY <1>15 DEF vars, callVars, history
  <2>2. inFront' = inFront /\ Matches(button', alertTitle') = Matches(button, alertTitle)
        /\ titledButtons(alertTitle') = titledButtons(alertTitle)
    BY <2>1 DEF inFront
  <2> QED
    BY <1>a, <2>1, <2>2 DEF CalmInv, Fresh, LookIsFresh, ChoiceIsSound, GestureIsUnblocked
<1> QED
  BY <1>1, <1>2, <1>12, <1>13, <1>14, <1>15 DEF Next, Client

(* No gesture is performed under an alert in automatic mode, unless alerts   *)
(* came or went by themselves meanwhile: handleAlertsOrThrow has dismissed   *)
(* them all or thrown, whatever touches failed on the way.                   *)
THEOREM GesturesAreUnblocked == Labelled => (Spec => []GestureIsUnblocked)
<1> SUFFICES ASSUME Labelled PROVE Spec => []GestureIsUnblocked
  OBVIOUS
<1>1. CalmInv => GestureIsUnblocked
  BY DEF CalmInv, Fresh, GestureIsUnblocked
<1>2. CalmInv /\ [Next]_vars => CalmInv'
  BY NextCalm
<1> QED
  BY <1>1, <1>2, InitCalm, PTL DEF Spec

(* An automatic touch lands on an alert of the dictionary, the one that was  *)
(* looked up, unless alerts came or went by themselves meanwhile.            *)
THEOREM KnownAlertsOnly == Labelled => (Spec => StillAlertsAreKnown)
<1> SUFFICES ASSUME Labelled PROVE Spec => StillAlertsAreKnown
  OBVIOUS
<1>1. CalmInv => (still => TouchesOnlyKnown)
  BY FrontIsHead DEF CalmInv, Fresh, LookIsFresh, TouchesOnlyKnown
<1>2. CalmInv /\ [Next]_vars => CalmInv'
  BY NextCalm
<1> QED
  BY <1>1, <1>2, InitCalm, PTL DEF Spec, StillAlertsAreKnown

(* It presses a button that the entry names, if the alert has one.           *)
THEOREM NamedButtonsFirst == Labelled => (Spec => MarksComeFirst)
<1> SUFFICES ASSUME Labelled PROVE Spec => MarksComeFirst
  OBVIOUS
<1>1. CalmInv => (still /\ Touches /\ pc = "tap" => ChoosesAMark)
  BY FrontIsHead DEF CalmInv, Fresh, LookIsFresh, ChoiceIsSound, ChoosesAMark, titledButtons, marksOf
<1>2. CalmInv /\ [Next]_vars => CalmInv'
  BY NextCalm
<1> QED
  BY <1>1, <1>2, InitCalm, PTL DEF Spec, MarksComeFirst

-------------------------------------------------------------------------------
(* What a client asked for.                                                *)

(* Only an automatic handler looks for alerts, and only a request that names *)
(* a button asks for one.                                                    *)
TouchIsMeant ==
    /\ pc \in Looking => shouldDismissAlertsAutomatically
    /\ pc \in Asking => request = "dismiss-alert" /\ button.title # NoTitle

(* A result of handleAlert asks for nothing. *)
LEMMA ResultAsksNothing ==
    ASSUME TypeInv, TouchIsMeant, pc \in Looking, NEW result, current(result),
           UNCHANGED shouldDismissAlertsAutomatically
    PROVE  TouchIsMeant'
<1>1. pc' \in {"act", "query", "idle"} /\ shouldDismissAlertsAutomatically
  BY ResultIsTyped DEF TouchIsMeant
<1> QED
  BY <1>1 DEF TouchIsMeant, Asking

LEMMA HandlerIsMeant ==
    ASSUME TypeInv, TouchIsMeant, Handler
    PROVE  TouchIsMeant'
<1>1. CASE queryForAlert
  <2>1. pc \in Looking /\ UNCHANGED shouldDismissAlertsAutomatically
    BY <1>1 DEF queryForAlert, quiet, Looking
  <2>2. current("NoAlert") \/ pc' = "match"
    BY <1>1 DEF queryForAlert
  <2> QED
    BY <2>1, <2>2, ResultAsksNothing DEF TouchIsMeant, Asking
<1>2. CASE alertMatchingTitle
  <2>1. pc \in Looking /\ UNCHANGED shouldDismissAlertsAutomatically
    BY <1>2 DEF alertMatchingTitle, quiet, Looking
  <2>2. current("UnrecognizedAlert") \/ pc' = "find" \/ answer("500")
    BY <1>2 DEF alertMatchingTitle
  <2> QED
    BY <2>1, <2>2, ResultAsksNothing DEF TouchIsMeant, Asking, Looking, answer
<1>3. CASE findDismissButtonOnAlert
  <2>1. pc \in Looking /\ UNCHANGED shouldDismissAlertsAutomatically
    BY <1>3 DEF findDismissButtonOnAlert, quiet, Looking
  <2>2. current("NoAlert") \/ pc' = "resolve" \/ pc' = "default"
    BY <1>3 DEF findDismissButtonOnAlert
  <2> QED
    BY <2>1, <2>2, ResultAsksNothing DEF TouchIsMeant, Asking
<1>4. CASE defaultButton
  <2>1. pc \in Looking /\ UNCHANGED shouldDismissAlertsAutomatically
    BY <1>4 DEF defaultButton, quiet, Looking
  <2>2. current("NoAlert") \/ pc' = "resolve"
    BY <1>4 DEF defaultButton
  <2> QED
    BY <2>1, <2>2, ResultAsksNothing DEF TouchIsMeant, Asking
<1>5. CASE resolve
  <2>1. pc \in Looking /\ UNCHANGED shouldDismissAlertsAutomatically
    BY <1>5 DEF resolve, quiet, Looking
  <2>2. current("NoAlert") \/ pc' = "tap"
    BY <1>5 DEF resolve
  <2> QED
    BY <2>1, <2>2, ResultAsksNothing DEF TouchIsMeant, Asking
<1>6. CASE tap
  <2>1. pc \in Looking /\ UNCHANGED shouldDismissAlertsAutomatically
    BY <1>6 DEF tap, Looking
  <2>2. current("Failed") \/ current("DismissedAlert")
    BY <1>6 DEF tap
  <2> QED
    BY <2>1, <2>2, ResultAsksNothing
<1>7. CASE executeGesture \/ dismissAlerts
  BY <1>7 DEF executeGesture, dismissAlerts, answer, TouchIsMeant, Looking, Asking
<1>8. CASE askQuery \/ askResolve \/ askTap
  <2>1. /\ request = "dismiss-alert" /\ button.title # NoTitle /\ UNCHANGED button
        /\ (pc' \in Asking /\ UNCHANGED request) \/ pc' = "idle"
    BY <1>8 DEF askQuery, askResolve, askTap, answer, callVars, TouchIsMeant, Asking
  <2>2. pc' \notin Looking
    BY <2>1 DEF Looking, Asking
  <2> QED
    BY <2>1, <2>2 DEF TouchIsMeant, Asking
<1> QED
  BY <1>1, <1>2, <1>3, <1>4, <1>5, <1>6, <1>7, <1>8 DEF Handler

LEMMA NextIsMeant == TypeInv /\ TouchIsMeant /\ [Next]_vars => TouchIsMeant'
<1> SUFFICES ASSUME TypeInv, TouchIsMeant, [Next]_vars PROVE TouchIsMeant'
  OBVIOUS
<1>1. CASE Handler
  BY <1>1, HandlerIsMeant
<1>2. ASSUME NEW kind \in {"gesture", "dismiss-alerts"}, handleAlertsOrThrow(kind)
      PROVE  TouchIsMeant'
  BY <1>2 DEF handleAlertsOrThrow, TouchIsMeant, Looking, Asking
<1>3. ASSUME NEW t \in Title, dismissAlert(t) PROVE TouchIsMeant'
  <2>1. t # NoTitle
    BY AlertAssumption DEF AlertAssumption
  <2> QED
    BY <1>3, <2>1 DEF dismissAlert, ByTitle, TouchIsMeant, Looking, Asking
<1>4. ASSUME NEW value \in BOOLEAN, setDismissAutomatically(value) PROVE TouchIsMeant'
  BY <1>4 DEF setDismissAutomatically, TouchIsMeant, Looking, Asking
<1>5. CASE UNCHANGED vars \/ vanish \/ \E a \in Alert : appear(a)
  <2>1. UNCHANGED <<shouldDismissAlertsAutomatically, request, pc, button>>
    BY <1>5 DEF vars, vanish, appear, ChangesByItself, callVars
  <2> QED
    BY <2>1 DEF TouchIsMeant
<1> QED
  BY <1>1, <1>2, <1>3, <1>4, <1>5 DEF Next, Client

(* In manual mode no alert is touched but on the button a client named,      *)
(* whatever the alerts and the dictionary are.                               *)
THEOREM ManualTouchesAreAsked == Spec => ManualTouchIsAsked
<1>1. Init => TouchIsMeant
  BY DEF Init, TouchIsMeant, Looking, Asking
<1>2. ASSUME TypeInv, TouchIsMeant, [Next]_vars, Touches, ~shouldDismissAlertsAutomatically
      PROVE  /\ request = "dismiss-alert"
             /\ \E i \in DOMAIN Buttons[Head(showing)] :
                   Buttons[Head(showing)][i] = button.title
  <2>1. pc \notin Looking
    BY <1>2 DEF TouchIsMeant
  <2>2. pc = "askTap" /\ pc' # pc /\ showing' # showing
    BY <1>2, <2>1 DEF Touches, Looking
  <2>3. askTap
    BY <1>2, <2>2 DEF Next, Handler, Client, vars, vanish, appear, ChangesByItself,
       handleAlertsOrThrow, dismissAlert, setDismissAutomatically, queryForAlert,
       alertMatchingTitle, findDismissButtonOnAlert, defaultButton, resolve, tap,
       executeGesture, dismissAlerts, askQuery, askResolve
  <2>4. Matches(button, Head(showing)) # {}
    BY <2>2, <2>3 DEF askTap, raises, touch, Present
  <2>5. request = "dismiss-alert" /\ button.title # NoTitle
    BY <1>2, <2>2 DEF TouchIsMeant, Asking
  <2> QED
    BY <2>4, <2>5 DEF Matches
<1>3. TypeInv /\ TouchIsMeant /\ [Next]_vars =>
          (Touches /\ ~shouldDismissAlertsAutomatically =>
              /\ request = "dismiss-alert"
              /\ \E i \in DOMAIN Buttons[Head(showing)] :
                    Buttons[Head(showing)][i] = button.title)
  BY <1>2
<1> QED
  BY <1>1, <1>3, InitType, NextType, NextIsMeant, PTL DEF Spec, ManualTouchIsAsked

-------------------------------------------------------------------------------
(* How many tries the alerts of a screen can cost.                         *)

(* Fewer alerts than tries may be showing. *)
FewAlerts == MaxShowing < MaxTries

frontIsUnknown == showing # <<>> /\ Head(showing) \notin Recognized

UnknownIsShowing == \E i \in DOMAIN showing : showing[i] \notin Recognized

(* While alerts go only by being touched, and touches work, each try of the *)
(* loop takes an alert off the screen, and the call before the loop took    *)
(* the first of them, unless it found one that stops the loop at once.      *)
TriesArePaid ==
    still /\ obeyed /\ pc \in Looking /\ looping =>
        frontIsUnknown \/ try + Len(showing) < MaxShowing

Serving ==
    /\ Len(showing) <= MaxShowing
    /\ request # "none" => reply = "none"
    /\ pc = "idle" <=> request = "none"
    /\ pc \in Looking /\ ~looping => try = 0
    /\ pc \in {"resolve", "tap"} => alertTitle \in Recognized

PaidInv == CalmInv /\ Serving /\ TriesArePaid

LEMMA CountTypes ==
    ASSUME TypeInv
    PROVE  /\ Len(showing) \in Nat /\ try \in Nat /\ MaxTries \in Nat /\ MaxShowing \in Nat
           /\ showing \in Seq(Alert)
           /\ showing = <<>> => Len(showing) = 0
           /\ showing # <<>> =>
                 /\ Len(showing) > 0 /\ Len(Tail(showing)) = Len(showing) - 1
                 /\ 1 \in DOMAIN showing /\ Head(showing) = showing[1]
<1>1. showing \in Seq(Alert) /\ try \in 0 .. MaxTries
  BY DEF TypeInv, TypeOK
<1>2. MaxTries \in Nat /\ MaxShowing \in Nat
  BY AlertAssumption DEF AlertAssumption
<1>3. \A s \in Seq(Alert) :
          /\ Len(s) \in Nat
          /\ s = <<>> => Len(s) = 0
          /\ s # <<>> => /\ Len(s) > 0 /\ Len(Tail(s)) = Len(s) - 1
                         /\ 1 \in DOMAIN s /\ Head(s) = s[1]
  OBVIOUS
<1> QED
  BY <1>1, <1>2, <1>3

(* What a result of handleAlert does to the counter and to the answer. *)
LEMMA ResultCounts ==
    ASSUME TypeInv, Serving, pc \in Looking, NEW result, current(result)
    PROVE  /\ reply' = "blocked" => looping /\ (result = "UnrecognizedAlert" \/ try + 1 = MaxTries)
           /\ pc' \in Looking =>
                 /\ looping' /\ result # "NoAlert"
                 /\ try' = IF looping THEN try + 1 ELSE try
                 /\ result = "UnrecognizedAlert" => ~looping
           /\ pc' \notin {"resolve", "tap"}
           /\ request' # "none" => reply' = "none"
           /\ pc' = "idle" <=> request' = "none"
<1>1. request # "none" /\ reply = "none"
  BY DEF Serving, Looking
<1>2. CASE result = "NoAlert" /\ ~looping
  <2>1. pc' = "act" /\ UNCHANGED <<looping, try, request, reply>>
    BY <1>2 DEF current
  <2> QED
    BY <1>1, <2>1 DEF Looking
<1>3. CASE ~(result = "NoAlert" /\ ~looping)
  <2>1. /\ looping' = TRUE
        /\ try' = IF looping /\ result # "UnrecognizedAlert" THEN try + 1 ELSE try
    BY <1>3 DEF current
  <2>2. CASE looping /\ (result = "UnrecognizedAlert" \/ try' = MaxTries)
    <3>1. reply' = "blocked" /\ request' = "none" /\ pc' = "idle"
      BY <1>3, <2>2 DEF current, answer
    <3>2. result # "UnrecognizedAlert" => try + 1 = MaxTries
      BY <2>1, <2>2
    <3> QED
      BY <2>2, <3>1, <3>2 DEF Looking
  <2>3. CASE ~(looping /\ (result = "UnrecognizedAlert" \/ try' = MaxTries))
    <3>1. /\ pc' = IF result = "NoAlert" THEN "act" ELSE "query"
          /\ UNCHANGED <<request, reply>>
      BY <1>3, <2>3 DEF current
    <3>2. pc' \in Looking => result # "NoAlert"
      BY <3>1 DEF Looking
    <3>3. result = "UnrecognizedAlert" => ~looping
      BY <2>3
    <3>4. try' = IF looping THEN try + 1 ELSE try
      BY <2>1, <3>3
    <3> QED
      BY <1>1, <2>1, <3>1, <3>2, <3>3, <3>4
  <2> QED
    BY <2>2, <2>3
<1> QED
  BY <1>2, <1>3

(* What a step must not do. *)
Clears == still /\ obeyed' /\ reply' = "blocked" => UnknownIsShowing

(* A look that leads to another look. *)
LEMMA LookIsPaid ==
    ASSUME Serving, TriesArePaid, pc \in Looking, pc' \in Looking,
           UNCHANGED <<showing, looping, try, request, reply, still, obeyed>>,
           pc' \in {"resolve", "tap"} => alertTitle' \in Recognized
    PROVE  Serving' /\ TriesArePaid' /\ Clears
<1>1. request # "none" /\ reply = "none" /\ pc' # "idle"
  BY DEF Serving, Looking
<1>2. Serving'
  BY <1>1 DEF Serving
<1>3. TriesArePaid'
  BY DEF TriesArePaid, frontIsUnknown
<1> QED
  BY <1>1, <1>2, <1>3 DEF Clears

(* A look that finds no alert, although there may be one. *)
LEMMA NothingIsPaid ==
    ASSUME FewAlerts, TypeInv, Serving, TriesArePaid, pc \in Looking, current("NoAlert"),
           UNCHANGED <<showing, still, obeyed>>, still => showing = <<>>
    PROVE  Serving' /\ TriesArePaid' /\ Clears
<1>1. /\ pc' \notin Looking
      /\ pc' \notin {"resolve", "tap"}
      /\ request' # "none" => reply' = "none"
      /\ pc' = "idle" <=> request' = "none"
      /\ reply' = "blocked" => looping /\ try + 1 = MaxTries
  BY ResultCounts
<1>2. Serving'
  BY <1>1 DEF Serving
<1>3. TriesArePaid'
  BY <1>1 DEF TriesArePaid
<1>4. ~(still /\ obeyed' /\ reply' = "blocked")
  <2> SUFFICES ASSUME still, obeyed', reply' = "blocked" PROVE FALSE
    OBVIOUS
  <2>1. looping /\ try + 1 = MaxTries /\ showing = <<>> /\ obeyed
    BY <1>1
  <2>2. ~frontIsUnknown
    BY <2>1 DEF frontIsUnknown
  <2>3. try + Len(showing) < MaxShowing
    BY <2>1, <2>2 DEF TriesArePaid
  <2>4. Len(showing) = 0
    BY <2>1, CountTypes
  <2> QED
    BY <2>1, <2>3, <2>4, CountTypes DEF FewAlerts
<1> QED
  BY <1>2, <1>3, <1>4 DEF Clears

LEMMA HandlerIsPaid ==
    ASSUME Labelled, FewAlerts, PaidInv, TypeInv', Handler
    PROVE  Serving' /\ TriesArePaid' /\ Clears
<1>a. TypeInv /\ Serving /\ TriesArePaid
  BY DEF PaidInv, CalmInv
<1>b. still => LookIsFresh /\ ChoiceIsSound
  BY DEF PaidInv, CalmInv, Fresh
<1>c. still /\ pc \in {"find", "default", "resolve", "tap"} =>
          inFront = {alertTitle} /\ showing # <<>> /\ Head(showing) = alertTitle
  BY <1>b, FrontIsHead DEF LookIsFresh
<1>1. CASE queryForAlert
  <2>1. pc = "query" /\ pc \in Looking /\ UNCHANGED <<showing, still, obeyed>>
    BY <1>1 DEF queryForAlert, quiet, history, Looking
  <2>2. CASE showing = <<>> /\ current("NoAlert")
    <3>1. current("NoAlert")
      BY <2>2
    <3> QED
      BY <1>a, <2>1, <2>2, <3>1, NothingIsPaid
  <2>3. CASE pc' = "match" /\ UNCHANGED <<looping, try, request, reply>>
    BY <1>a, <2>1, <2>3, LookIsPaid DEF Looking
  <2> QED
    BY <1>1, <2>2, <2>3 DEF queryForAlert
<1>2. CASE alertMatchingTitle
  <2>1. pc = "match" /\ pc \in Looking /\ UNCHANGED <<showing, still, obeyed>>
    BY <1>2 DEF alertMatchingTitle, quiet, history, Looking
  <2>2. CASE pc' = "find" /\ UNCHANGED <<looping, try, request, reply>>
    BY <1>a, <2>1, <2>2, LookIsPaid DEF Looking
  <2>3. CASE inFront \cap Recognized = {} /\ current("UnrecognizedAlert")
    <3>1. current("UnrecognizedAlert")
      BY <2>3
    <3>2. still => frontIsUnknown
      BY <1>b, <2>1, <2>3 DEF LookIsFresh, inFront, frontIsUnknown
    <3>3. frontIsUnknown => UnknownIsShowing
      BY <1>a, CountTypes DEF frontIsUnknown, UnknownIsShowing
    <3>4. /\ pc' \in Looking => looping'
          /\ pc' \notin {"resolve", "tap"}
          /\ request' # "none" => reply' = "none"
          /\ pc' = "idle" <=> request' = "none"
      BY <1>a, <2>1, <3>1, ResultCounts
    <3>5. Serving'
      BY <1>a, <2>1, <3>4 DEF Serving
    <3>6. TriesArePaid'
      BY <2>1, <3>2 DEF TriesArePaid, frontIsUnknown
    <3> QED
      BY <3>2, <3>3, <3>5, <3>6 DEF Clears
  <2>4. CASE answer("500") /\ UNCHANGED <<alertTitle, looping, try>>
    <3>1. pc' = "idle" /\ request' = "none" /\ reply' = "500"
      BY <2>4 DEF answer
    <3> QED
      BY <1>a, <2>1, <3>1 DEF Serving, TriesArePaid, Clears, Looking
  <2> QED
    BY <1>2, <2>2, <2>3, <2>4 DEF alertMatchingTitle
<1>3. CASE findDismissButtonOnAlert
  <2>1. /\ pc = "find" /\ pc \in Looking /\ UNCHANGED <<showing, still, obeyed, alertTitle>>
        /\ alertTitle \in Recognized
    BY <1>3, <1>a DEF findDismissButtonOnAlert, quiet, history, Looking, TypeInv, EntryIsKnown
  <2>2. CASE showing = <<>> /\ current("NoAlert")
    <3>1. current("NoAlert")
      BY <2>2
    <3> QED
      BY <1>a, <2>1, <2>2, <3>1, NothingIsPaid
  <2>3. CASE pc' \in {"resolve", "default"} /\ UNCHANGED <<looping, try, request, reply>>
    BY <1>a, <2>1, <2>3, LookIsPaid DEF Looking
  <2> QED
    BY <1>3, <2>2, <2>3 DEF findDismissButtonOnAlert
<1>4. CASE defaultButton
  <2> DEFINE n == IF showing = <<>> THEN 0 ELSE Len(Buttons[Head(showing)])
  <2>1. /\ pc = "default" /\ pc \in Looking /\ UNCHANGED <<showing, still, obeyed, alertTitle>>
        /\ alertTitle \in Recognized
    BY <1>4, <1>a DEF defaultButton, quiet, history, Looking, TypeInv, EntryIsKnown
  <2>2. CASE n = 0 /\ current("NoAlert")
    <3>1. current("NoAlert")
      BY <2>2
    <3>2. still => showing = <<>>
      <4> SUFFICES ASSUME still PROVE FALSE
        OBVIOUS
      <4>1. n = Len(Buttons[alertTitle])
        BY <1>c, <2>1
      <4>2. alertTitle \in Alert /\ Buttons[alertTitle] \in Seq(Title)
        BY <2>1, EntryMarks, AlertAssumption DEF AlertAssumption
      <4>3. Buttons[alertTitle] # <<>>
        BY <2>1 DEF Labelled
      <4>4. \A s \in Seq(Title) : s # <<>> => Len(s) # 0
        OBVIOUS
      <4> QED
        BY <2>2, <4>1, <4>2, <4>3, <4>4
    <3> QED
      BY <1>a, <2>1, <3>1, <3>2, NothingIsPaid
  <2>3. CASE pc' = "resolve" /\ UNCHANGED <<looping, try, request, reply>>
    BY <1>a, <2>1, <2>3, LookIsPaid DEF Looking
  <2> QED
    BY <1>4, <2>2, <2>3 DEF defaultButton
<1>5. CASE resolve
  <2>1. /\ pc = "resolve" /\ pc \in Looking /\ UNCHANGED <<showing, still, obeyed, alertTitle>>
        /\ alertTitle \in Recognized
    BY <1>5, <1>a DEF resolve, quiet, history, Looking, Serving
  <2>2. CASE ~Present(button) /\ current("NoAlert")
    <3>1. current("NoAlert")
      BY <2>2
    <3>2. still => Present(button)
      BY <1>b, <1>c, <2>1, PresentOnFront DEF ChoiceIsSound
    <3> QED
      BY <1>a, <2>1, <2>2, <3>1, <3>2, NothingIsPaid
  <2>3. CASE pc' = "tap" /\ UNCHANGED <<looping, try, request, reply>>
    BY <1>a, <2>1, <2>3, LookIsPaid DEF Looking
  <2> QED
    BY <1>5, <2>2, <2>3 DEF resolve
<1>6. CASE tap
  <2>1. pc = "tap" /\ pc \in Looking /\ alertTitle \in Recognized /\ UNCHANGED alertTitle
    BY <1>6, <1>a DEF tap, Looking, Serving
  <2>2. PICK result \in {"Failed", "DismissedAlert"} : current(result)
    BY <1>6 DEF tap
  <2>3. /\ pc' \in Looking => looping' /\ try' = IF looping THEN try + 1 ELSE try
        /\ pc' \notin {"resolve", "tap"}
        /\ request' # "none" => reply' = "none"
        /\ pc' = "idle" <=> request' = "none"
        /\ reply' = "blocked" => looping /\ try + 1 = MaxTries
    BY <1>a, <2>1, <2>2, ResultCounts
  <2>4. showing' = showing \/ (showing # <<>> /\ showing' = Tail(showing))
    BY <1>6 DEF tap, raises, touch, Present
  <2>5. Len(showing') <= MaxShowing
    BY <1>a, <2>4, CountTypes DEF Serving
  <2>6. Serving'
    BY <2>3, <2>5 DEF Serving
  <2>7. still' = still
    BY <1>6 DEF tap, raises, touch
  <2>8. ASSUME still, obeyed'
        PROVE  /\ Len(showing) > 0 /\ Len(showing') = Len(showing) - 1
               /\ looping => try + Len(showing) < MaxShowing
    <3>1. obeyed /\ showing # <<>> /\ showing' = Tail(showing)
      BY <1>6, <2>8 DEF tap, raises, touch, Present
    <3>2. ~frontIsUnknown
      BY <1>c, <2>1, <2>8 DEF frontIsUnknown
    <3>3. looping => try + Len(showing) < MaxShowing
      BY <1>a, <2>1, <2>8, <3>1, <3>2 DEF TriesArePaid
    <3> QED
      BY <1>a, <3>1, <3>3, CountTypes
  <2>9. TriesArePaid'
    <3> SUFFICES ASSUME still', obeyed', pc' \in Looking
                 PROVE  try' + Len(showing') < MaxShowing
      BY DEF TriesArePaid
    <3>1. CASE looping
      BY <1>a, <2>3, <2>7, <2>8, <3>1, CountTypes
    <3>2. CASE ~looping
      <4>1. try = 0 /\ try' = 0 /\ Len(showing) <= MaxShowing
        BY <1>a, <2>1, <2>3, <3>2 DEF Serving
      <4> QED
        BY <1>a, <2>7, <2>8, <4>1, CountTypes
    <3> QED
      BY <3>1, <3>2
  <2>10. ~(still /\ obeyed' /\ reply' = "blocked")
    <3> SUFFICES ASSUME still, obeyed', reply' = "blocked" PROVE FALSE
      OBVIOUS
    <3>1. try + 1 = MaxTries /\ try + Len(showing) < MaxShowing /\ Len(showing) > 0
      BY <2>3, <2>8
    <3> QED
      BY <1>a, <3>1, CountTypes DEF FewAlerts
  <2> QED
    BY <2>6, <2>9, <2>10 DEF Clears
<1>7. CASE executeGesture \/ dismissAlerts \/ askQuery \/ askResolve \/ askTap
  <2>1. pc \in Asking \cup {"act"} /\ request # "none" /\ reply = "none"
    BY <1>7, <1>a DEF executeGesture, dismissAlerts, askQuery, askResolve, askTap, Asking, Serving
  <2>2. \/ pc' = "idle" /\ request' = "none" /\ reply' # "blocked"
        \/ pc' \in Asking /\ UNCHANGED <<request, reply>>
    BY <1>7 DEF executeGesture, dismissAlerts, askQuery, askResolve, askTap, answer, Asking
  <2>3. showing' = showing \/ (showing # <<>> /\ showing' = Tail(showing))
    BY <1>7 DEF executeGesture, dismissAlerts, askQuery, askResolve, askTap, quiet, raises, touch, Present
  <2>4. Len(showing') <= MaxShowing
    BY <1>a, <2>3, CountTypes DEF Serving
  <2>5. pc' \notin Looking /\ pc' \notin {"resolve", "tap"} /\ reply' # "blocked"
        /\ (pc' = "idle" <=> request' = "none") /\ (request' # "none" => reply' = "none")
    BY <2>1, <2>2 DEF Asking, Looking
  <2> QED
    BY <2>4, <2>5 DEF Serving, TriesArePaid, Clears
<1> QED
  BY <1>1, <1>2, <1>3, <1>4, <1>5, <1>6, <1>7 DEF Handler

LEMMA NextIsPaid ==
    ASSUME Labelled, FewAlerts
    PROVE  PaidInv /\ [Next]_vars => PaidInv'
<1> SUFFICES ASSUME PaidInv, [Next]_vars PROVE PaidInv'
  OBVIOUS
<1>a. CalmInv' /\ TypeInv' /\ TypeInv /\ Serving /\ TriesArePaid
  BY NextCalm DEF PaidInv, CalmInv
<1> SUFFICES Serving' /\ TriesArePaid'
  BY <1>a DEF PaidInv
<1>1. CASE Handler
  BY <1>1, <1>a, HandlerIsPaid
<1>2. ASSUME NEW kind \in {"gesture", "dismiss-alerts"}, handleAlertsOrThrow(kind)
      PROVE  Serving' /\ TriesArePaid'
  <2>1. /\ request' = kind /\ pc' \in {"query", "act"} /\ looping' = FALSE /\ try' = 0
        /\ reply' = "none" /\ UNCHANGED showing
    BY <1>2 DEF handleAlertsOrThrow
  <2> QED
    BY <1>a, <2>1 DEF Serving, TriesArePaid
<1>3. ASSUME NEW t \in Title, dismissAlert(t) PROVE Serving' /\ TriesArePaid'
  <2>1. /\ request' = "dismiss-alert" /\ pc' = "askQuery" /\ reply' = "none" /\ UNCHANGED showing
    BY <1>3 DEF dismissAlert
  <2> QED
    BY <1>a, <2>1 DEF Serving, TriesArePaid, Looking
<1>4. CASE \/ \E value \in BOOLEAN : setDismissAutomatically(value)
           \/ UNCHANGED vars
  <2>1. UNCHANGED <<showing, request, pc, alertTitle, looping, try, reply, still, obeyed>>
    BY <1>4 DEF setDismissAutomatically, vars, callVars, history
  <2> QED
    BY <1>a, <2>1 DEF Serving, TriesArePaid, frontIsUnknown
<1>5. CASE vanish \/ \E a \in Alert : appear(a)
  <2>1. /\ still' = FALSE
        /\ UNCHANGED <<request, pc, alertTitle, looping, try, reply>>
    BY <1>5 DEF vanish, appear, ChangesByItself, callVars
  <2>2. Len(showing') <= MaxShowing
    <3>1. CASE vanish
      <4>1. showing # <<>> /\ showing' = Tail(showing)
        BY <3>1 DEF vanish, ChangesByItself
      <4> QED
        BY <1>a, <4>1, CountTypes DEF Serving
    <3>2. ASSUME NEW a \in Alert, appear(a) PROVE Len(showing') <= MaxShowing
      <4>1. Len(showing) < MaxShowing
        BY <3>2 DEF appear
      <4>2. showing' = <<a>> \o showing \/ showing' = Append(showing, a)
        BY <3>2 DEF appear, ChangesByItself
      <4>3. \A s \in Seq(Alert) : Len(<<a>> \o s) = Len(s) + 1 /\ Len(Append(s, a)) = Len(s) + 1
        OBVIOUS
      <4>4. Len(showing') = Len(showing) + 1
        BY <1>a, <4>2, <4>3, CountTypes
      <4> QED
        BY <1>a, <4>1, <4>4, CountTypes
    <3> QED
      BY <1>5, <3>1, <3>2
  <2> QED
    BY <1>a, <2>1, <2>2 DEF Serving, TriesArePaid
<1> QED
  BY <1>1, <1>2, <1>3, <1>4, <1>5 DEF Next, Client

(* A request whose touches work is not turned away by alerts that are       *)
(* recognized, if there are fewer of them than tries, whatever their        *)
(* number: the loop spends a try on each, and has one left for the look     *)
(* that finds none.                                                         *)
THEOREM KnownAlertsGo == Labelled /\ FewAlerts => (Spec => KnownAlertsAreCleared)
<1> SUFFICES ASSUME Labelled, FewAlerts PROVE Spec => KnownAlertsAreCleared
  OBVIOUS
<1>1. Init => PaidInv
  <2> SUFFICES ASSUME Init PROVE PaidInv
    OBVIOUS
  <2>1. Len(showing) = 0 /\ MaxShowing \in Nat
    BY AlertAssumption DEF Init, AlertAssumption
  <2>2. Serving /\ TriesArePaid
    BY <2>1 DEF Init, Serving, TriesArePaid, Looking
  <2> QED
    BY <2>2, InitCalm DEF PaidInv
<1>2. PaidInv /\ [Next]_vars => PaidInv'
  BY NextIsPaid
<1>3. ASSUME PaidInv, [Next]_vars, request # "none", reply' = "blocked", still, obeyed'
      PROVE  UnknownIsShowing
  <2>1. reply = "none"
    BY <1>3 DEF PaidInv, Serving
  <2>2. Handler
    BY <1>3, <2>1 DEF Next, Client, handleAlertsOrThrow, dismissAlert, setDismissAutomatically,
       vanish, appear, ChangesByItself, vars
  <2>3. TypeInv'
    BY <1>2, <1>3 DEF PaidInv, CalmInv
  <2> QED
    BY <1>3, <2>2, <2>3, HandlerIsPaid DEF Clears
<1>4. PaidInv /\ [Next]_vars =>
          (request # "none" /\ reply' = "blocked" /\ still /\ obeyed' =>
              \E i \in DOMAIN showing : showing[i] \notin Recognized)
  BY <1>3 DEF UnknownIsShowing
<1> QED
  BY <1>1, <1>2, <1>4, PTL DEF Spec, KnownAlertsAreCleared
-------------------------------------------------------------------------------
(* How many steps the handler may still take.  A pass of handleAlert has six *)
(* looks and touches; one pass is outside the loop, the others are its tries. *)
LooksLeft == CASE pc = "query" -> 6
               [] pc = "match" -> 5
               [] pc = "find" -> 4
               [] pc = "default" -> 3
               [] pc = "resolve" -> 2
               [] OTHER -> 1

PassesLeft == IF looping THEN MaxTries - 1 - try ELSE MaxTries - try

AskStepsLeft == CASE pc = "askQuery" -> 3
                  [] pc = "askResolve" -> 2
                  [] OTHER -> 1

StepsLeft == IF pc = "idle" THEN 0
             ELSE IF pc = "act" THEN 1
             ELSE IF pc \in Asking THEN AskStepsLeft
             ELSE LooksLeft + 6 * PassesLeft + 1

MaxSteps == 6 * (MaxTries + 1) + 1

StepsAreCounted == /\ StepsLeft \in 0 .. MaxSteps
                   /\ StepsLeft = 0 <=> pc = "idle"

(* A number times six grows with it. *)
LEMMA SixTimes ==
    \A a, b \in Nat : 6 * a \in Nat /\ (a < b => 6 * a + 6 <= 6 * b) /\ (a <= b => 6 * a <= 6 * b)
  OBVIOUS

LEMMA WorkTypes ==
    ASSUME TypeInv
    PROVE  /\ PassesLeft \in 0 .. MaxTries \/ pc \notin Looking
           /\ LooksLeft \in 1 .. 6
           /\ AskStepsLeft \in 1 .. 3
           /\ MaxTries \in Nat
<1>1. try \in 0 .. MaxTries /\ looping \in BOOLEAN /\ MaxTries \in Nat
  BY LimitType DEF TypeInv, TypeOK
<1>2. PassesLeft \in 0 .. MaxTries \/ pc \notin Looking
  BY <1>1 DEF TypeInv, TryIsBelow, PassesLeft
<1>3. LooksLeft \in 1 .. 6 /\ AskStepsLeft \in 1 .. 3
  BY DEF LooksLeft, AskStepsLeft
<1> QED
  BY <1>1, <1>2, <1>3

LEMMA WorkIsCounted == TypeInv => StepsAreCounted
<1> SUFFICES ASSUME TypeInv PROVE StepsAreCounted
  OBVIOUS
<1>1. pc \in Looking \cup Asking \cup {"idle", "act"}
  BY DEF TypeInv, TypeOK
<1>2. CASE pc \in Looking
  <2>1. StepsLeft = LooksLeft + 6 * PassesLeft + 1
    BY <1>2 DEF StepsLeft, Looking, Asking
  <2>2. pc # "idle"
    BY <1>2 DEF Looking
  <2> QED
    BY <1>2, <2>1, <2>2, WorkTypes, SixTimes DEF StepsAreCounted, MaxSteps
<1>3. CASE pc \in Asking \cup {"idle", "act"}
  <2>1. /\ StepsLeft \in 0 .. 3
        /\ StepsLeft = 0 <=> pc = "idle"
    BY <1>3, WorkTypes DEF StepsLeft, Asking
  <2>2. MaxSteps \in Nat /\ MaxSteps >= 3
    BY WorkTypes, SixTimes DEF MaxSteps
  <2> QED
    BY <2>1, <2>2 DEF StepsAreCounted
<1> QED
  BY <1>1, <1>2, <1>3

(* A pass that ends leaves fewer passes, or none. *)
LEMMA ResultShrinksWork ==
    ASSUME TypeInv, TypeInv', pc \in Looking, NEW result, current(result)
    PROVE  StepsLeft' < StepsLeft
<1>1. /\ try \in 0 .. MaxTries /\ try' \in 0 .. MaxTries /\ MaxTries \in Nat
      /\ looping \in BOOLEAN /\ try < MaxTries
  BY LimitType DEF TypeInv, TypeOK, TryIsBelow
<1>2. /\ StepsLeft = LooksLeft + 6 * PassesLeft + 1
      /\ LooksLeft \in 1 .. 6 /\ PassesLeft \in Nat
  BY WorkTypes DEF StepsLeft, Looking, Asking
<1>3. StepsLeft > 1
  BY <1>2, SixTimes
<1>4. CASE pc' \in {"act", "idle"}
  <2>1. StepsLeft' \in {0, 1}
    BY <1>4 DEF StepsLeft
  <2>2. 6 * PassesLeft \in Nat
    BY <1>2, SixTimes
  <2> QED
    BY <1>2, <2>1, <2>2
<1>5. CASE pc' = "query"
  <2>1. looping' = TRUE /\ try' = IF looping THEN try + 1 ELSE try
    BY <1>5, <1>1 DEF current, answer
  <2>2. PassesLeft' < PassesLeft /\ PassesLeft' \in Nat
    <3>1. try' < MaxTries
      BY <1>5 DEF TypeInv, TryIsBelow, Looking
    <3>2. PassesLeft' = MaxTries - 1 - try'
      BY <2>1 DEF PassesLeft
    <3> QED
      BY <1>1, <2>1, <3>1, <3>2 DEF PassesLeft
  <2>3. StepsLeft' = 6 + 6 * PassesLeft' + 1
    BY <1>5 DEF StepsLeft, LooksLeft, Asking
  <2>4. /\ 6 * PassesLeft \in Nat /\ 6 * PassesLeft' \in Nat
        /\ 6 * PassesLeft' + 6 <= 6 * PassesLeft
    BY <1>2, <2>2, SixTimes
  <2> QED
    BY <1>2, <2>3, <2>4
<1> QED
  BY <1>4, <1>5, ResultIsTyped

(* The next look of a pass is one step less. *)
LEMMA LookShrinksWork ==
    ASSUME TypeInv, UNCHANGED <<looping, try>>,
           <<pc, pc'>> \in {<<"query", "match">>, <<"match", "find">>, <<"find", "default">>,
                            <<"find", "resolve">>, <<"default", "resolve">>, <<"resolve", "tap">>}
    PROVE  StepsLeft' < StepsLeft
<1>1. pc \in Looking /\ pc' \in Looking
  BY DEF Looking
<1>2. PassesLeft' = PassesLeft /\ PassesLeft \in Nat
  BY <1>1, WorkTypes DEF PassesLeft
<1>3. LooksLeft \in Nat /\ LooksLeft' \in Nat /\ LooksLeft' < LooksLeft
  BY DEF LooksLeft
<1>4. /\ StepsLeft = LooksLeft + 6 * PassesLeft + 1
      /\ StepsLeft' = LooksLeft' + 6 * PassesLeft + 1
  BY <1>1, <1>2 DEF StepsLeft, Looking, Asking
<1>5. 6 * PassesLeft \in Nat
  BY <1>2, SixTimes
<1> QED
  BY <1>3, <1>4, <1>5

LEMMA HandlerShrinksWork ==
    ASSUME TypeInv, TypeInv', Handler
    PROVE  pc # "idle" /\ StepsLeft' < StepsLeft
<1>1. CASE queryForAlert
  <2>1. pc \in Looking /\ pc = "query"
    BY <1>1 DEF queryForAlert, Looking
  <2> QED
    BY <1>1, <2>1, ResultShrinksWork, LookShrinksWork DEF queryForAlert
<1>2. CASE alertMatchingTitle
  <2>1. pc \in Looking /\ pc = "match"
    BY <1>2 DEF alertMatchingTitle, Looking
  <2>2. CASE answer("500")
    <3>1. StepsLeft' = 0 /\ StepsLeft \in Nat /\ StepsLeft # 0
      BY <2>1, <2>2, WorkIsCounted DEF answer, StepsLeft, StepsAreCounted
    <3> QED
      BY <2>1, <3>1
  <2> QED
    BY <1>2, <2>1, <2>2, ResultShrinksWork, LookShrinksWork DEF alertMatchingTitle
<1>3. CASE findDismissButtonOnAlert
  <2>1. pc \in Looking /\ pc = "find"
    BY <1>3 DEF findDismissButtonOnAlert, Looking
  <2>2. \/ current("NoAlert")
        \/ UNCHANGED <<looping, try>> /\ pc' \in {"resolve", "default"}
    BY <1>3 DEF findDismissButtonOnAlert
  <2> QED
    BY <2>1, <2>2, ResultShrinksWork, LookShrinksWork
<1>4. CASE defaultButton
  <2>1. pc \in Looking /\ pc = "default"
    BY <1>4 DEF defaultButton, Looking
  <2>2. \/ current("NoAlert")
        \/ UNCHANGED <<looping, try>> /\ pc' = "resolve"
    BY <1>4 DEF defaultButton
  <2> QED
    BY <2>1, <2>2, ResultShrinksWork, LookShrinksWork
<1>5. CASE resolve
  <2>1. pc \in Looking /\ pc = "resolve"
    BY <1>5 DEF resolve, Looking
  <2> QED
    BY <1>5, <2>1, ResultShrinksWork, LookShrinksWork DEF resolve
<1>6. CASE tap
  <2>1. pc \in Looking /\ pc = "tap"
    BY <1>6 DEF tap, Looking
  <2> QED
    BY <1>6, <2>1, ResultShrinksWork DEF tap
<1>7. CASE executeGesture \/ dismissAlerts
  <2>1. pc = "act" /\ pc' = "idle"
    BY <1>7 DEF executeGesture, dismissAlerts, answer
  <2> QED
    BY <2>1 DEF StepsLeft
<1>8. CASE askQuery \/ askResolve \/ askTap
  <2>1. \/ pc \in Asking /\ pc' = "idle"
        \/ <<pc, pc'>> \in {<<"askQuery", "askResolve">>, <<"askResolve", "askTap">>}
    BY <1>8 DEF askQuery, askResolve, askTap, answer, Asking
  <2> QED
    BY <2>1 DEF StepsLeft, AskStepsLeft, Asking
<1> QED
  BY <1>1, <1>2, <1>3, <1>4, <1>5, <1>6, <1>7, <1>8 DEF Handler

(* What is not a step of the handler leaves its work as it is. *)
LEMMA OthersLeaveWork ==
    ASSUME [Next]_vars, ~Handler, pc # "idle"
    PROVE  UNCHANGED <<pc, StepsLeft>>
<1>1. UNCHANGED <<pc, looping, try>>
  BY DEF Next, Client, handleAlertsOrThrow, dismissAlert, setDismissAutomatically,
         vanish, appear, ChangesByItself, vars, callVars
<1> QED
  BY <1>1 DEF StepsLeft, LooksLeft, PassesLeft, AskStepsLeft

LEMMA TypeInvHolds == Spec => []TypeInv
  BY InitType, NextType, PTL DEF Spec

(* The work of a request is bounded by the number of tries, whatever the      *)
(* screen does: each step of its handler is one of at most 6 * maxTries + 7,  *)
(* and nothing gives it more (SpringBoard.m:86-118).                          *)
WorkShrinks ==
    [][/\ Handler => pc # "idle" /\ StepsLeft' < StepsLeft
       /\ ~Handler /\ pc # "idle" => UNCHANGED <<pc, StepsLeft>>]_vars

THEOREM RequestsAreBounded == Spec => []StepsAreCounted /\ WorkShrinks
<1>1. TypeInv /\ TypeInv' /\ [Next]_vars =>
          /\ Handler => pc # "idle" /\ StepsLeft' < StepsLeft
          /\ ~Handler /\ pc # "idle" => UNCHANGED <<pc, StepsLeft>>
  BY HandlerShrinksWork, OthersLeaveWork
<1> QED
  BY <1>1, TypeInvHolds, WorkIsCounted, PTL DEF Spec, WorkShrinks

-------------------------------------------------------------------------------
(***************************************************************************)
(* Steps are put together by doubling.  Induction over their number would  *)
(* reach any number, but TLA+ has no set of the numbers for which a        *)
(* temporal formula fails; forty doublings reach 2^40 steps, far more than  *)
(* a request ever takes.                                                   *)
(***************************************************************************)
Reach == 1099511627776

(* The handler is never stuck: it can take a step as long as it has not        *)
(* answered.  ENABLED is not expanded by the provers; HandlerReturns of a run  *)
(* shows that its instance has this property.                                *)
NeverStuck == pc # "idle" => ENABLED <<Handler>>_vars

ReturnsWithin(n) ==
    FairSpec /\ []NeverStuck => [](StepsLeft <= n => <>(pc = "idle"))

LEMMA ReturnsAtOnce == ReturnsWithin(0)
<1>1. TypeInv /\ StepsLeft <= 0 => pc = "idle"
  BY WorkIsCounted DEF StepsAreCounted
<1> QED
  BY <1>1, TypeInvHolds, PTL DEF ReturnsWithin, FairSpec

(* With one more step left, fairness makes the handler take it. *)
LEMMA ReturnsAStepLater ==
    ASSUME NEW n \in Nat
    PROVE  ReturnsWithin(n) => ReturnsWithin(n + 1)
<1>1. TypeInv /\ StepsLeft <= n + 1 => StepsLeft <= n \/ StepsLeft = n + 1
  BY WorkIsCounted, WorkTypes DEF StepsAreCounted, MaxSteps
<1>2. TypeInv /\ StepsLeft = n + 1 => pc # "idle"
  BY WorkIsCounted DEF StepsAreCounted
<1>3. TypeInv /\ TypeInv' /\ StepsLeft = n + 1 /\ Handler => (StepsLeft <= n)'
  <2> SUFFICES ASSUME TypeInv, TypeInv', StepsLeft = n + 1, Handler PROVE (StepsLeft <= n)'
    OBVIOUS
  <2>1. StepsLeft' < n + 1
    BY HandlerShrinksWork
  <2>2. StepsLeft' \in Nat
    <3>1. StepsAreCounted' /\ MaxTries \in Nat
      BY WorkIsCounted, LimitType, PTL
    <3> QED
      BY <3>1 DEF StepsAreCounted, MaxSteps
  <2> QED
    BY <2>1, <2>2
<1>4. TypeInv /\ TypeInv' /\ StepsLeft = n + 1 /\ [Next]_vars
          => (StepsLeft = n + 1)' \/ (StepsLeft <= n)'
  BY <1>2, <1>3, OthersLeaveWork
<1>5. TypeInv /\ TypeInv' /\ StepsLeft = n + 1 /\ <<Handler>>_vars => (StepsLeft <= n)'
  BY <1>3
<1>6. TypeInv /\ StepsLeft = n + 1 /\ NeverStuck => ENABLED <<Handler>>_vars
  BY <1>2 DEF NeverStuck
<1> QED
  BY <1>1, <1>4, <1>5, <1>6, TypeInvHolds, PTL DEF ReturnsWithin, FairSpec, Spec

Carries(k) == \A n \in Nat : ReturnsWithin(n) => ReturnsWithin(n + k)

LEMMA CarriesTwice == ASSUME NEW k \in Nat PROVE Carries(k) => Carries(k + k)
<1> SUFFICES ASSUME Carries(k), NEW n \in Nat, ReturnsWithin(n) PROVE ReturnsWithin(n + (k + k))
  BY DEF Carries
<1> HIDE DEF ReturnsWithin
<1>1. ReturnsWithin(n + k)
  BY DEF Carries
<1>2. n + k \in Nat /\ (n + k) + k = n + (k + k)
  OBVIOUS
<1>3. ReturnsWithin((n + k) + k)
  BY <1>1, <1>2 DEF Carries
<1> QED
  BY <1>2, <1>3

LEMMA ReturnsWithinReach == ReturnsWithin(Reach)
<1>1. Carries(1)
  BY ReturnsAStepLater DEF Carries
<1> HIDE DEF Carries
<1>2. Carries(16)
  BY <1>1, CarriesTwice
<1>3. Carries(256)
  BY <1>2, CarriesTwice
<1>4. Carries(4096)
  BY <1>3, CarriesTwice
<1>5. Carries(65536)
  BY <1>4, CarriesTwice
<1>6. Carries(1048576)
  BY <1>5, CarriesTwice
<1>7. Carries(16777216)
  BY <1>6, CarriesTwice
<1>8. Carries(268435456)
  BY <1>7, CarriesTwice
<1>9. Carries(4294967296)
  BY <1>8, CarriesTwice
<1>10. Carries(68719476736)
  BY <1>9, CarriesTwice
<1>11. Carries(1099511627776)
  BY <1>10, CarriesTwice
<1>12. ReturnsWithin(0 + 1099511627776)
  BY <1>11, ReturnsAtOnce DEF Carries
<1> QED
  BY <1>12 DEF Reach

(* Every request is answered, however the screen changes, if the main thread  *)
(* goes on with its handler: handleAlertsOrThrow does not loop for ever       *)
(* (SpringBoard.h:65).                                                       *)
THEOREM HandlersReturn ==
    ASSUME MaxSteps <= Reach
    PROVE  FairSpec /\ []NeverStuck => HandlerReturns
<1>1. MaxSteps \in Nat
  BY LimitType DEF MaxSteps
<1>2. ReturnsWithin(Reach)
  BY ReturnsWithinReach
<1>3. TypeInv => StepsLeft <= Reach
  BY WorkIsCounted, <1>1 DEF StepsAreCounted, Reach
<1> QED
  BY <1>2, <1>3, TypeInvHolds, PTL DEF ReturnsWithin, FairSpec, HandlerReturns
================================================================================
