-------------------------- MODULE TextGesturesProofs --------------------------
(***************************************************************************)
(* Proofs about TextGestures, for any fields, any length of texts, any     *)
(* pickers and any number of pending events.  The last part counts the     *)
(* steps a request has left, and the events in front of the one it waits   *)
(* for, and concludes that it is answered.                                 *)
(***************************************************************************)
EXTENDS TextGestures, SequenceTheorems, TLAPS

(* The handler of clear_text is running. *)
Clearing == pc \in {"value", "key", "delete"} \/ (pc = "sync" /\ gesture = "clear_text")

StepOfGesture ==
    /\ pc \in {"value", "key", "delete"} => gesture = "clear_text"
    /\ pc = "sync" => gesture \in {"touch", "enter_text", "clear_text"}
    /\ pc = "home" => gesture = "home"

ResponderIsField ==
    /\ Clearing => responder \in Field
    /\ pc = "value" => index = 0

NoneIsMine == \A i \in DOMAIN queue : ~queue[i].mine

(* The completion of the event runSync waits for has been called. *)
Called == done \/ completion # "none"
USE DEF Called

(* The handler has at most one event out, and none while it is not waiting; a *)
(* completion runs while it waits.                                           *)
OneIsOut ==
    /\ \A i, j \in DOMAIN queue : queue[i].mine /\ queue[j].mine => i = j
    /\ pc \in {"idle", "value", "key", "delete"} => NoneIsMine
    /\ pc = "sync" /\ Called => NoneIsMine
    /\ completion # "none" => pc = "sync" /\ ~done

(* outerError has not lost an error of an earlier event. *)
ErrorsAreKept ==
    /\ pc \in {"value", "key"} => ~refused /\ ~outerError
    /\ pc = "sync" /\ ~Called => ~refused /\ ~outerError
    /\ pc = "delete" \/ (pc = "sync" /\ Called) => (refused => outerError)

(* TypeOK in two parts. *)
Flags == /\ outerError \in BOOLEAN /\ done \in BOOLEAN
         /\ refused \in BOOLEAN /\ picked \in BOOLEAN /\ alone \in BOOLEAN

Screen ==
    /\ text \in [Field -> 0 .. MaxText]
    /\ behind \in [Field -> 0 .. MaxText]
    /\ focus \in Field \cup {NoField}
    /\ deleteKey \in {"shown", "hidden", "offscreen"}

Types ==
    /\ Screen
    /\ queue \in Seq(Event)
    /\ pc \in {"idle", "value", "key", "delete", "sync", "home"}
    /\ gesture \in {"none", "touch", "enter_text", "clear_text", "home", "volume",
                    "set_picker_wheel_value"}
    /\ responder \in Field \cup {NoField}
    /\ string \in 0 .. MaxText
    /\ index \in 0 .. string
    /\ key \in {"tap delete", "delete"}
    /\ completion \in {"none", "performed", "failed"}
    /\ reply \in {"none", "success", "error", "500"}

Control == StepOfGesture /\ ResponderIsField /\ ErrorsAreKept

Inv == Flags /\ Types /\ Control /\ OneIsOut

-------------------------------------------------------------------------------
LEMMA Bounds == MaxText \in Nat /\ MaxText > 0 /\ NoField \notin Field /\ MaxPending \in Nat
  BY TextAssumption DEF TextAssumption

LEMMA EventIsEvent ==
    ASSUME NEW k \in {"touch", "string", "tap delete", "delete", "home", "volume"},
           NEW f \in Field \cup {NoField}, NEW n \in 0 .. MaxText
    PROVE  /\ event(k, f, n) \in Event
           /\ [event(k, f, n) EXCEPT !.mine = FALSE] \in Event
           /\ event(k, f, n).mine /\ event(k, f, n).kind = k
           /\ ~[event(k, f, n) EXCEPT !.mine = FALSE].mine
           /\ [event(k, f, n) EXCEPT !.mine = FALSE].kind = k
  BY DEF event, Event

(* What answering, sending and performing do to the queue. *)
LEMMA Disowned ==
    ASSUME queue \in Seq(Event),
           queue' = [i \in DOMAIN queue |-> [queue[i] EXCEPT !.mine = FALSE]]
    PROVE  /\ queue' \in Seq(Event)
           /\ DOMAIN queue' = DOMAIN queue
           /\ \A i \in DOMAIN queue' : ~queue'[i].mine /\ queue'[i].kind = queue[i].kind
<1>1. \A i \in DOMAIN queue : queue[i] \in Event
  OBVIOUS
<1>2. \A i \in DOMAIN queue : [queue[i] EXCEPT !.mine = FALSE] \in Event
  BY <1>1 DEF Event
<1>3. DOMAIN queue = 1 .. Len(queue) /\ Len(queue) \in Nat
  OBVIOUS
<1>4. queue' \in Seq(Event)
  BY <1>2, <1>3
<1>5. \A i \in DOMAIN queue : [queue[i] EXCEPT !.mine = FALSE].mine = FALSE
                             /\ [queue[i] EXCEPT !.mine = FALSE].kind = queue[i].kind
  BY <1>1 DEF Event
<1> QED
  BY <1>4, <1>5

LEMMA Appended ==
    ASSUME NEW q \in Seq(Event), NEW e \in Event
    PROVE  /\ Append(q, e) \in Seq(Event)
           /\ DOMAIN Append(q, e) = DOMAIN q \cup {Len(q) + 1}
           /\ Len(q) + 1 \notin DOMAIN q
           /\ \A i \in DOMAIN q : Append(q, e)[i] = q[i]
           /\ Append(q, e)[Len(q) + 1] = e
  OBVIOUS

LEMMA Tailed ==
    ASSUME NEW q \in Seq(Event), q # <<>>
    PROVE  /\ Tail(q) \in Seq(Event)
           /\ Head(q) \in Event
           /\ 1 \in DOMAIN q /\ Head(q) = q[1]
           /\ \A i \in DOMAIN Tail(q) : i + 1 \in DOMAIN q /\ Tail(q)[i] = q[i + 1]
                                       /\ i + 1 # 1 /\ i \in Nat
  OBVIOUS

-------------------------------------------------------------------------------
LEMMA InitInv == Init => Inv
<1> SUFFICES ASSUME Init PROVE Inv
  OBVIOUS
<1>1. Flags
  BY DEF Init, Flags
<1>2. Types
  BY Bounds DEF Init, Types, Screen
<1>3. Control
  BY DEF Init, Control, StepOfGesture, ResponderIsField, ErrorsAreKept, Clearing
<1>4. OneIsOut
  BY DEF Init, OneIsOut, NoneIsMine
<1> QED
  BY <1>1, <1>2, <1>3, <1>4 DEF Inv

LEMMA InvImplies == Inv => TypeOK
  BY DEF Inv, Flags, Types, Screen, TypeOK

(* What an event does to the screen is well typed. *)
LEMMA ScreenIsKept ==
    ASSUME Screen, NEW e \in Event, perform(e)
    PROVE  Screen'
<1> USE Bounds DEF Screen, device
<1>1. CASE focus' = e.field /\ UNCHANGED <<text, behind, deleteKey>>
  BY <1>1 DEF Event
<1>2. CASE focus # NoField /\ insert(e.length) /\ UNCHANGED <<behind, focus, deleteKey>>
  <2>1. e.length \in 0 .. MaxText
    BY DEF Event
  <2>2. text[focus] \in 0 .. MaxText
    BY <1>2
  <2> QED
    BY <1>2, <2>1, <2>2 DEF insert
<1>3. CASE focus # NoField /\ deleteBackward /\ UNCHANGED <<behind, focus, deleteKey>>
  <2>1. text[focus] \in 0 .. MaxText /\ behind[focus] \in 0 .. MaxText
    BY <1>3
  <2> QED
    BY <1>3, <2>1 DEF deleteBackward
<1>4. CASE focus' = NoField /\ deleteKey' = "hidden" /\ UNCHANGED <<text, behind>>
  BY <1>4
<1>5. CASE UNCHANGED device
  BY <1>5
<1> QED
  BY <1>1, <1>2, <1>3, <1>4, <1>5 DEF perform

(* The application changes nothing but the screen. *)
LEMMA DeviceKeepsInv == ASSUME Inv, Device PROVE Inv'
<1>1. byItself
  BY DEF Device, edit, moveCaret, moveFocus, changeKeyboard
<1>2. Screen'
  <2>1. ASSUME NEW f \in Field, NEW n \in 0 .. MaxText, edit(f, n) \/ moveCaret(f, n)
        PROVE  Screen'
    <3>1. CASE edit(f, n)
      <4>1. text' \in [Field -> 0 .. MaxText] /\ UNCHANGED <<focus, deleteKey>>
        BY <2>1, <3>1 DEF Inv, Types, Screen, edit
      <4>2. behind' \in [Field -> 0 .. MaxText]
        <5>1. 0 \in 0 .. MaxText
          BY Bounds
        <5>2. behind \in [Field -> 0 .. MaxText] /\ behind' = [behind EXCEPT ![f] = 0]
          BY <3>1 DEF Inv, Types, Screen, edit
        <5> QED
          BY <5>1, <5>2
      <4> QED
        BY <4>1, <4>2 DEF Inv, Types, Screen
    <3>2. CASE moveCaret(f, n)
      BY <2>1, <3>2, Bounds DEF Inv, Types, Screen, moveCaret
    <3> QED
      BY <2>1, <3>1, <3>2
  <2>2. ASSUME NEW f \in Field \cup {NoField}, moveFocus(f) PROVE Screen'
    BY <2>2 DEF Inv, Types, Screen, moveFocus
  <2>3. ASSUME NEW k \in {"shown", "hidden", "offscreen"}, changeKeyboard(k) PROVE Screen'
    BY <2>3 DEF Inv, Types, Screen, changeKeyboard
  <2> QED
    BY <2>1, <2>2, <2>3 DEF Device
<1>3. Flags'
  BY <1>1 DEF Inv, Flags, byItself
<1>4. Types'
  BY <1>1, <1>2 DEF Inv, Types, byItself, clearing
<1>5. Control'
  BY <1>1 DEF Inv, Control, StepOfGesture, ResponderIsField, ErrorsAreKept, Clearing,
     byItself, clearing
<1>6. OneIsOut'
  BY <1>1 DEF Inv, OneIsOut, NoneIsMine, byItself
<1> QED
  BY <1>3, <1>4, <1>5, <1>6 DEF Inv

(* What the statements of a completion do. *)
LEMMA Statements ==
    ASSUME NEW b
    PROVE  /\ statement(1, b) => outerError' = b /\ done' = done
           /\ statement(2, b) => done' = TRUE /\ outerError' = outerError
  BY DEF statement

LEMMA Completed ==
    ASSUME NEW e, NEW b, complete(e, b)
    PROVE  /\ refused' = (refused \/ (e.mine /\ b))
           /\ done' = done
           /\ e.mine => outerError' = b
           /\ e.mine /\ pc = "sync" => completion' \in {"performed", "failed"}
           /\ ~(e.mine /\ pc = "sync") => completion' = completion
           /\ ~e.mine => outerError' = outerError
<1>1. refused' = (refused \/ (e.mine /\ b))
  BY DEF complete
<1>2. \/ ~e.mine /\ UNCHANGED <<outerError, done, completion>>
      \/ /\ e.mine
         /\ outerError' = b /\ done' = done
         /\ completion' = IF pc # "sync" THEN completion
                          ELSE IF b THEN "failed" ELSE "performed"
  BY Statements DEF complete
<1> QED
  BY <1>1, <1>2

(* A completion assigns nothing unless its event is the one out, and then no *)
(* other is.                                                                 *)
LEMMA SynthesizeKeepsInv == ASSUME Inv, synthesize PROVE Inv'
<1> DEFINE e == Head(queue)
<1>1. /\ queue \in Seq(Event) /\ queue # <<>> /\ queue' = Tail(queue)
      /\ UNCHANGED <<pc, gesture, clearing, reply, picked, alone>>
  BY DEF Inv, Types, synthesize
<1>2. /\ Tail(queue) \in Seq(Event) /\ e \in Event /\ 1 \in DOMAIN queue /\ e = queue[1]
      /\ \A i \in DOMAIN Tail(queue) : i + 1 \in DOMAIN queue /\ Tail(queue)[i] = queue[i + 1]
                                      /\ i + 1 # 1 /\ i \in Nat
  BY <1>1, Tailed
<1>3. \/ perform(e) /\ complete(e, FALSE)
      \/ UNCHANGED device /\ complete(e, TRUE)
  BY DEF synthesize
<1>4. e.mine => NoneIsMine'
  BY <1>1, <1>2 DEF Inv, OneIsOut, NoneIsMine
<1>5. NoneIsMine => ~e.mine /\ NoneIsMine'
  BY <1>1, <1>2 DEF NoneIsMine
<1>6. e.mine => outerError' = refused' \/ refused
  <2>1. CASE complete(e, FALSE)
    BY <2>1, Completed
  <2>2. CASE complete(e, TRUE)
    BY <2>2, Completed
  <2> QED
    BY <1>3, <2>1, <2>2
<1>7. /\ done' = done
      /\ e.mine /\ pc = "sync" => completion' \in {"performed", "failed"}
      /\ ~(e.mine /\ pc = "sync") => completion' = completion
      /\ ~e.mine => outerError' = outerError
      /\ ~e.mine => (refused' <=> refused)
  <2>1. PICK b \in BOOLEAN : complete(e, b)
    BY <1>3
  <2> QED
    BY <2>1, Completed
<1>8. Flags'
  <2>1. e.mine \in BOOLEAN
    BY <1>2 DEF Event
  <2>2. CASE complete(e, FALSE)
    BY <1>1, <2>1, <2>2, Completed DEF Inv, Flags
  <2>3. CASE complete(e, TRUE)
    BY <1>1, <2>1, <2>3, Completed DEF Inv, Flags
  <2> QED
    BY <1>3, <2>2, <2>3
<1>9. Types'
  <2>1. Screen'
    <3>1. CASE perform(e)
      BY <1>2, <3>1, ScreenIsKept DEF Inv, Types
    <3>2. CASE UNCHANGED device
      BY <3>2 DEF Inv, Types, Screen, device
    <3> QED
      BY <1>3, <3>1, <3>2
  <2>2. completion' \in {"none", "performed", "failed"}
    BY <1>7 DEF Inv, Types
  <2> QED
    BY <1>1, <1>2, <2>1, <2>2 DEF Inv, Types, clearing
<1>10. Control'
  <2>1. StepOfGesture' /\ ResponderIsField'
    BY <1>1 DEF Inv, Control, StepOfGesture, ResponderIsField, Clearing, clearing
  <2>2. ErrorsAreKept'
    <3>1. CASE e.mine
      <4>1. ~NoneIsMine /\ pc \notin {"value", "key", "delete"} /\ ~(pc = "sync" /\ Called)
        BY <1>5, <3>1 DEF Inv, OneIsOut
      <4>2. pc = "sync" => Called' /\ ~refused
        BY <1>7, <3>1, <4>1 DEF Inv, Control, ErrorsAreKept
      <4> QED
        BY <1>1, <1>6, <3>1, <4>1, <4>2 DEF ErrorsAreKept
    <3>2. CASE ~e.mine
      <4>1. /\ pc' = pc /\ outerError' = outerError
            /\ refused' <=> refused
            /\ done' = done /\ completion' = completion
        BY <1>1, <1>7, <3>2
      <4> QED
        BY <4>1, Zenon DEF Inv, Control, ErrorsAreKept
    <3> QED
      BY <3>1, <3>2
  <2> QED
    BY <2>1, <2>2 DEF Control
<1>11. OneIsOut'
  <2>1. \A i, j \in DOMAIN queue' : queue'[i].mine /\ queue'[j].mine => i = j
    <3> SUFFICES ASSUME NEW i \in DOMAIN Tail(queue), NEW j \in DOMAIN Tail(queue),
                        Tail(queue)[i].mine, Tail(queue)[j].mine
                 PROVE  i = j
      BY <1>1
    <3>1. i + 1 = j + 1
      BY <1>2 DEF Inv, OneIsOut
    <3> QED
      BY <1>2, <3>1
  <2>2. pc' \in {"idle", "value", "key", "delete"} => NoneIsMine'
    BY <1>1, <1>5 DEF Inv, OneIsOut
  <2>3. pc' = "sync" /\ Called' => NoneIsMine'
    BY <1>1, <1>4, <1>5, <1>7 DEF Inv, OneIsOut
  <2>4. completion' # "none" => pc' = "sync" /\ ~done'
    BY <1>1, <1>5, <1>7 DEF Inv, OneIsOut
  <2> QED
    BY <2>1, <2>2, <2>3, <2>4 DEF OneIsOut
<1> QED
  BY <1>8, <1>9, <1>10, <1>11 DEF Inv

(* The second statement raises the flag of a completion that was called. *)
LEMMA FinishKeepsInv == ASSUME Inv, finishCompletion PROVE Inv'
<1>1. /\ done' = TRUE /\ outerError' = outerError
      /\ completion # "none" /\ completion' = "none"
      /\ UNCHANGED <<device, queue, pc, gesture, clearing, reply, history>>
  BY DEF finishCompletion, statement
<1>2. pc = "sync" /\ NoneIsMine
  BY <1>1 DEF Inv, OneIsOut
<1>3. Flags'
  BY <1>1 DEF Inv, Flags, history
<1>4. Types'
  BY <1>1 DEF Inv, Types, Screen, device, clearing
<1>5. Control'
  BY <1>1, <1>2 DEF Inv, Control, StepOfGesture, ResponderIsField, ErrorsAreKept, Clearing,
     clearing, history
<1>6. OneIsOut'
  BY <1>1, <1>2 DEF Inv, OneIsOut, NoneIsMine
<1> QED
  BY <1>3, <1>4, <1>5, <1>6 DEF Inv

-------------------------------------------------------------------------------
(* The queue while an event of the handler's is added to it, and when the    *)
(* handler lets go of its events.                                            *)
LEMMA SentIsOut ==
    ASSUME queue \in Seq(Event), NoneIsMine, NEW e \in Event, queue' = Append(queue, e)
    PROVE  /\ queue' \in Seq(Event)
           /\ \A i, j \in DOMAIN queue' : queue'[i].mine /\ queue'[j].mine => i = j
           /\ ~e.mine => NoneIsMine'
  BY Appended DEF NoneIsMine

LEMMA AnsweredKeepsQueue ==
    ASSUME queue \in Seq(Event), NEW r, answer(r), completion' = "none"
    PROVE  queue' \in Seq(Event) /\ OneIsOut' /\ NoneIsMine'
<1>1. queue' \in Seq(Event) /\ NoneIsMine'
  BY Disowned DEF answer, NoneIsMine
<1> QED
  BY <1>1 DEF OneIsOut, NoneIsMine

LEMMA ClientKeepsInv == ASSUME Inv, Client PROVE Inv'
<1>c. completion = "none" /\ completion' = "none"
  BY DEF Client, touch, enterText, clearText, home, volume, setPickerWheelValue, receive,
     Inv, OneIsOut
<1> USE DEF receive, device, clearing
<1>q. queue \in Seq(Event)
  BY DEF Inv, Types
<1>1. ASSUME NEW k \in {"touch", "string"}, NEW f \in Field \cup {NoField}, NEW n \in 0 .. MaxText,
             receive(IF k = "touch" THEN "touch" ELSE "enter_text"),
             runSync(event(k, f, n)), reply' = "none", UNCHANGED <<clearing, alone>>
      PROVE  Inv'
  <2>1. Flags'
    BY <1>1 DEF Inv, Flags, runSync
  <2>2. NoneIsMine /\ event(k, f, n) \in Event
    BY <1>1, EventIsEvent DEF Inv, OneIsOut
  <2>3. queue' \in Seq(Event) /\ OneIsOut'
    BY <1>q, <1>1, <2>2, <1>c, SentIsOut DEF OneIsOut, runSync
  <2>4. Types'
    BY <1>c, <1>1, <2>3 DEF Inv, Types, Screen, runSync
  <2>5. Control'
    BY <1>1 DEF Inv, Control, StepOfGesture, ResponderIsField, ErrorsAreKept, Clearing, runSync
  <2> QED
    BY <2>1, <2>3, <2>4, <2>5 DEF Inv
<1>z. 0 \in 0 .. MaxText /\ NoField \in Field \cup {NoField}
  BY Bounds
<1>2. ASSUME NEW f \in Field, touch(f) PROVE Inv'
  <2>1. receive("touch") /\ runSync(event("touch", f, 0)) /\ reply' = "none"
        /\ UNCHANGED <<clearing, alone>>
    BY <1>2 DEF touch
  <2> HIDE DEF receive, clearing
  <2> QED
    BY <1>z, <1>1, <2>1
<1>3. ASSUME NEW n \in 1 .. MaxText, enterText(n) PROVE Inv'
  <2>1. /\ receive("enter_text") /\ runSync(event("string", NoField, n))
        /\ reply' = "none" /\ UNCHANGED <<clearing, alone>>
    BY <1>3 DEF enterText
  <2>2. n \in 0 .. MaxText
    OBVIOUS
  <2> HIDE DEF receive, clearing
  <2> QED
    BY <1>z, <1>1, <2>1, <2>2
<1>4. CASE clearText
  <2>1. Flags'
    BY <1>4 DEF Inv, Flags, clearText
  <2>2. queue' \in Seq(Event) /\ OneIsOut'
    <3>1. CASE answer("error")
      BY <1>q, <3>1, <1>c, AnsweredKeepsQueue
    <3>2. CASE pc' = "value" /\ UNCHANGED queue
      BY <1>q, <1>c, <1>4, <3>2 DEF Inv, OneIsOut, NoneIsMine, clearText
    <3> QED
      BY <1>4, <3>1, <3>2 DEF clearText
  <2>3. Types'
    <3>1. Screen' /\ responder' \in Field \cup {NoField} /\ UNCHANGED key /\ gesture' = "clear_text"
      BY <1>4 DEF Inv, Types, Screen, clearText
    <3>2. string' = 0 /\ index' = 0
      BY <1>4 DEF clearText
    <3>3. pc' \in {"idle", "value"} /\ reply' \in {"none", "error"}
      BY <1>4 DEF clearText, answer
    <3>4. string' \in 0 .. MaxText /\ index' \in 0 .. string'
      BY <3>2, Bounds
    <3>5. pc' \in {"idle", "value", "key", "delete", "sync", "home"}
          /\ reply' \in {"none", "success", "error", "500"}
      BY <3>3
    <3> HIDE DEF receive, device, clearing
    <3> QED
      BY <1>c, <2>2, <3>1, <3>4, <3>5 DEF Inv, Types
  <2>4. Control'
    BY <1>4 DEF Inv, Types, Screen, Control, StepOfGesture, ResponderIsField, ErrorsAreKept, Clearing,
       clearText, answer
  <2> QED
    BY <2>1, <2>2, <2>3, <2>4 DEF Inv
<1>5. CASE home
  <2>1. Flags'
    BY <1>5 DEF Inv, Flags, home
  <2>2. NoneIsMine /\ event("home", NoField, 0) \in Event
    BY <1>5, <1>z, EventIsEvent DEF Inv, OneIsOut, home
  <2>3. queue' \in Seq(Event) /\ OneIsOut'
    BY <1>q, <1>5, <2>2, <1>c, SentIsOut DEF OneIsOut, home
  <2>4. Types'
    BY <1>c, <1>5, <2>3 DEF Inv, Types, Screen, home
  <2>5. Control'
    BY <1>5 DEF Inv, Control, StepOfGesture, ResponderIsField, ErrorsAreKept, Clearing, home
  <2> QED
    BY <2>1, <2>3, <2>4, <2>5 DEF Inv
<1>6. CASE volume
  <2> DEFINE v == [event("volume", NoField, 0) EXCEPT !.mine = FALSE]
  <2>1. Flags'
    BY <1>6 DEF Inv, Flags, volume
  <2>2. NoneIsMine /\ v \in Event /\ ~v.mine /\ completion = "none"
    <3>1. v \in Event /\ ~v.mine
      BY <1>z, EventIsEvent
    <3> QED
      BY <1>6, <3>1 DEF Inv, OneIsOut, volume
  <2>3. queue' \in Seq(Event) /\ OneIsOut'
    <3>1. CASE queue' = Append(queue, v)
      BY <1>q, <1>6, <2>2, <3>1, <1>c, SentIsOut DEF OneIsOut, volume
    <3>2. CASE UNCHANGED queue
      BY <1>q, <1>c, <1>6, <2>2, <3>2 DEF OneIsOut, NoneIsMine, volume
    <3> QED
      BY <1>6, <3>1, <3>2 DEF volume
  <2>4. Types'
    BY <1>c, <1>6, <2>3 DEF Inv, Types, Screen, volume
  <2>5. Control'
    BY <1>6 DEF Inv, Control, StepOfGesture, ResponderIsField, ErrorsAreKept, Clearing, volume
  <2> QED
    BY <2>1, <2>3, <2>4, <2>5 DEF Inv
<1>7. ASSUME NEW p \in -2 .. 2, NEW w \in -2 .. 2, setPickerWheelValue(p, w) PROVE Inv'
  <2>1. /\ pc = "idle" /\ gesture' = "set_picker_wheel_value"
        /\ reply' \in {"success", "500"}
        /\ picked' \in BOOLEAN
        /\ UNCHANGED <<device, queue, pc, clearing, outerError, done, completion, refused, alone>>
    BY <1>7 DEF setPickerWheelValue
  <2>2. Flags'
    BY <2>1 DEF Inv, Flags
  <2>3. Types'
    BY <1>c, <2>1 DEF Inv, Types, Screen
  <2>4. Control' /\ OneIsOut'
    BY <2>1 DEF Inv, Control, StepOfGesture, ResponderIsField, ErrorsAreKept, Clearing, OneIsOut,
       NoneIsMine
  <2> QED
    BY <2>2, <2>3, <2>4 DEF Inv
<1> QED
  BY <1>2, <1>3, <1>4, <1>5, <1>6, <1>7 DEF Client

LEMMA HandlerKeepsInv == ASSUME Inv, Handler PROVE Inv'
<1>c. completion = "none" /\ completion' = "none"
  BY DEF Handler, readValue, findDeleteKey, deleteCharacter, returnFromRunSync, readOuterError,
     Inv, OneIsOut
<1>q. queue \in Seq(Event) /\ string \in 0 .. MaxText /\ index \in 0 .. string
  BY DEF Inv, Types
<1>1. CASE readValue
  <2>1. pc = "value" /\ gesture = "clear_text" /\ responder \in Field /\ index = 0
    BY <1>1 DEF readValue, Inv, Control, StepOfGesture, ResponderIsField, Clearing
  <2>2. /\ UNCHANGED <<device, gesture, responder, index, key, outerError, done, history>>
        /\ \/ string' = string /\ reply' = "500" /\ pc' = "idle"
           \/ /\ focus # NoField /\ string' = text[focus]
              /\ pc' \in {"idle", "key"} /\ reply' \in {"success", reply}
    BY <1>1 DEF readValue, answer
  <2>3. queue' \in Seq(Event) /\ OneIsOut'
    <3>1. CASE answer("success") \/ answer("500")
      BY <1>q, <3>1, <1>c, AnsweredKeepsQueue
    <3>2. CASE pc' = "key" /\ UNCHANGED queue
      BY <1>q, <1>c, <2>1, <3>2 DEF Inv, OneIsOut, NoneIsMine
    <3> QED
      BY <1>1, <3>1, <3>2 DEF readValue
  <2>4. Flags'
    BY <2>2 DEF Inv, Flags, history
  <2>5. Types'
    <3>1. focus # NoField => text[focus] \in 0 .. MaxText
      BY DEF Inv, Types, Screen
    <3>2. string' \in 0 .. MaxText /\ index' \in 0 .. string'
      BY <1>q, <2>1, <2>2, <3>1
    <3> QED
      BY ZenonT(60), <1>c, <2>2, <2>3, <3>2 DEF Inv, Types, Screen, device
  <2>6. Control'
    BY <2>1, <2>2 DEF Inv, Control, StepOfGesture, ResponderIsField, ErrorsAreKept, Clearing,
       history
  <2> QED
    BY <2>3, <2>4, <2>5, <2>6 DEF Inv
<1>2. CASE findDeleteKey
  <2>1. pc = "key" /\ gesture = "clear_text"
    BY <1>2 DEF findDeleteKey, Inv, Control, StepOfGesture
  <2>2. /\ UNCHANGED <<device, gesture, responder, string, index, outerError, done, history>>
        /\ pc' \in {"idle", "delete"} /\ reply' \in {"error", reply}
        /\ key' \in {"tap delete", "delete", key}
    BY <1>2 DEF findDeleteKey, answer
  <2>3. queue' \in Seq(Event) /\ OneIsOut'
    <3>1. CASE answer("error")
      BY <1>q, <3>1, <1>c, AnsweredKeepsQueue
    <3>2. CASE pc' = "delete" /\ UNCHANGED queue
      BY <1>q, <1>c, <2>1, <3>2 DEF Inv, OneIsOut, NoneIsMine
    <3> QED
      BY <1>2, <3>1, <3>2 DEF findDeleteKey
  <2>4. Flags'
    BY <2>2 DEF Inv, Flags, history
  <2>5. Types'
    BY ZenonT(60), <1>c, <2>2, <2>3 DEF Inv, Types, Screen, device
  <2>6. Control'
    BY <2>1, <2>2 DEF Inv, Control, StepOfGesture, ResponderIsField, ErrorsAreKept, Clearing,
       history
  <2> QED
    BY <2>3, <2>4, <2>5, <2>6 DEF Inv
<1>3. CASE deleteCharacter
  <2>1. /\ pc = "delete" /\ gesture = "clear_text" /\ NoneIsMine
        /\ UNCHANGED <<device, gesture, responder, string, key, outerError, history>>
    BY <1>3 DEF deleteCharacter, Inv, Control, StepOfGesture, OneIsOut
  <2>2. CASE index < string /\ ~outerError /\ index' = index + 1 /\ sendDelete
    <3>1. Flags'
      BY <2>1, <2>2 DEF Inv, Flags, history, sendDelete, runSync
    <3>2. event(key, NoField, 0) \in Event
      <4>1. 0 \in 0 .. MaxText
        BY Bounds
      <4>2. key \in {"touch", "string", "tap delete", "delete", "home", "volume"}
            /\ NoField \in Field \cup {NoField}
        BY DEF Inv, Types
      <4> QED
        BY <4>1, <4>2, EventIsEvent
    <3>3. pc' = "sync" /\ ~done' /\ queue' \in Seq(Event) /\ OneIsOut'
      BY <1>q, <2>1, <2>2, <3>2, <1>c, SentIsOut DEF OneIsOut, sendDelete, runSync
    <3>4. Types'
      <4>1. index' \in 0 .. string'
        BY <1>q, <2>1, <2>2, Bounds
      <4>2. UNCHANGED <<device, gesture, responder, string, key, reply>>
        BY <2>1, <2>2 DEF sendDelete
      <4> QED
        BY <1>c, <3>3, <4>1, <4>2 DEF Inv, Types, Screen, device
    <3>5. Control'
      BY <2>1, <2>2, <3>3 DEF Inv, Control, StepOfGesture, ResponderIsField, ErrorsAreKept, Clearing,
         history
    <3> QED
      BY <3>1, <3>3, <3>4, <3>5 DEF Inv
  <2>3. CASE finishClearing
    <3>1. Flags'
      BY <2>1, <2>3 DEF Inv, Flags, history, finishClearing
    <3>2. queue' \in Seq(Event) /\ OneIsOut'
      BY <1>q, <2>3, <1>c, AnsweredKeepsQueue DEF finishClearing
    <3>3. pc' = "idle" /\ reply' \in {"error", "success"} /\ UNCHANGED index
      BY <2>3 DEF finishClearing, answer
    <3>4. Types'
      BY <1>c, <2>1, <3>2, <3>3 DEF Inv, Types, Screen, device
    <3>5. Control'
      BY <3>3 DEF Control, StepOfGesture, ResponderIsField, ErrorsAreKept, Clearing
    <3> QED
      BY <3>1, <3>2, <3>4, <3>5 DEF Inv
  <2> QED
    BY <1>3, <2>2, <2>3 DEF deleteCharacter
<1>4. CASE returnFromRunSync
  <2>1. /\ pc = "sync" /\ done /\ NoneIsMine
        /\ UNCHANGED <<device, gesture, clearing, outerError, done, history>>
    BY <1>4 DEF returnFromRunSync, Inv, OneIsOut
  <2>2. Flags'
    BY <2>1 DEF Inv, Flags, history
  <2>3. CASE gesture = "clear_text" /\ pc' = "delete" /\ UNCHANGED <<reply, queue>>
    <3>1. OneIsOut'
      BY <1>c, <2>1, <2>3 DEF OneIsOut, NoneIsMine
    <3>2. Types'
      BY <1>c, <2>1, <2>3 DEF Inv, Types, Screen, device, clearing
    <3>3. Control'
      BY <2>1, <2>3 DEF Inv, Control, StepOfGesture, ResponderIsField, ErrorsAreKept, Clearing,
         clearing, history
    <3> QED
      BY <2>2, <3>1, <3>2, <3>3 DEF Inv
  <2>4. CASE answer(IF outerError THEN "error" ELSE "success")
    <3>1. queue' \in Seq(Event) /\ OneIsOut'
      BY <1>q, <2>4, <1>c, AnsweredKeepsQueue
    <3>2. pc' = "idle" /\ reply' \in {"error", "success"}
      BY <2>4 DEF answer
    <3>3. Types'
      BY <1>c, <2>1, <3>1, <3>2 DEF Inv, Types, Screen, device, clearing
    <3>4. Control'
      BY <3>2 DEF Control, StepOfGesture, ResponderIsField, ErrorsAreKept, Clearing
    <3> QED
      BY <2>2, <3>1, <3>3, <3>4 DEF Inv
  <2> QED
    BY <1>4, <2>3, <2>4 DEF returnFromRunSync
<1>5. CASE readOuterError
  <2>1. /\ answer(IF outerError THEN "error" ELSE "success")
        /\ UNCHANGED <<device, gesture, clearing, outerError, done, history>>
    BY <1>5 DEF readOuterError
  <2>2. Flags'
    BY <2>1 DEF Inv, Flags, history
  <2>3. queue' \in Seq(Event) /\ OneIsOut'
    BY <1>q, <2>1, <1>c, AnsweredKeepsQueue
  <2>4. pc' = "idle" /\ reply' \in {"error", "success"}
    BY <2>1 DEF answer
  <2>5. Types'
    BY <1>c, <2>1, <2>3, <2>4 DEF Inv, Types, Screen, device, clearing
  <2>6. Control'
    BY <2>4 DEF Control, StepOfGesture, ResponderIsField, ErrorsAreKept, Clearing
  <2> QED
    BY <2>2, <2>3, <2>5, <2>6 DEF Inv
<1> QED
  BY <1>1, <1>2, <1>3, <1>4, <1>5 DEF Handler

LEMMA StepKeepsInv == Inv /\ [Next]_vars => Inv'
<1> SUFFICES ASSUME Inv, [Next]_vars PROVE Inv'
  OBVIOUS
<1>1. CASE Next
  BY <1>1, HandlerKeepsInv, SynthesizeKeepsInv, FinishKeepsInv, ClientKeepsInv, DeviceKeepsInv DEF Next
<1>2. CASE UNCHANGED vars
  <2>f. Flags'
    BY <1>2 DEF vars, history, Inv, Flags
  <2>1. Types'
    BY ZenonT(60), <1>2 DEF vars, device, clearing, Inv, Types, Screen
  <2>2. Control' /\ OneIsOut'
    BY <1>2 DEF vars, device, clearing, history, Inv, Control, StepOfGesture, ResponderIsField,
       ErrorsAreKept, Clearing, OneIsOut, NoneIsMine
  <2> QED
    BY <2>f, <2>1, <2>2 DEF Inv
<1> QED
  BY <1>1, <1>2

THEOREM InvariantHolds == Spec => []Inv
  BY InitInv, StepKeepsInv, PTL DEF Spec

(* Every variable keeps its type; in particular clear_text sends no more     *)
(* deletions than the characters it read.                                    *)
THEOREM TypeCorrect == Spec => []TypeOK
  BY InvariantHolds, InvImplies, PTL

-------------------------------------------------------------------------------
(* Which steps answer a request, and which send a deletion.                  *)
LEMMA AnswersAreReturns ==
    ASSUME Inv, Next, Answers("success")
    PROVE  \/ readValue
           \/ pc = "delete" /\ finishClearing
           \/ returnFromRunSync /\ gesture # "clear_text"
           \/ readOuterError
<1>1. ~synthesize /\ ~finishCompletion /\ ~Device
  BY DEF Answers, synthesize, finishCompletion, Device, edit, moveCaret, moveFocus, changeKeyboard, byItself
<1>2. ~Client
  BY DEF Answers, Client, touch, enterText, clearText, home, volume, setPickerWheelValue, receive
<1>3. CASE Handler
  BY <1>3 DEF Handler, Answers, findDeleteKey, deleteCharacter, sendDelete, runSync,
     returnFromRunSync, answer
<1> QED
  BY <1>1, <1>2, <1>3 DEF Next

(* A touch, enter_text or clear_text is answered with success only when each *)
(* of its events has been performed.                                         *)
THEOREM SuccessesArePerformed == Spec => SuccessMeansPerformed
<1> DEFINE Performed == Answers("success") /\ gesture # "home" =>
                            ~refused /\ \A i \in DOMAIN queue : ~queue[i].mine
<1>1. Inv /\ [Next]_vars => [Performed]_vars
  <2> SUFFICES ASSUME Inv, Next, Answers("success"), gesture # "home"
               PROVE  ~refused /\ NoneIsMine
    BY DEF NoneIsMine
  <2>1. CASE readValue
    BY <2>1 DEF readValue, Inv, Control, ErrorsAreKept, OneIsOut
  <2>2. CASE pc = "delete" /\ finishClearing
    BY <2>2 DEF finishClearing, answer, Answers, Inv, Control, ErrorsAreKept, OneIsOut
  <2>3. CASE returnFromRunSync /\ gesture # "clear_text"
    BY <2>3 DEF returnFromRunSync, answer, Answers, Inv, Control, ErrorsAreKept, OneIsOut
  <2>4. CASE readOuterError
    BY <2>4 DEF readOuterError, Inv, Control, StepOfGesture
  <2> QED
    BY <2>1, <2>2, <2>3, <2>4, AnswersAreReturns
<1> QED
  BY InvariantHolds, <1>1, PTL DEF Spec, SuccessMeansPerformed

(* clear_text sends nothing after an event that failed.                      *)
THEOREM StopsAtErrors == Spec => StopsAtTheFirstError
<1> DEFINE Stops == (pc = "delete" /\ pc' = "sync") => ~refused
<1>1. Inv /\ [Next]_vars => [Stops]_vars
  <2> SUFFICES ASSUME Inv, Next, pc = "delete", pc' = "sync" PROVE ~refused
    OBVIOUS
  <2>1. deleteCharacter
    BY DEF Next, Handler, Client, Device, synthesize, finishCompletion, edit, moveCaret, moveFocus, changeKeyboard,
       byItself, readValue, findDeleteKey, returnFromRunSync, readOuterError,
       touch, enterText, clearText, home, volume, setPickerWheelValue, receive
  <2>2. ~outerError
    BY <2>1 DEF deleteCharacter, finishClearing, answer
  <2> QED
    BY <2>2 DEF Inv, Control, ErrorsAreKept
<1> QED
  BY InvariantHolds, <1>1, PTL DEF Spec, StopsAtTheFirstError

-------------------------------------------------------------------------------
(* While a clear_text that is alone runs, nothing moves but what it asks for. *)
Waiting == pc = "sync" /\ gesture = "clear_text"

(* The events of nobody's are of the volume buttons, and touch no text. *)
StrangersAreHarmless == \A i \in DOMAIN queue : ~queue[i].mine => queue[i].kind = "volume"

(* The event that is out deletes in front of a caret at the end. *)
DeletionHits ==
    /\ focus = responder
    /\ behind[responder] = 0
    /\ Waiting => \A i \in DOMAIN queue : queue[i].mine => queue[i].kind = key
    /\ (pc = "delete" \/ Waiting) /\ key = "tap delete" => deleteKey = "shown"

(* What is left of the text is what has not been deleted. *)
Remaining ==
    /\ pc = "key" => text[responder] = string /\ index = 0
    /\ (pc = "delete" \/ (Waiting /\ Called)) /\ ~outerError => text[responder] = string - index
    /\ Waiting /\ ~Called => text[responder] = string - index + 1

Undisturbed == StrangersAreHarmless /\ DeletionHits /\ Remaining

AloneInv == Clearing /\ alone => Undisturbed

LEMMA SynthesizeKeepsAlone ==
    ASSUME Inv, AloneInv, synthesize PROVE AloneInv'
<1> DEFINE e == Head(queue)
<1>1. /\ queue \in Seq(Event) /\ queue # <<>> /\ queue' = Tail(queue)
      /\ UNCHANGED <<pc, gesture, clearing, reply, picked, alone>>
  BY DEF Inv, Types, synthesize
<1>2. /\ Tail(queue) \in Seq(Event) /\ e \in Event /\ 1 \in DOMAIN queue /\ e = queue[1]
      /\ \A i \in DOMAIN Tail(queue) : i + 1 \in DOMAIN queue /\ Tail(queue)[i] = queue[i + 1]
                                      /\ i + 1 # 1 /\ i \in Nat
  BY <1>1, Tailed
<1>3. \/ perform(e) /\ complete(e, FALSE)
      \/ UNCHANGED device /\ complete(e, TRUE)
  BY DEF synthesize
<1> SUFFICES ASSUME Clearing', alone' PROVE Undisturbed'
  BY DEF AloneInv
<1>a. Clearing /\ Undisturbed
  BY <1>1 DEF Clearing, AloneInv
<1>4. StrangersAreHarmless'
  BY <1>1, <1>2, <1>a DEF Undisturbed, StrangersAreHarmless
<1>5. Waiting' => \A i \in DOMAIN queue' : queue'[i].mine => queue'[i].kind = key'
  BY <1>1, <1>2, <1>a DEF Undisturbed, DeletionHits, Waiting, clearing
<1>7. (NoneIsMine => ~e.mine) /\ (~e.mine => e.kind = "volume")
  BY <1>2, <1>a DEF NoneIsMine, Undisturbed, StrangersAreHarmless
<1>8. CASE ~e.mine
  <2>1. UNCHANGED device
    BY <1>3, <1>7, <1>8 DEF perform
  <2>2. UNCHANGED <<done, completion, outerError>>
    BY <1>3, <1>8 DEF complete
  <2>3. DeletionHits'
    BY <1>1, <1>5, <1>a, <2>1 DEF Undisturbed, DeletionHits, Waiting, clearing, device
  <2>4. Remaining'
    BY <1>1, <1>a, <2>1, <2>2 DEF Undisturbed, Remaining, Waiting, clearing, device
  <2> QED
    BY <1>4, <2>3, <2>4 DEF Undisturbed
<1>9. CASE e.mine
  <2>0. Waiting
    BY <1>7, <1>9, <1>a DEF Inv, OneIsOut, Clearing, Waiting
  <2>1. /\ ~Called /\ responder \in Field /\ focus = responder /\ focus # NoField
        /\ e.kind = key /\ key \in {"tap delete", "delete"}
        /\ key = "tap delete" => deleteKey = "shown"
        /\ text[responder] = string - index + 1
        /\ behind[responder] = 0
    <3>1. ~Called
      BY <1>7, <1>9, <2>0 DEF Inv, OneIsOut, Waiting
    <3>2. responder \in Field /\ focus = responder /\ e.kind = key
      BY <1>2, <1>9, <1>a, <2>0 DEF Inv, Control, ResponderIsField, Undisturbed, DeletionHits
    <3>3. key \in {"tap delete", "delete"}
      BY DEF Inv, Types
    <3> QED
      BY <1>a, <2>0, <3>1, <3>2, <3>3, Bounds DEF Undisturbed, DeletionHits, Remaining
  <2>2. string \in Nat /\ index \in 0 .. string /\ text \in [Field -> 0 .. MaxText]
    <3>1. string \in 0 .. MaxText /\ MaxText \in Nat
      BY Bounds DEF Inv, Types
    <3>2. index \in 0 .. string /\ text \in [Field -> 0 .. MaxText]
      BY DEF Inv, Types, Screen
    <3> QED
      BY <3>1, <3>2
  <2>3. Called' /\ Waiting' /\ pc' = "sync" /\ UNCHANGED clearing
    BY <1>1, <1>3, <1>9, <2>0 DEF complete, Waiting
  <2>4. CASE perform(e) /\ complete(e, FALSE)
    <3>1. deleteBackward /\ UNCHANGED <<behind, focus, deleteKey>>
      BY <2>1, <2>4 DEF perform
    <3>2. text'[responder] = string - index
      <4>1. text[responder] > behind[responder] /\ text[responder] - 1 = string - index
        <5>1. string \in Nat /\ index \in Nat /\ index <= string
          BY <2>2
        <5>2. text[responder] = string - index + 1 /\ behind[responder] = 0
          BY <2>1
        <5>3. string - index + 1 > 0 /\ (string - index + 1) - 1 = string - index
          BY <5>1
        <5> QED
          BY <5>2, <5>3
      <4>2. text' = [text EXCEPT ![responder] = @ - 1]
        BY <2>1, <3>1, <4>1 DEF deleteBackward
      <4> QED
        BY <2>1, <2>2, <4>1, <4>2
    <3>3. DeletionHits'
      BY <1>5, <2>1, <2>3, <3>1 DEF DeletionHits, clearing
    <3>4. Remaining'
      BY <2>3, <3>2 DEF Remaining, clearing
    <3> QED
      BY <1>4, <3>3, <3>4 DEF Undisturbed
  <2>5. CASE UNCHANGED device /\ complete(e, TRUE)
    <3>1. outerError'
      BY <1>9, <2>5 DEF complete, statement
    <3>2. DeletionHits'
      BY <1>5, <2>1, <2>3, <2>5 DEF DeletionHits, clearing, device
    <3>3. Remaining'
      BY <2>3, <3>1 DEF Remaining
    <3> QED
      BY <1>4, <3>2, <3>3 DEF Undisturbed
  <2> QED
    BY <1>3, <2>4, <2>5
<1> QED
  BY <1>8, <1>9

(* A clear_text is alone when it begins, or is not. *)
LEMMA ClientKeepsAlone ==
    ASSUME Inv, Client PROVE AloneInv'
<1> SUFFICES ASSUME Clearing', alone' PROVE Undisturbed'
  BY DEF AloneInv
<1> USE DEF receive
<1>1. ASSUME NEW f \in Field, touch(f) PROVE FALSE
  BY <1>1 DEF touch, runSync, Clearing
<1>2. ASSUME NEW n \in 1 .. MaxText, enterText(n) PROVE FALSE
  BY <1>2 DEF enterText, runSync, Clearing
<1>3. ~home /\ ~volume
  BY DEF home, volume, Clearing
<1>4. ASSUME NEW p \in -2 .. 2, NEW w \in -2 .. 2, setPickerWheelValue(p, w) PROVE FALSE
  BY <1>4 DEF setPickerWheelValue, Clearing
<1>5. CASE clearText
  <2>1. focus # NoField /\ pc' = "value" /\ UNCHANGED <<device, queue>>
    BY <1>5 DEF clearText, answer, Clearing
  <2>2. responder' = focus /\ behind[focus] = 0
        /\ \A i \in DOMAIN queue : queue[i].kind = "volume"
    BY <1>5, <2>1 DEF clearText
  <2>3. StrangersAreHarmless'
    BY <2>1, <2>2 DEF StrangersAreHarmless
  <2>4. DeletionHits' /\ Remaining'
    BY <2>1, <2>2 DEF DeletionHits, Remaining, Waiting, device
  <2> QED
    BY <2>3, <2>4 DEF Undisturbed
<1> QED
  BY <1>1, <1>2, <1>3, <1>4, <1>5 DEF Client

LEMMA HandlerKeepsAlone ==
    ASSUME Inv, AloneInv, Handler PROVE AloneInv'
<1> SUFFICES ASSUME Clearing', alone' PROVE Undisturbed'
  BY DEF AloneInv
<1>q. queue \in Seq(Event) /\ string \in 0 .. MaxText /\ index \in 0 .. string /\ MaxText \in Nat
  BY Bounds DEF Inv, Types
<1>a. Clearing /\ Undisturbed
  <2>1. Clearing
    BY DEF Handler, readValue, findDeleteKey, deleteCharacter, returnFromRunSync, readOuterError,
       answer, Clearing
  <2>2. alone
    BY DEF Handler, readValue, findDeleteKey, deleteCharacter, returnFromRunSync, readOuterError,
       history
  <2> QED
    BY <2>1, <2>2 DEF AloneInv
<1> USE DEF Undisturbed, device
<1>1. CASE readValue
  <2>1. pc = "value" /\ index = 0
    BY <1>1, <1>a DEF readValue, Inv, Control, ResponderIsField
  <2>2. pc' = "key" /\ UNCHANGED <<queue, text, behind, focus, deleteKey, responder, index>>
        /\ string' = text[focus] /\ focus = responder
    BY <1>1, <1>a DEF readValue, answer, Clearing, DeletionHits
  <2> QED
    BY <1>a, <2>1, <2>2 DEF StrangersAreHarmless, DeletionHits, Remaining, Waiting
<1>2. CASE findDeleteKey
  <2>1. pc = "key" /\ index = 0 /\ text[responder] = string
    BY <1>2, <1>a DEF findDeleteKey, Remaining
  <2>2. /\ key' = IF deleteKey = "shown" THEN "tap delete" ELSE "delete"
        /\ pc' = "delete" /\ UNCHANGED queue
    BY <1>2 DEF findDeleteKey, answer, Clearing
  <2>3. UNCHANGED <<device, gesture, responder, string, index>>
    BY <1>2 DEF findDeleteKey
  <2>4. StrangersAreHarmless' /\ DeletionHits'
    BY <1>a, <2>2, <2>3 DEF StrangersAreHarmless, DeletionHits, Waiting
  <2>5. string - index = string
    BY <1>q, <2>1
  <2>6. Remaining'
    BY <2>1, <2>2, <2>3, <2>5 DEF Remaining, Waiting
  <2> QED
    BY <2>4, <2>6
<1>3. CASE deleteCharacter
  <2>1. /\ pc = "delete" /\ gesture = "clear_text" /\ NoneIsMine
        /\ UNCHANGED <<device, gesture, responder, string, key, outerError>>
    BY <1>3 DEF deleteCharacter, Inv, Control, StepOfGesture, OneIsOut
  <2>2. index < string /\ ~outerError /\ index' = index + 1 /\ sendDelete
    BY <1>3 DEF deleteCharacter, finishClearing, answer, Clearing
  <2> DEFINE e == event(key, NoField, 0)
  <2>3. e.mine /\ e.kind = key
    BY DEF event
  <2>4. e \in Event
    <3>1. 0 \in 0 .. MaxText
      BY Bounds
    <3>2. key \in {"touch", "string", "tap delete", "delete", "home", "volume"}
          /\ NoField \in Field \cup {NoField}
      BY DEF Inv, Types
    <3> QED
      BY <3>1, <3>2, EventIsEvent
  <2>5. queue' = Append(queue, e) /\ pc' = "sync" /\ ~Called'
    BY <1>3, <2>1, <2>2 DEF sendDelete, runSync, deleteCharacter, Inv, OneIsOut
  <2> HIDE DEF e
  <2>6. /\ DOMAIN queue' = DOMAIN queue \cup {Len(queue) + 1}
        /\ \A i \in DOMAIN queue : queue'[i] = queue[i]
        /\ queue'[Len(queue) + 1] = e
    BY <1>q, <2>4, <2>5, Appended
  <2>7. StrangersAreHarmless'
    BY <1>a, <2>3, <2>5, <2>6 DEF StrangersAreHarmless
  <2>8. \A i \in DOMAIN queue' : queue'[i].mine => queue'[i].kind = key'
    BY <2>1, <2>3, <2>6 DEF NoneIsMine
  <2>9. DeletionHits'
    BY <1>a, <2>1, <2>5, <2>8 DEF DeletionHits, Waiting
  <2>10. text[responder] = string - index
    BY <1>a, <2>1, <2>2 DEF Remaining
  <2>11. text'[responder'] = string' - index' + 1
    BY <1>q, <2>1, <2>2, <2>10
  <2>12. Remaining'
    BY <2>5, <2>11 DEF Remaining, Waiting
  <2> QED
    BY <2>7, <2>9, <2>12
<1>4. CASE returnFromRunSync
  <2>1. /\ pc = "sync" /\ done /\ gesture = "clear_text" /\ pc' = "delete" /\ UNCHANGED queue
        /\ UNCHANGED <<device, gesture, clearing, outerError, done, completion>>
    BY <1>4 DEF returnFromRunSync, answer, Clearing
  <2> QED
    BY <1>a, <2>1 DEF StrangersAreHarmless, DeletionHits, Remaining, Waiting, clearing
<1>5. CASE readOuterError
  BY <1>5 DEF readOuterError, answer, Clearing
<1> QED
  BY <1>1, <1>2, <1>3, <1>4, <1>5 DEF Handler

(* A clear_text that is answered with success has left no text in the field  *)
(* that had the focus, if its caret was at the end and nothing disturbed it. *)
THEOREM ClearedAreEmpty == Spec => ClearedIsEmpty
<1> DEFINE Empty == Answers("success") /\ gesture = "clear_text" /\ alone => text[responder] = 0
<1>1. Init => AloneInv
  BY DEF Init, AloneInv, Clearing
<1>2. Inv /\ AloneInv /\ [Next]_vars => AloneInv'
  <2> SUFFICES ASSUME Inv, AloneInv, [Next]_vars PROVE AloneInv'
    OBVIOUS
  <2>1. CASE Device
    BY <2>1 DEF Device, edit, moveCaret, moveFocus, changeKeyboard, byItself, AloneInv
  <2>2. CASE finishCompletion
    <3>1. UNCHANGED <<device, queue, pc, gesture, clearing, history, outerError>>
          /\ Called /\ Called'
      BY <2>2, Statements DEF finishCompletion
    <3> QED
      BY <3>1 DEF device, clearing, history, AloneInv, Undisturbed, StrangersAreHarmless,
         DeletionHits, Remaining, Waiting, Clearing
  <2>3. CASE UNCHANGED vars
    BY <2>3 DEF vars, device, clearing, history, AloneInv, Undisturbed, StrangersAreHarmless,
       DeletionHits, Remaining, Waiting, Clearing
  <2> QED
    BY <2>1, <2>2, <2>3, SynthesizeKeepsAlone, ClientKeepsAlone, HandlerKeepsAlone DEF Next
<1>3. Inv /\ AloneInv /\ [Next]_vars => [Empty]_vars
  <2> SUFFICES ASSUME Inv, AloneInv, Next, Answers("success"), gesture = "clear_text", alone
               PROVE  text[responder] = 0
    OBVIOUS
  <2>1. CASE readValue
    <3>1. focus = responder
      BY <2>1 DEF readValue, AloneInv, Clearing, Undisturbed, DeletionHits
    <3> QED
      BY <2>1, <3>1 DEF readValue, Answers, answer
  <2>2. CASE pc = "delete" /\ finishClearing
    <3>1. ~outerError
      BY <2>2 DEF finishClearing, answer, Answers
    <3>2. deleteCharacter
      BY <2>2 DEF Next, Handler, Client, Device, synthesize, finishCompletion, edit, moveCaret, moveFocus,
         changeKeyboard, byItself, readValue, findDeleteKey, returnFromRunSync, readOuterError,
         touch, enterText, clearText, home, volume, setPickerWheelValue, receive,
         Answers
    <3>3. index = string
      BY <3>1, <3>2 DEF deleteCharacter, sendDelete, runSync, Answers
    <3>4. text[responder] = string - index /\ string \in 0 .. MaxText /\ MaxText \in Nat
      BY <2>2, <3>1, Bounds DEF AloneInv, Clearing, Undisturbed, Remaining, Inv, Types
    <3> QED
      BY <3>3, <3>4
  <2>3. CASE readOuterError
    BY <2>3 DEF readOuterError, Inv, Control, StepOfGesture
  <2> QED
    BY <2>1, <2>2, <2>3, AnswersAreReturns
<1> QED
  BY <1>1, <1>2, <1>3, InitInv, StepKeepsInv, PTL DEF Spec, ClearedIsEmpty

-------------------------------------------------------------------------------
(* Picker wheels.                                                          *)

isThere(picker, wheel) ==
    /\ picker + 1 \in DOMAIN Wheels
    /\ wheel \in 0 .. Wheels[picker + 1] - 1

(* The comparisons with unsigned counts find what is missing, if indices are *)
(* not negative, and take a negative index but -1 for one that is too large. *)
LEMMA CountsFindMissing ==
    ASSUME NEW picker \in Int, NEW wheel \in Int
    PROVE LET noPicker == Len(Wheels) = 0 \/ lessThan(Len(Wheels), picker + 1)
              wheels == IF picker + 1 \in DOMAIN Wheels THEN Wheels[picker + 1] ELSE 0
              noWheel == wheels = 0 \/ lessThan(wheels, wheel + 1)
          IN /\ noPicker \/ (picker >= 0 /\ noWheel) => ~isThere(picker, wheel)
             /\ ~noPicker /\ ~noWheel /\ picker >= 0 /\ wheel >= 0 => isThere(picker, wheel)
<1> DEFINE n == Len(Wheels)
           wheels == IF picker + 1 \in DOMAIN Wheels THEN Wheels[picker + 1] ELSE 0
<1>1. /\ n \in Nat /\ DOMAIN Wheels = 1 .. n
      /\ \A i \in 1 .. n : Wheels[i] \in Nat
  BY TextAssumption DEF TextAssumption
<1>2. picker + 1 \in 1 .. n => wheels = Wheels[picker + 1] /\ wheels \in Nat
  BY <1>1
<1>3. n = 0 \/ lessThan(n, picker + 1) => ~isThere(picker, wheel)
  BY <1>1 DEF lessThan, isThere
<1>4. picker >= 0 /\ (wheels = 0 \/ lessThan(wheels, wheel + 1)) => ~isThere(picker, wheel)
  BY <1>1, <1>2 DEF lessThan, isThere
<1>5. ~lessThan(n, picker + 1) /\ ~lessThan(wheels, wheel + 1) /\ picker >= 0 /\ wheel >= 0
          => isThere(picker, wheel)
  BY <1>1, <1>2 DEF lessThan, isThere
<1> QED
  BY <1>3, <1>4, <1>5

(* Whatever pickers and wheels the screen has, a wheel that is said to be    *)
(* set is one of them, and one of them is never said to be set without       *)
(* having been.                                                              *)
THEOREM PickersAreSet == Spec => PickerIsSetIfThere
<1>1. ASSUME NEW picker \in -2 .. 2, NEW wheel \in -2 .. 2, setPickerWheelValue(picker, wheel),
             reply' = "success"
      PROVE  picked' = isThere(picker, wheel)
  <2>1. picker \in Int /\ wheel \in Int
    OBVIOUS
  <2> DEFINE noPicker == Len(Wheels) = 0 \/ lessThan(Len(Wheels), picker + 1)
             wheels == IF picker + 1 \in DOMAIN Wheels THEN Wheels[picker + 1] ELSE 0
             noWheel == wheels = 0 \/ lessThan(wheels, wheel + 1)
  <2>2. \/ (noPicker \/ (picker >= 0 /\ noWheel)) /\ picked' = FALSE
        \/ ~noPicker /\ ~noWheel /\ picker >= 0 /\ wheel >= 0 /\ picked' = TRUE
    BY <1>1 DEF setPickerWheelValue
  <2>3. /\ noPicker \/ (picker >= 0 /\ noWheel) => ~isThere(picker, wheel)
        /\ ~noPicker /\ ~noWheel /\ picker >= 0 /\ wheel >= 0 => isThere(picker, wheel)
    BY <2>1, CountsFindMissing
  <2>4. isThere(picker, wheel) \in BOOLEAN
    BY DEF isThere
  <2>5. CASE picked' = TRUE
    <3>1. isThere(picker, wheel)
      BY <2>2, <2>3, <2>5
    <3> QED
      BY <2>4, <2>5, <3>1
  <2>6. CASE picked' = FALSE
    <3>1. ~isThere(picker, wheel)
      BY <2>2, <2>3, <2>6
    <3> QED
      BY <2>4, <2>6, <3>1
  <2> QED
    BY <2>2, <2>5, <2>6
<1>2. Next => \A picker, wheel \in -2 .. 2 :
          LET there == /\ picker + 1 \in DOMAIN Wheels
                       /\ wheel \in 0 .. Wheels[picker + 1] - 1
          IN gesture' = "set_picker_wheel_value" /\ reply' = "success" /\ picked' # there
                 => ~setPickerWheelValue(picker, wheel)
  BY <1>1 DEF isThere
<1>3. [Next]_vars =>
         [\A picker, wheel \in -2 .. 2 :
            LET there == /\ picker + 1 \in DOMAIN Wheels
                         /\ wheel \in 0 .. Wheels[picker + 1] - 1
            IN gesture' = "set_picker_wheel_value" /\ reply' = "success" /\ picked' # there
                   => ~setPickerWheelValue(picker, wheel)]_vars
  BY <1>2
<1> QED
  BY <1>3, PTL DEF Spec, PickerIsSetIfThere
-------------------------------------------------------------------------------
(* How many steps the handler itself may still take: two for each character  *)
(* that is not deleted yet.                                                  *)
StepsLeft ==
    CASE pc = "value" -> 2 * MaxText + 3
      [] pc = "key" -> 2 * MaxText + 2
      [] pc = "delete" -> 2 * (string - index) + 1
      [] pc = "sync" -> IF gesture = "clear_text" THEN 2 * (string - index) + 2 ELSE 1
      [] pc = "home" -> 1
      [] OTHER -> 0

MaxSteps == 2 * MaxText + 3

StepsAreCounted == /\ StepsLeft \in 0 .. MaxSteps
                   /\ StepsLeft = 0 <=> pc = "idle"

(* runSync polls a flag that is not raised. *)
Synchronous == pc = "sync" /\ ~done

(* What runSync waits for is the last event of the queue, which never grows  *)
(* meanwhile, and then its completion.                                       *)
EventIsPending ==
    /\ Synchronous /\ completion = "none" => /\ Len(queue) \in 1 .. MaxPending + 1
                                             /\ queue[Len(queue)].mine
    /\ Synchronous /\ completion # "none" => queue = <<>>
    /\ ~Synchronous => Len(queue) <= MaxPending

LEMMA WorkTypes ==
    ASSUME Inv
    PROVE  /\ MaxText \in Nat /\ MaxPending \in Nat
           /\ string \in 0 .. MaxText /\ index \in 0 .. string
           /\ string - index \in 0 .. MaxText
           /\ pc \in {"idle", "value", "key", "delete", "sync", "home"}
           /\ queue \in Seq(Event) /\ Len(queue) \in Nat
<1>1. string \in 0 .. MaxText /\ index \in 0 .. string /\ MaxText \in Nat
  BY Bounds DEF Inv, Types
<1>2. string - index \in 0 .. MaxText
  BY <1>1
<1>3. queue \in Seq(Event) /\ pc \in {"idle", "value", "key", "delete", "sync", "home"}
  BY DEF Inv, Types
<1>4. Len(queue) \in Nat
  BY <1>3
<1> QED
  BY <1>1, <1>2, <1>3, <1>4, Bounds

LEMMA WorkIsCounted == Inv => StepsAreCounted
<1> SUFFICES ASSUME Inv PROVE StepsAreCounted
  OBVIOUS
<1> DEFINE left == string - index
<1>1. left \in 0 .. MaxText /\ MaxText \in Nat
  BY WorkTypes
<1>2. /\ pc = "delete" => StepsLeft = 2 * left + 1
      /\ pc = "sync" => StepsLeft \in {2 * left + 2, 1}
      /\ pc = "value" => StepsLeft = 2 * MaxText + 3
      /\ pc = "key" => StepsLeft = 2 * MaxText + 2
      /\ pc = "home" => StepsLeft = 1
      /\ pc = "idle" => StepsLeft = 0
  BY DEF StepsLeft
<1>3. pc \in {"idle", "value", "key", "delete", "sync", "home"}
  BY WorkTypes
<1> HIDE DEF left, StepsLeft
<1>4. CASE pc \in {"delete", "sync"}
  BY <1>1, <1>2, <1>4 DEF StepsAreCounted, MaxSteps
<1>5. CASE pc \in {"idle", "value", "key", "home"}
  BY <1>1, <1>2, <1>5 DEF StepsAreCounted, MaxSteps
<1> QED
  BY <1>3, <1>4, <1>5

LEMMA HandlerShrinksWork ==
    ASSUME Inv, Handler
    PROVE  pc # "idle" /\ StepsLeft' < StepsLeft
<1> USE WorkTypes DEF StepsLeft
<1>1. CASE readValue
  <2>1. pc = "value" /\ pc' \in {"idle", "key"}
    BY <1>1 DEF readValue, answer
  <2> QED
    BY <2>1
<1>2. CASE findDeleteKey
  <2>1. pc = "key" /\ pc' \in {"idle", "delete"} /\ UNCHANGED <<string, index>>
    BY <1>2 DEF findDeleteKey, answer
  <2> QED
    BY <2>1
<1>3. CASE deleteCharacter
  <2>1. /\ pc = "delete" /\ UNCHANGED <<string, gesture>> /\ gesture = "clear_text"
        /\ pc' = "idle" \/ (pc' = "sync" /\ index' = index + 1)
    BY <1>3 DEF deleteCharacter, sendDelete, runSync, finishClearing, answer, Inv, Control, StepOfGesture
  <2> QED
    BY <2>1
<1>4. CASE returnFromRunSync
  <2>1. /\ pc = "sync" /\ UNCHANGED <<string, index, gesture>>
        /\ \/ pc' = "idle"
           \/ pc' = "delete" /\ gesture = "clear_text"
    BY <1>4 DEF returnFromRunSync, answer, clearing
  <2> QED
    BY <2>1
<1>5. CASE readOuterError
  <2>1. pc = "home" /\ pc' = "idle"
    BY <1>5 DEF readOuterError, answer
  <2> QED
    BY <2>1
<1> QED
  BY <1>1, <1>2, <1>3, <1>4, <1>5 DEF Handler

(* What is not a step of the handler leaves its work as it is. *)
LEMMA OthersLeaveWork ==
    ASSUME [Next]_vars, ~Handler, pc # "idle"
    PROVE  UNCHANGED <<pc, gesture, StepsLeft>>
<1>1. UNCHANGED <<pc, gesture, string, index>>
  BY DEF Next, synthesize, finishCompletion, Client, touch, enterText, clearText, home, volume,
         receive,
         setPickerWheelValue, Device, edit, moveCaret, moveFocus, changeKeyboard,
         byItself, vars, clearing
<1> QED
  BY <1>1 DEF StepsLeft

(* The handler's own work is bounded by the room for a text, whatever the     *)
(* application and the events of other requests do: text that is typed into  *)
(* the field while it is cleared gives it none (ClearText.m:118-139).         *)
WorkShrinks ==
    [][/\ Handler => pc # "idle" /\ StepsLeft' < StepsLeft
       /\ ~Handler /\ pc # "idle" => UNCHANGED <<pc, StepsLeft>>]_vars

THEOREM RequestsAreBounded == Spec => []StepsAreCounted /\ WorkShrinks
<1>1. Inv /\ [Next]_vars =>
          /\ Handler => pc # "idle" /\ StepsLeft' < StepsLeft
          /\ ~Handler /\ pc # "idle" => UNCHANGED <<pc, StepsLeft>>
  BY HandlerShrinksWork, OthersLeaveWork
<1> QED
  BY <1>1, InvariantHolds, WorkIsCounted, PTL DEF Spec, WorkShrinks

-------------------------------------------------------------------------------
LEMMA NothingFits == 0 \in 0 .. MaxText
  BY Bounds

(* What runSync sends is the last event, and the handler waits for it. *)
LEMMA SentIsPending ==
    ASSUME Inv, EventIsPending, ~Synchronous, NEW e \in Event, e.mine, runSync(e),
           UNCHANGED completion
    PROVE  EventIsPending'
<1>1. /\ Synchronous' /\ queue' = Append(queue, e)
      /\ Len(queue) \in 0 .. MaxPending /\ queue \in Seq(Event)
      /\ MaxPending \in Nat
  BY WorkTypes DEF runSync, Synchronous, EventIsPending
<1>2. Len(queue') = Len(queue) + 1 /\ queue'[Len(queue) + 1] = e
  BY <1>1
<1>3. completion' = "none"
  BY DEF Inv, OneIsOut, Synchronous
<1> QED
  BY <1>1, <1>2, <1>3 DEF EventIsPending

LEMMA AnsweredIsNotPending ==
    ASSUME Inv, EventIsPending, ~Synchronous, NEW r, answer(r)
    PROVE  EventIsPending'
<1>1. queue' \in Seq(Event) /\ DOMAIN queue' = DOMAIN queue /\ queue \in Seq(Event)
  BY WorkTypes, Disowned DEF answer
<1>2. Len(queue') = Len(queue)
  BY <1>1
<1> QED
  BY <1>2 DEF EventIsPending, answer, Synchronous

LEMMA NextIsPending ==
    ASSUME Inv, EventIsPending, [Next]_vars
    PROVE  EventIsPending'
<1>1. CASE Device \/ UNCHANGED vars
  <2>1. UNCHANGED <<queue, pc, done, completion>>
    BY <1>1 DEF Device, edit, moveCaret, moveFocus, changeKeyboard, byItself, vars
  <2> QED
    BY <2>1 DEF EventIsPending, Synchronous
<1>2. CASE synthesize
  <2>1. /\ queue # <<>> /\ queue' = Tail(queue) /\ queue \in Seq(Event)
        /\ pc' = pc /\ done' = done
        /\ ~Head(queue).mine => completion' = completion
        /\ Head(queue).mine /\ pc = "sync" => completion' # "none"
    BY <1>2, WorkTypes DEF synthesize, complete, statement
  <2>2. /\ Len(queue') = Len(queue) - 1
        /\ Len(queue) \in Nat \ {0} /\ MaxPending \in Nat
        /\ Head(queue) = queue[1] /\ 1 \in DOMAIN queue /\ Len(queue) \in DOMAIN queue
        /\ \A j \in 1 .. Len(queue') : queue'[j] = queue[j + 1]
        /\ Len(queue) = 1 => queue' = <<>>
    BY <2>1, WorkTypes
  <2>3. CASE Synchronous /\ ~Head(queue).mine
    <3>1. completion = "none" /\ completion' = "none"
      BY <2>1, <2>3 DEF EventIsPending
    <3>2. Len(queue) # 1
      BY <2>2, <2>3, <3>1 DEF EventIsPending
    <3>3. queue'[Len(queue')].mine
      BY <2>2, <2>3, <3>1, <3>2 DEF EventIsPending
    <3> QED
      BY <2>1, <2>2, <2>3, <3>1, <3>2, <3>3 DEF EventIsPending, Synchronous
  <2>4. CASE Synchronous /\ Head(queue).mine
    <3>1. completion = "none" /\ completion' # "none"
      BY <2>1, <2>4 DEF EventIsPending, Synchronous
    <3>2. queue[1].mine /\ queue[Len(queue)].mine
      BY <2>2, <2>4, <3>1 DEF EventIsPending
    <3>3. Len(queue) = 1
      BY <2>2, <3>2 DEF Inv, OneIsOut
    <3> QED
      BY <2>1, <2>2, <2>4, <3>1, <3>3 DEF EventIsPending, Synchronous
  <2>5. CASE ~Synchronous
    <3>1. ~Synchronous'
      BY <2>1, <2>5 DEF Synchronous
    <3> QED
      BY <2>2, <2>5, <3>1 DEF EventIsPending
  <2> QED
    BY <2>3, <2>4, <2>5
<1>5. CASE finishCompletion
  <2>1. Synchronous /\ completion # "none" /\ done' = TRUE /\ queue' = queue
    BY <1>5 DEF finishCompletion, statement, Inv, OneIsOut, Synchronous
  <2>2. ~Synchronous' /\ Len(queue') = 0
    BY <2>1 DEF Synchronous, EventIsPending
  <2> QED
    BY <2>2, Bounds DEF EventIsPending
<1>3. CASE Client
  <2>1. ASSUME NEW f \in Field, touch(f) PROVE EventIsPending'
    <3>1. event("touch", f, 0) \in Event /\ event("touch", f, 0).mine
      BY NothingFits, EventIsEvent
    <3> QED
      BY <2>1, <3>1, SentIsPending DEF touch, receive, Synchronous
  <2>2. ASSUME NEW n \in 1 .. MaxText, enterText(n) PROVE EventIsPending'
    <3>1. n \in 0 .. MaxText
      BY Bounds
    <3>2. event("string", NoField, n) \in Event /\ event("string", NoField, n).mine
      BY <3>1, EventIsEvent
    <3> QED
      BY <2>2, <3>2, SentIsPending DEF enterText, receive, Synchronous
  <2>3. CASE clearText
    <3>1. CASE answer("error")
      BY <2>3, <3>1, AnsweredIsNotPending DEF clearText, receive, Synchronous
    <3>2. CASE pc' = "value" /\ UNCHANGED queue
      BY <2>3, <3>2 DEF clearText, receive, Synchronous, EventIsPending
    <3> QED
      BY <2>3, <3>1, <3>2 DEF clearText
  <2>4. CASE home \/ volume
    <3>1. /\ pc = "idle" /\ pc' # "sync"
          /\ \/ Len(queue) < MaxPending /\ \E e : queue' = Append(queue, e)
             \/ UNCHANGED queue
      BY <2>4 DEF home, volume, receive
    <3>2. Len(queue') <= MaxPending
      BY <3>1, WorkTypes DEF EventIsPending, Synchronous
    <3> QED
      BY <3>1, <3>2 DEF EventIsPending, Synchronous
  <2>5. ASSUME NEW picker \in -2 .. 2, NEW wheel \in -2 .. 2, setPickerWheelValue(picker, wheel)
        PROVE  EventIsPending'
    BY <2>5 DEF setPickerWheelValue, EventIsPending, Synchronous
  <2> QED
    BY <1>3, <2>1, <2>2, <2>3, <2>4, <2>5 DEF Client
<1>4. CASE Handler
  <2>1. ~Synchronous
    BY <1>4 DEF Handler, readValue, findDeleteKey, deleteCharacter, returnFromRunSync,
                readOuterError, Synchronous
  <2>2. ASSUME NEW r, answer(r) PROVE EventIsPending'
    BY <2>1, <2>2, AnsweredIsNotPending
  <2>3. CASE pc' \in {"key", "delete"} /\ UNCHANGED queue
    BY <2>1, <2>3 DEF EventIsPending, Synchronous
  <2>4. CASE sendDelete /\ UNCHANGED completion
    <3>1. key \in {"tap delete", "delete"}
      BY DEF Inv, Types
    <3>2. event(key, NoField, 0) \in Event /\ event(key, NoField, 0).mine
      BY <3>1, NothingFits, EventIsEvent
    <3> QED
      BY <2>1, <2>4, <3>2, SentIsPending DEF sendDelete
  <2> QED
    BY <1>4, <2>2, <2>3, <2>4
    DEF Handler, readValue, findDeleteKey, deleteCharacter, finishClearing,
        returnFromRunSync, readOuterError
<1> QED
  BY <1>1, <1>2, <1>3, <1>4, <1>5 DEF Next

LEMMA PendingHolds == Spec => []EventIsPending
<1>1. Init => EventIsPending
  <2> SUFFICES ASSUME Init PROVE EventIsPending
    OBVIOUS
  <2>1. Len(queue) = 0 /\ ~Synchronous
    BY DEF Init, Synchronous
  <2> QED
    BY <2>1, Bounds DEF EventIsPending
<1> QED
  BY <1>1, NextIsPending, InvariantHolds, PTL DEF Spec
-------------------------------------------------------------------------------
(***************************************************************************)
(* Steps are put together by doubling.  Induction over their number would  *)
(* reach any number, but TLA+ has no set of the numbers for which a        *)
(* temporal formula fails; forty doublings reach 2^40 steps, far more than  *)
(* a request ever takes.                                                   *)
(***************************************************************************)
Reach == 1099511627776

(* testmanagerd can perform or refuse what it is sent, a completion can end,  *)
(* and the handler can go on when it does not wait.  The provers do not       *)
(* expand ENABLED; RequestReturns of a run shows it for its instance.        *)
NeverStuck ==
    /\ queue # <<>> => ENABLED <<synthesize>>_vars
    /\ completion # "none" => ENABLED <<finishCompletion>>_vars
    /\ pc # "idle" /\ ~Synchronous => ENABLED <<Handler>>_vars

Progress == FairSpec /\ []NeverStuck

AwakesWithin(m) == Progress => [](Synchronous /\ Len(queue) <= m => <>~Synchronous)

(* With no event left, its completion comes to raise the flag. *)
LEMMA AwakesAtOnce == AwakesWithin(0)
<1> DEFINE At == Synchronous /\ completion # "none"
<1>1. Inv /\ EventIsPending /\ Synchronous /\ Len(queue) <= 0 => At
  BY WorkTypes DEF EventIsPending
<1>2. Inv /\ EventIsPending /\ At /\ [Next]_vars => At' \/ ~Synchronous'
  <2> SUFFICES ASSUME Inv, EventIsPending, At, [Next]_vars, ~finishCompletion
               PROVE  At' \/ ~Synchronous'
    BY Statements DEF finishCompletion, Synchronous
  <2>1. queue = <<>>
    BY DEF EventIsPending
  <2> QED
    BY <2>1 DEF Next, synthesize, Synchronous, Handler, readValue, findDeleteKey, deleteCharacter,
            returnFromRunSync, readOuterError, Client, touch, enterText, clearText, home,
            volume, receive, setPickerWheelValue, Device, edit, moveCaret, moveFocus,
            changeKeyboard, byItself, vars
<1>3. At /\ NeverStuck => ENABLED <<finishCompletion>>_vars
  BY DEF NeverStuck
<1>4. At /\ <<finishCompletion>>_vars => ~Synchronous'
  BY DEF finishCompletion, statement, Synchronous
<1> HIDE DEF At
<1> QED
  BY <1>1, <1>2, <1>3, <1>4, InvariantHolds, PendingHolds, PTL
  DEF AwakesWithin, Progress, FairSpec, Spec

(* The queue in front of the event grows shorter. *)
LEMMA AwakesAnEventLater ==
    ASSUME NEW m \in Nat
    PROVE  AwakesWithin(m) => AwakesWithin(m + 1)
<1> DEFINE At == Synchronous /\ Len(queue) = m + 1
<1>1. Inv /\ Synchronous /\ Len(queue) <= m + 1 => At \/ (Synchronous /\ Len(queue) <= m)
  BY WorkTypes
<1>2. Inv /\ At /\ synthesize => (Len(queue) <= m)'
  <2> SUFFICES ASSUME Inv, At, synthesize PROVE (Len(queue) <= m)'
    OBVIOUS
  <2>1. queue # <<>> /\ queue' = Tail(queue) /\ queue \in Seq(Event)
    BY WorkTypes DEF synthesize
  <2>2. Len(queue') = Len(queue) - 1
    BY <2>1
  <2> QED
    BY <2>2
<1>3. Inv /\ At /\ [Next]_vars => At' \/ (Synchronous /\ Len(queue) <= m)' \/ ~Synchronous'
  <2>1. ASSUME Inv, At, [Next]_vars, ~synthesize PROVE UNCHANGED queue
    BY <2>1 DEF Next, finishCompletion, Synchronous, Handler, readValue, findDeleteKey, deleteCharacter,
            returnFromRunSync, readOuterError, Client, touch, enterText, clearText, home,
            volume, receive, setPickerWheelValue, Device, edit, moveCaret, moveFocus,
            changeKeyboard, byItself, vars
  <2> QED
    BY <1>2, <2>1
<1>4. Inv /\ At /\ NeverStuck => ENABLED <<synthesize>>_vars
  <2> SUFFICES ASSUME Inv, At, NeverStuck PROVE ENABLED <<synthesize>>_vars
    OBVIOUS
  <2>1. queue \in Seq(Event) /\ Len(queue) # 0
    BY WorkTypes
  <2>2. queue # <<>>
    BY <2>1
  <2> QED
    BY <2>2 DEF NeverStuck
<1>5. Inv /\ At /\ <<synthesize>>_vars => (Synchronous /\ Len(queue) <= m)' \/ ~Synchronous'
  BY <1>2
<1> HIDE DEF At
<1> QED
  BY <1>1, <1>3, <1>4, <1>5, InvariantHolds, PTL DEF AwakesWithin, Progress, FairSpec, Spec

Performs(k) == \A n \in Nat : AwakesWithin(n) => AwakesWithin(n + k)

LEMMA PerformsTwice == ASSUME NEW k \in Nat PROVE Performs(k) => Performs(k + k)
<1> SUFFICES ASSUME Performs(k), NEW n \in Nat, AwakesWithin(n) PROVE AwakesWithin(n + (k + k))
  BY DEF Performs
<1> HIDE DEF AwakesWithin
<1>1. AwakesWithin(n + k)
  BY DEF Performs
<1>2. n + k \in Nat /\ (n + k) + k = n + (k + k)
  OBVIOUS
<1>3. AwakesWithin((n + k) + k)
  BY <1>1, <1>2 DEF Performs
<1> QED
  BY <1>2, <1>3

LEMMA AwakesWithinReach == AwakesWithin(Reach)
<1>1. Performs(1)
  BY AwakesAnEventLater DEF Performs
<1> HIDE DEF Performs
<1>2. Performs(16)
  BY <1>1, PerformsTwice
<1>3. Performs(256)
  BY <1>2, PerformsTwice
<1>4. Performs(4096)
  BY <1>3, PerformsTwice
<1>5. Performs(65536)
  BY <1>4, PerformsTwice
<1>6. Performs(1048576)
  BY <1>5, PerformsTwice
<1>7. Performs(16777216)
  BY <1>6, PerformsTwice
<1>8. Performs(268435456)
  BY <1>7, PerformsTwice
<1>9. Performs(4294967296)
  BY <1>8, PerformsTwice
<1>10. Performs(68719476736)
  BY <1>9, PerformsTwice
<1>11. Performs(1099511627776)
  BY <1>10, PerformsTwice
<1>12. AwakesWithin(0 + 1099511627776)
  BY <1>11, AwakesAtOnce DEF Performs
<1> QED
  BY <1>12 DEF Reach

(* runSync returns: testmanagerd comes to the event it was sent, whatever is *)
(* queued in front of it (ThreadUtils.m:6-14).                               *)
LEMMA Awakes == ASSUME MaxPending + 1 <= Reach PROVE Progress => [](Synchronous => <>~Synchronous)
<1>1. AwakesWithin(Reach)
  BY AwakesWithinReach
<1>2. Inv /\ EventIsPending /\ Synchronous => Len(queue) <= Reach
  BY Bounds, WorkTypes DEF EventIsPending, Reach
<1> QED
  BY <1>1, <1>2, InvariantHolds, PendingHolds, PTL DEF AwakesWithin, Progress, FairSpec

ReturnsWithin(n) == Progress => [](StepsLeft <= n => <>(pc = "idle"))

LEMMA WorkIsNatural == Inv => StepsLeft \in Nat /\ (StepsLeft = 0 <=> pc = "idle")
<1>1. MaxSteps \in Nat
  BY Bounds DEF MaxSteps
<1> QED
  BY <1>1, WorkIsCounted DEF StepsAreCounted

LEMMA ReturnsAtOnce == ReturnsWithin(0)
<1>1. Inv /\ StepsLeft <= 0 => pc = "idle"
  BY WorkIsNatural
<1> QED
  BY <1>1, InvariantHolds, PTL DEF ReturnsWithin, Progress, FairSpec

(* With one more step left, the handler comes to take it. *)
LEMMA ReturnsAStepLater ==
    ASSUME NEW n \in Nat, MaxPending + 1 <= Reach
    PROVE  ReturnsWithin(n) => ReturnsWithin(n + 1)
<1> DEFINE At == StepsLeft = n + 1
<1>1. Inv /\ StepsLeft <= n + 1 => StepsLeft <= n \/ At
  BY WorkIsNatural
<1>2. Inv /\ At => pc # "idle"
  BY WorkIsNatural
<1>3. Inv /\ Inv' /\ At /\ Handler => (StepsLeft <= n)'
  <2> SUFFICES ASSUME Inv, Inv', At, Handler PROVE (StepsLeft <= n)'
    OBVIOUS
  <2>1. StepsLeft' < n + 1
    BY HandlerShrinksWork
  <2>2. Inv' => (StepsLeft \in Nat)'
    BY WorkIsNatural, PTL
  <2> QED
    BY <2>1, <2>2
<1>4. Inv /\ Inv' /\ At /\ [Next]_vars => At' \/ (StepsLeft <= n)'
  BY <1>2, <1>3, OthersLeaveWork
<1>5. Inv /\ Inv' /\ At /\ ~Synchronous /\ [Next]_vars => (At' /\ ~Synchronous') \/ (StepsLeft <= n)'
  <2> SUFFICES ASSUME Inv, At, ~Synchronous, [Next]_vars, ~Handler PROVE At' /\ ~Synchronous'
    BY <1>3
  <2>1. pc # "idle" /\ pc' = pc /\ At'
    BY <1>2, OthersLeaveWork
  <2>2. done => done'
    BY <2>1 DEF Next, synthesize, complete, finishCompletion, statement, Client, touch, enterText, clearText, home,
            volume, receive, setPickerWheelValue, Device, edit, moveCaret, moveFocus,
            changeKeyboard, byItself, vars, Inv, Flags
  <2> QED
    BY <2>1, <2>2 DEF Synchronous
<1>6. Inv /\ At /\ ~Synchronous /\ NeverStuck => ENABLED <<Handler>>_vars
  BY <1>2 DEF NeverStuck
<1> HIDE DEF At
<1> QED
  BY <1>1, <1>3, <1>4, <1>5, <1>6, InvariantHolds, Awakes, PTL
  DEF ReturnsWithin, Progress, FairSpec, Spec

Carries(k) == \A n \in Nat : ReturnsWithin(n) => ReturnsWithin(n + k)

LEMMA CarriesTwice == ASSUME NEW k \in Nat PROVE Carries(k) => Carries(k + k)
<1> SUFFICES ASSUME Carries(k), NEW n \in Nat, ReturnsWithin(n) PROVE ReturnsWithin(n + (k + k))
  BY DEF Carries
<1> HIDE DEF ReturnsWithin
<1>1. ReturnsWithin(n + k)
  BY DEF Carries
<1>2. n + k \in Nat /\ (n + k) + k = n + (k + k)
  OBVIOUS
<1>3. ReturnsWithin((n + k) + k)
  BY <1>1, <1>2 DEF Carries
<1> QED
  BY <1>2, <1>3

LEMMA ReturnsWithinReach == ASSUME MaxPending + 1 <= Reach PROVE ReturnsWithin(Reach)
<1>1. Carries(1)
  BY ReturnsAStepLater DEF Carries
<1> HIDE DEF Carries
<1>2. Carries(16)
  BY <1>1, CarriesTwice
<1>3. Carries(256)
  BY <1>2, CarriesTwice
<1>4. Carries(4096)
  BY <1>3, CarriesTwice
<1>5. Carries(65536)
  BY <1>4, CarriesTwice
<1>6. Carries(1048576)
  BY <1>5, CarriesTwice
<1>7. Carries(16777216)
  BY <1>6, CarriesTwice
<1>8. Carries(268435456)
  BY <1>7, CarriesTwice
<1>9. Carries(4294967296)
  BY <1>8, CarriesTwice
<1>10. Carries(68719476736)
  BY <1>9, CarriesTwice
<1>11. Carries(1099511627776)
  BY <1>10, CarriesTwice
<1>12. ReturnsWithin(0 + 1099511627776)
  BY <1>11, ReturnsAtOnce DEF Carries
<1> QED
  BY <1>12 DEF Reach

(* Every request is answered, whatever the application does with the text,   *)
(* the caret and the focus meanwhile, if testmanagerd performs or refuses    *)
(* what it is sent and the main thread goes on with its handler.             *)
THEOREM RequestsReturn ==
    ASSUME MaxSteps <= Reach, MaxPending + 1 <= Reach
    PROVE  FairSpec /\ []NeverStuck => RequestReturns
<1>1. MaxSteps \in Nat
  BY Bounds DEF MaxSteps
<1>2. ReturnsWithin(Reach)
  BY ReturnsWithinReach
<1>3. Inv => StepsLeft <= Reach
  BY WorkIsCounted, <1>1 DEF StepsAreCounted, Reach
<1> QED
  BY <1>2, <1>3, InvariantHolds, PTL DEF ReturnsWithin, Progress, FairSpec, RequestReturns
===============================================================================
