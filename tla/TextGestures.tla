------------------------------ MODULE TextGestures ------------------------------
(***************************************************************************)
(* The routes that have testmanagerd synthesize events: touch, enter_text, *)
(* clear_text, set_picker_wheel_value, and the home and volume buttons.    *)
(*                                                                         *)
(* Events are sent to testmanagerd, which performs them in turn and calls  *)
(* a completion block of the runner, on another thread, for each.  A       *)
(* gesture waits for every event it sends (ThreadUtils.runSync); a button  *)
(* does not, so its event may be performed while later requests run.       *)
(* Meanwhile the application moves the focus, the caret and the text of    *)
(* its fields as it likes.                                                 *)
(***************************************************************************)
EXTENDS Integers, Sequences

CONSTANTS Field,        \* the text inputs of the application
          NoField,
          MaxText,      \* the characters a field has room for
          Wheels,       \* the pickers on the screen: the number of wheels of each
          Buttons,      \* the device buttons clients press
          MaxPending    \* bound: events testmanagerd has not performed yet

ASSUME TextAssumption ==
    /\ NoField \notin Field
    /\ MaxText \in Nat \ {0}
    /\ Wheels \in Seq(Nat)
    /\ Buttons \subseteq {"home", "volume"}
    /\ MaxPending \in Nat

VARIABLES
    text,       \* the number of characters in each field
    behind,     \* how many of them are behind the caret
    focus,      \* the field that has the keyboard focus, or NoField
    deleteKey,  \* the delete key of the keyboard: "shown", "hidden", or
                \* "offscreen", without a valid hit point
    queue,      \* the events testmanagerd is to perform
    pc,         \* the next step of the handler
    gesture,    \* the request it is about
    responder, string, index, key, \* of clear_text: the first responder, the
                \* length of its text, the events sent for it, and their kind
    outerError, \* the __block variable completions assign
    done,       \* the flag runSync polls
    completion, \* of the event runSync waits for: "performed" or "failed" while it
                \* runs on its own thread, or "none"
    reply,      \* what the last request was answered
    \* What happened since the request came:
    refused,    \* one of its events was not performed
    picked,     \* a picker wheel was adjusted
    alone       \* of clear_text: the caret was at the end, no event of the home
                \* button was pending, and the application has left things alone

device == <<text, behind, focus, deleteKey>>
clearing == <<responder, string, index, key>>
history == <<refused, picked, alone>>
vars == <<device, queue, pc, gesture, clearing, outerError, done, completion,
          reply, history>>

(* An event; mine says that the handler that sent it is still running. *)
Event == [kind : {"touch", "string", "tap delete", "delete", "home", "volume"},
          field : Field \cup {NoField}, length : 0 .. MaxText, mine : BOOLEAN]

event(kind, f, n) == [kind |-> kind, field |-> f, length |-> n, mine |-> TRUE]

Init ==
    /\ text \in [Field -> 0 .. MaxText]
    /\ behind = [f \in Field |-> 0]
    /\ focus = NoField
    /\ deleteKey = "hidden"
    /\ queue = <<>>
    /\ pc = "idle"
    /\ gesture = "none"
    /\ responder = NoField
    /\ string = 0
    /\ index = 0
    /\ key = "delete"
    /\ outerError = FALSE
    /\ done = FALSE
    /\ completion = "none"
    /\ reply = "none"
    /\ refused = FALSE
    /\ picked = FALSE
    /\ alone = FALSE

-------------------------------------------------------------------------------
(* The application and the device.                                         *)

byItself ==
    /\ alone' = FALSE
    /\ UNCHANGED <<queue, pc, gesture, clearing, outerError, done, completion, reply,
                   refused, picked>>

(* The application changes a text; the caret goes to its end. *)
edit(f, n) ==
    /\ text' = [text EXCEPT ![f] = n]
    /\ behind' = [behind EXCEPT ![f] = 0]
    /\ UNCHANGED <<focus, deleteKey>>
    /\ byItself

moveCaret(f, n) ==
    /\ n <= text[f]
    /\ behind' = [behind EXCEPT ![f] = n]
    /\ UNCHANGED <<text, focus, deleteKey>>
    /\ byItself

moveFocus(f) ==
    /\ focus' = f
    /\ UNCHANGED <<text, behind, deleteKey>>
    /\ byItself

changeKeyboard(k) ==
    /\ deleteKey' = k
    /\ UNCHANGED <<text, behind, focus>>
    /\ byItself

(* A character is inserted, or deleted, in front of the caret. *)
insert(n) ==
    text' = [text EXCEPT ![focus] = IF @ + n <= MaxText THEN @ + n ELSE MaxText]

deleteBackward ==
    text' = IF text[focus] > behind[focus] THEN [text EXCEPT ![focus] = @ - 1] ELSE text

(* What an event does to the screen: keys go to the field with the focus, a  *)
(* tap on the delete key goes where the key was.                             *)
perform(e) ==
    \/ /\ e.kind = "touch"
       /\ focus' = e.field
       /\ UNCHANGED <<text, behind, deleteKey>>
    \/ /\ e.kind = "string" /\ focus # NoField
       /\ insert(e.length)
       /\ UNCHANGED <<behind, focus, deleteKey>>
    \/ /\ \/ e.kind = "delete" /\ focus # NoField
          \/ e.kind = "tap delete" /\ focus # NoField /\ deleteKey = "shown"
       /\ deleteBackward
       /\ UNCHANGED <<behind, focus, deleteKey>>
    \/ /\ e.kind = "home"
       /\ focus' = NoField
       /\ deleteKey' = "hidden"
       /\ UNCHANGED <<text, behind>>
    \/ /\ \/ e.kind = "volume"
          \/ e.kind \in {"string", "delete"} /\ focus = NoField
          \/ e.kind = "tap delete" /\ (focus = NoField \/ deleteKey # "shown")
       /\ UNCHANGED device

(* Fault: the flag is raised before the error is assigned. *)
RaisesFirst(n, innerError) ==
    \/ n = 1 /\ done' = TRUE /\ UNCHANGED outerError
    \/ n = 2 /\ outerError' = innerError /\ UNCHANGED done

(* The statements of a completion. *)
statement(n, innerError) ==
    \/ n = 1 /\ outerError' = innerError /\ UNCHANGED done
    \/ n = 2 /\ done' = TRUE /\ UNCHANGED outerError

(* A completion is called.  That of a button has no flag to raise, and once  *)
(* the handler has returned it assigns a variable nobody reads.              *)
complete(e, innerError) ==
    /\ refused' = (refused \/ (e.mine /\ innerError))
    /\ \/ ~e.mine /\ UNCHANGED <<outerError, done, completion>>
       \/ /\ e.mine
          /\ statement(1, innerError)
          /\ completion' = IF pc # "sync" THEN completion
                           ELSE IF innerError THEN "failed" ELSE "performed"

(* testmanagerd performs the first event, or cannot, and has its completion  *)
(* called...                                                                 *)
synthesize ==
    /\ queue # <<>>
    /\ queue' = Tail(queue)
    /\ \/ perform(Head(queue)) /\ complete(Head(queue), FALSE)
       \/ UNCHANGED device /\ complete(Head(queue), TRUE)
    /\ UNCHANGED <<pc, gesture, clearing, reply, picked, alone>>

(* ...which goes on while the handler polls. *)
finishCompletion ==
    /\ completion # "none"
    /\ statement(2, completion = "failed")
    /\ completion' = "none"
    /\ UNCHANGED <<device, queue, pc, gesture, clearing, reply, history>>

-------------------------------------------------------------------------------
(* The handlers.                                                           *)

(* A request is answered; events it has not waited for are on their own. *)
answer(r) ==
    /\ reply' = r
    /\ pc' = "idle"
    /\ queue' = [i \in DOMAIN queue |-> [queue[i] EXCEPT !.mine = FALSE]]

receive(name) ==
    /\ pc = "idle"
    /\ gesture' = name
    /\ outerError' = FALSE
    /\ refused' = FALSE
    /\ picked' = FALSE
    /\ UNCHANGED <<device, completion>>

(* runSync: the event is sent, and the flag is polled until it is done. *)
runSync(e) ==
    /\ queue' = Append(queue, e)
    /\ done' = FALSE
    /\ pc' = "sync"

touch(f) ==
    /\ receive("touch")
    /\ runSync(event("touch", f, 0))
    /\ reply' = "none"
    /\ UNCHANGED <<clearing, alone>>

enterText(n) ==
    /\ receive("enter_text")
    /\ runSync(event("string", NoField, n))
    /\ reply' = "none"
    /\ UNCHANGED <<clearing, alone>>

(* clear_text begins with a look for the first responder... *)
clearText ==
    /\ receive("clear_text")
    /\ responder' = focus
    /\ string' = 0
    /\ index' = 0
    /\ alone' = /\ focus # NoField => behind[focus] = 0
                /\ \A i \in DOMAIN queue : queue[i].kind = "volume"
    /\ UNCHANGED <<key, done>>
    /\ \/ focus = NoField /\ answer("error")
       \/ focus # NoField /\ pc' = "value" /\ reply' = "none" /\ UNCHANGED queue

(* ...then reads its text, or that of the field which has the focus by then, *)
(* and raises if the query of the first responder finds no field any more... *)
readValue ==
    /\ pc = "value"
    /\ \/ focus # responder /\ answer("500") /\ UNCHANGED string
       \/ /\ focus # NoField
          /\ string' = text[focus]
          /\ \/ text[focus] = 0 /\ answer("success")
             \/ text[focus] > 0 /\ pc' = "key" /\ UNCHANGED <<reply, queue>>
    /\ UNCHANGED <<device, gesture, responder, index, key, outerError, done, completion, history>>

(* ...and then looks for a delete key, which decides how it deletes. *)
findDeleteKey ==
    /\ pc = "key"
    /\ \/ deleteKey = "offscreen" /\ answer("error") /\ UNCHANGED key
       \/ /\ deleteKey # "offscreen"
          /\ key' = IF deleteKey = "shown" THEN "tap delete" ELSE "delete"
          /\ pc' = "delete"
          /\ UNCHANGED <<reply, queue>>
    /\ UNCHANGED <<device, gesture, responder, string, index, outerError, done, completion, history>>

sendDelete ==
    /\ runSync(event(key, NoField, 0))
    /\ UNCHANGED reply

finishClearing ==
    /\ answer(IF outerError THEN "error" ELSE "success")
    /\ UNCHANGED <<index, done>>

(* Fault: the loop goes on after an error. *)
IgnoresErrors ==
    /\ pc = "delete"
    /\ \/ index < string /\ index' = index + 1 /\ sendDelete
       \/ index = string /\ finishClearing
    /\ UNCHANGED <<device, gesture, responder, string, key, outerError, completion, history>>

(* Fault: one deletion less than there are characters. *)
StopsShort ==
    /\ pc = "delete"
    /\ \/ index < string - 1 /\ ~outerError /\ index' = index + 1 /\ sendDelete
       \/ (index >= string - 1 \/ outerError) /\ finishClearing
    /\ UNCHANGED <<device, gesture, responder, string, key, outerError, completion, history>>

(* Fault: one deletion more. *)
DeletesOnceMore ==
    /\ pc = "delete"
    /\ \/ index <= string /\ ~outerError /\ index' = index + 1 /\ sendDelete
       \/ (index > string \/ outerError) /\ finishClearing
    /\ UNCHANGED <<device, gesture, responder, string, key, outerError, completion, history>>

(* Fault: the text is read again, and deleted until there is none. *)
DeletesUntilEmpty ==
    /\ pc = "delete"
    /\ \/ text[responder] > 0 /\ ~outerError /\ UNCHANGED index /\ sendDelete
       \/ (text[responder] = 0 \/ outerError) /\ finishClearing
    /\ UNCHANGED <<device, gesture, responder, string, key, outerError, completion, history>>

(* One event for each character that was read, until one fails. *)
deleteCharacter ==
    /\ pc = "delete"
    /\ \/ index < string /\ ~outerError /\ index' = index + 1 /\ sendDelete
       \/ (index = string \/ outerError) /\ finishClearing
    /\ UNCHANGED <<device, gesture, responder, string, key, outerError, completion, history>>

(* runSync returns: clear_text goes on, the other gestures are answered. *)
returnFromRunSync ==
    /\ pc = "sync"
    /\ done
    /\ \/ gesture = "clear_text" /\ pc' = "delete" /\ UNCHANGED <<reply, queue>>
       \/ gesture # "clear_text" /\ answer(IF outerError THEN "error" ELSE "success")
    /\ UNCHANGED <<device, gesture, clearing, outerError, done, completion, history>>

(* /home sends its event... *)
home ==
    /\ "home" \in Buttons
    /\ Len(queue) < MaxPending
    /\ receive("home")
    /\ queue' = Append(queue, event("home", NoField, 0))
    /\ pc' = "home"
    /\ reply' = "none"
    /\ UNCHANGED <<clearing, done, alone>>

(* ...and looks for an error at once, whether the completion has run or not. *)
readOuterError ==
    /\ pc = "home"
    /\ answer(IF outerError THEN "error" ELSE "success")
    /\ UNCHANGED <<device, gesture, clearing, outerError, done, completion, history>>

(* /volume does not look at all; it raises if it is to go neither up nor down. *)
volume ==
    /\ "volume" \in Buttons
    /\ receive("volume")
    /\ \/ /\ Len(queue) < MaxPending
          /\ queue' = Append(queue, [event("volume", NoField, 0) EXCEPT !.mine = FALSE])
          /\ reply' = "success"
       \/ UNCHANGED queue /\ reply' = "error"
    /\ UNCHANGED <<pc, clearing, done, alone>>

(* Fault: the last of them is taken for missing. *)
LessOrEqual(count, i) == i < 0 \/ count <= i

(* A count is compared with an int that is converted to unsigned. *)
lessThan(count, i) == i < 0 \/ count < i

(* set_picker_wheel_value: setPickerWheelValue:wheelIndex:value:error:       *)
(* reports what is missing in an error that its caller drops; an index of -1 *)
(* passes the check and raises, and so may XCTest.                           *)
setPickerWheelValue(picker, wheel) ==
    /\ pc = "idle"
    /\ gesture' = "set_picker_wheel_value"
    /\ LET noPicker == Len(Wheels) = 0 \/ lessThan(Len(Wheels), picker + 1)
           wheels == IF picker + 1 \in DOMAIN Wheels THEN Wheels[picker + 1] ELSE 0
           noWheel == wheels = 0 \/ lessThan(wheels, wheel + 1)
       IN \/ /\ noPicker \/ (picker >= 0 /\ noWheel)
             /\ reply' = "success"
             /\ picked' = FALSE
          \/ /\ ~noPicker
             /\ picker = -1 \/ ~noWheel
             /\ reply' = "500"
             /\ picked' = FALSE
          \/ /\ ~noPicker /\ ~noWheel /\ picker >= 0 /\ wheel >= 0
             /\ reply' = "success"
             /\ picked' = TRUE
    /\ UNCHANGED <<device, queue, pc, clearing, outerError, done, completion,
                   refused, alone>>

-------------------------------------------------------------------------------
Handler ==
    \/ readValue \/ findDeleteKey \/ deleteCharacter
    \/ returnFromRunSync \/ readOuterError

Client ==
    \/ \E f \in Field : touch(f)
    \/ \E n \in 1 .. MaxText : enterText(n)
    \/ clearText \/ home \/ volume
    \/ \E picker, wheel \in -2 .. 2 : setPickerWheelValue(picker, wheel)

Device ==
    \/ \E f \in Field, n \in 0 .. MaxText : edit(f, n) \/ moveCaret(f, n)
    \/ \E f \in Field \cup {NoField} : moveFocus(f)
    \/ \E k \in {"shown", "hidden", "offscreen"} : changeKeyboard(k)

Next == Handler \/ synthesize \/ finishCompletion \/ Client \/ Device

Spec == Init /\ [][Next]_vars

(* The main thread goes on with its handler, testmanagerd with its events and  *)
(* the thread of a completion with its statements.                            *)
FairSpec == Spec /\ WF_vars(Handler) /\ WF_vars(synthesize) /\ WF_vars(finishCompletion)

-------------------------------------------------------------------------------
TypeOK ==
    /\ text \in [Field -> 0 .. MaxText]
    /\ behind \in [Field -> 0 .. MaxText]
    /\ focus \in Field \cup {NoField}
    /\ deleteKey \in {"shown", "hidden", "offscreen"}
    /\ queue \in Seq(Event)
    /\ pc \in {"idle", "value", "key", "delete", "sync", "home"}
    /\ gesture \in {"none", "touch", "enter_text", "clear_text", "home", "volume",
                    "set_picker_wheel_value"}
    /\ responder \in Field \cup {NoField}
    /\ string \in 0 .. MaxText
    /\ index \in 0 .. string
    /\ key \in {"tap delete", "delete"}
    /\ outerError \in BOOLEAN
    /\ done \in BOOLEAN
    /\ completion \in {"none", "performed", "failed"}
    /\ reply \in {"none", "success", "error", "500"}
    /\ refused \in BOOLEAN
    /\ picked \in BOOLEAN
    /\ alone \in BOOLEAN

Answers(r) == pc # "idle" /\ pc' = "idle" /\ reply' = r

(* A touch, enter_text or clear_text that is answered with success had each  *)
(* of its events performed before, although they are performed by            *)
(* testmanagerd and their outcome is told by another thread, in two          *)
(* statements (Gesture.m:80-89, EnterText.m:32-45, ClearText.m:123-160).     *)
SuccessMeansPerformed ==
    [][Answers("success") /\ gesture # "home" =>
           ~refused /\ \A i \in DOMAIN queue : ~queue[i].mine]_vars

(* clear_text sends nothing after an event that failed (ClearText.m:134,166). *)
StopsAtTheFirstError ==
    [][(pc = "delete" /\ pc' = "sync") => ~refused]_vars

(* Every request is answered, whatever the application does with the text,   *)
(* the caret and the focus meanwhile.                                        *)
RequestReturns == pc # "idle" ~> pc = "idle"

(* "Clears text in the first element with `isFocused == true`"               *)
(* (ClearText.h:6): after a success the text of that element is gone, if the *)
(* caret was at its end and nothing disturbed the deletions.  (Otherwise     *)
(* what is behind the caret stays, and the answer is success all the same.)  *)
ClearedIsEmpty ==
    [][Answers("success") /\ gesture = "clear_text" /\ alone => text[responder] = 0]_vars

(* "Error touching home button" is answered when the home button could not   *)
(* be touched (DeviceEventRoutes.m:64), so success is not answered before    *)
(* that is known.                                                            *)
HomeWaitsForItsEvent ==
    [][Answers("success") /\ gesture = "home" =>
           \A i \in DOMAIN queue : ~queue[i].mine]_vars

(* A picker and a wheel that are there are set, or the request fails; those  *)
(* that are not, a negative index among them, are not taken for others: the  *)
(* counts are unsigned and the indices are not (Application.m:241,268).      *)
PickerIsSetIfThere ==
    [][\A picker, wheel \in -2 .. 2 :
        LET there == /\ picker + 1 \in DOMAIN Wheels
                     /\ wheel \in 0 .. Wheels[picker + 1] - 1
        IN gesture' = "set_picker_wheel_value" /\ reply' = "success" /\ picked' # there
               => ~setPickerWheelValue(picker, wheel)]_vars
===============================================================================
