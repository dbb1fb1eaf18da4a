-------------------------- MODULE GestureEventsProofs --------------------------
(***************************************************************************)
(* Proofs about GestureEvents, for any set of requests: whatever the       *)
(* options, the paths that are sent are well typed, no finger's path runs  *)
(* back in time, a finger is up for a pause between two taps, the fingers  *)
(* of a gesture move together, a drag passes each of its coordinates, and  *)
(* a rotation turns as far and takes as long as it was asked.              *)
(*                                                                         *)
(* There are two invariants.  IInv is about the clock of a gesture while   *)
(* its paths are built; SInv, in the second half, says which points they   *)
(* consist of.  The last part counts the steps a gesture has left, and     *)
(* concludes that it is answered.                                          *)
(***************************************************************************)
EXTENDS GestureEvents, TLAPS

USE DEF circle

-------------------------------------------------------------------------------
(* What a request that was accepted is like.                               *)

(* A numeric option, or its default, is a number. *)
LEMMA NumberIsInt ==
    ASSUME NEW r \in Request, NEW key, NEW default \in Int
    PROVE number(r, key, default) \in Int
  BY GestureAssumption DEF GestureAssumption, number

LEMMA OptionTypes ==
    ASSUME NEW r \in Request
    PROVE /\ repetitions(r) \in Int
          /\ numFingers(r) \in Int
          /\ duration(r) \in Int
          /\ dragFirstTouchHoldDuration(r) \in Int
          /\ rotateDuration(r) \in Int
          /\ pinchAmount(r) \in Int
          /\ degrees(r) \in Int
          /\ radius(r) \in Int
          /\ rotationStart(r) \in Int
          /\ r.points \in Seq(Coordinate)
  BY NumberIsInt, GestureAssumption DEF GestureAssumption, repetitions, numFingers, duration,
     dragFirstTouchHoldDuration, rotateDuration, pinchAmount, degrees, radius, rotationStart

(* A gesture that is accepted has a first point, and touches have fingers. *)
LEMMA AcceptedPoints ==
    ASSUME NEW r \in Request, valid(r)
    PROVE /\ r.gesture \in {"touch", "double_tap", "two_finger_tap", "drag", "pinch", "rotate"}
          /\ Len(r.points) \in Nat /\ Len(r.points) >= 1
          /\ \A i \in 1 .. Len(r.points) : r.points[i] \in Coordinate
          /\ r.gesture = "touch" => numFingers(r) \in 1 .. 4 /\ duration(r) >= 100
          /\ r.gesture = "drag" => Len(r.points) >= 2
          /\ r.gesture = "rotate" => degrees(r) > 0 /\ (degrees(r) < 4 => degrees(r) = 2)
<1>1. r.points \in Seq(Coordinate)
  BY OptionTypes
<1>2. /\ r.specifier \in {"coordinate", "coordinates"}
      /\ r.specifier = "coordinate" => Len(r.points) = 1
      /\ degrees(r) < 4 => degrees(r) % 2 = 0
  BY GestureAssumption DEF GestureAssumption, valid, validSpecifier
<1>3. r.gesture \in {"touch", "double_tap", "two_finger_tap", "drag", "pinch", "rotate"}
  BY DEF valid, validKeys, optionalKeys
<1>4. /\ Len(r.points) \in Nat
      /\ \A i \in 1 .. Len(r.points) : r.points[i] \in Coordinate
  BY <1>1
<1>5. r.points # <<>> => Len(r.points) >= 1
  BY <1>1
<1>6. Len(r.points) >= 1
  <2>1. CASE r.gesture \in {"touch", "double_tap", "two_finger_tap"}
    <3>1. r.specifier # "coordinates"
      BY <2>1 DEF valid, validTouch, validTap
    <3> QED
      BY <1>2, <3>1
  <2>2. CASE r.gesture = "drag"
    BY <1>4, <2>2 DEF valid, validDrag
  <2>3. CASE r.gesture \in {"pinch", "rotate"}
    BY <1>5, <2>3 DEF valid, validRotation
  <2> QED
    BY <1>3, <2>1, <2>2, <2>3
<1>7. r.gesture = "rotate" => degrees(r) > 0 /\ (degrees(r) < 4 => degrees(r) = 2)
  <2>1. degrees(r) \in Int
    BY OptionTypes
  <2> QED
    BY <1>2, <2>1 DEF valid, validRotation
<1> QED
  BY <1>2, <1>3, <1>4, <1>6, <1>7 DEF valid, validTouch, validDrag

(* Division of a number that is not negative by one that is positive. *)
LEMMA Quotient ==
    ASSUME NEW a \in Int, NEW b \in Nat, b > 0
    PROVE a \div b \in Int /\ (a >= 0 => a \div b >= 0)
  OBVIOUS

(* The way to go gets less by something, and the clock goes forward. *)
LEMMA RotationAdvances ==
    ASSUME NEW r \in Request, valid(r), r.gesture = "rotate"
    PROVE /\ increment(r) \in Int /\ increment(r) > 0
          /\ degrees(r) >= 4 => increment(r) = 4
          /\ degrees(r) < 4 => degrees(r) = 2 /\ increment(r) = 1
<1>1. degrees(r) \in Int /\ (degrees(r) < 4 => degrees(r) = 2)
  BY OptionTypes, AcceptedPoints
<1> QED
  BY <1>1 DEF increment

LEMMA ClockAdvances ==
    ASSUME NEW r \in Request, count \in Nat, count > 0
    PROVE /\ timeIncrement(r) \in Int
          /\ rotateDuration(r) >= 0 => timeIncrement(r) >= 0
  BY OptionTypes, Quotient DEF timeIncrement

(* What is rounded is a whole number. *)
LEMMA FloatType == ASSUME NEW x \in Int PROVE float(x) \in Int
<1>1. ulp(x) \in {1, 2, 4, 8, 16}
  BY DEF ulp
<1> QED
  BY <1>1 DEF float

LEMMA StartAngleType ==
    ASSUME NEW r \in Request, NEW k \in Nat
    PROVE startAngle(r, k) \in Int
  BY OptionTypes DEF startAngle

LEMMA NextAngleType ==
    ASSUME NEW r \in Request, valid(r), r.gesture = "rotate", NEW angle \in Int
    PROVE nextAngle(r, angle) \in Int
<1>1. angle + increment(r) \in Int /\ angle - increment(r) \in Int
  BY RotationAdvances
<1> QED
  BY <1>1, FloatType DEF nextAngle

-------------------------------------------------------------------------------
(* TouchPath.                                                              *)

LEMMA ShiftType ==
    ASSUME NEW point \in Coordinate, NEW dx \in Int
    PROVE shift(point, dx) \in Coordinate
  BY DEF shift, Coordinate

LEMMA FirstPoint ==
    ASSUME NEW point \in Coordinate, NEW t \in Int
    PROVE /\ withFirstTouchPoint(point, t) \in Seq(Step)
          /\ Len(withFirstTouchPoint(point, t)) = 1
          /\ withFirstTouchPoint(point, t)[1].at = t
          /\ withFirstTouchPoint(point, t) # <<>>
          /\ \A up \in Int : t <= up => inOrder(withFirstTouchPoint(point, t), up)
  BY DEF withFirstTouchPoint, Step, inOrder

LEMMA NextPoint ==
    ASSUME NEW s \in Seq(Step), NEW point \in Coordinate, NEW t \in Int
    PROVE /\ moveToNextPoint(s, point, t) \in Seq(Step)
          /\ moveToNextPoint(s, point, t) # <<>>
          /\ inOrder(s, t) => inOrder(moveToNextPoint(s, point, t), t)
<1> DEFINE m == moveToNextPoint(s, point, t)
           p == [at |-> t, point |-> point]
<1>1. p \in Step /\ m = Append(s, p)
  BY DEF Step, moveToNextPoint
<1>2. /\ m \in Seq(Step) /\ Len(m) = Len(s) + 1 /\ m[Len(m)] = p
      /\ \A i \in 1 .. Len(s) : m[i] = s[i]
  BY <1>1
<1>3. m # <<>>
  BY <1>2
<1>4. ASSUME inOrder(s, t) PROVE inOrder(m, t)
  <2>1. ASSUME NEW i \in 1 .. Len(m) - 1 PROVE m[i].at <= m[i + 1].at
    <3>1. CASE i = Len(s)
      BY <1>2, <1>4, <2>1, <3>1 DEF inOrder
    <3>2. CASE i # Len(s)
      <4>1. i \in 1 .. Len(s) - 1 /\ i \in 1 .. Len(s) /\ i + 1 \in 1 .. Len(s)
        BY <1>2, <2>1, <3>2
      <4>2. m[i] = s[i] /\ m[i + 1] = s[i + 1]
        BY <1>2, <4>1
      <4>3. s[i].at <= s[i + 1].at
        BY <1>4, <4>1 DEF inOrder
      <4> QED
        BY <4>2, <4>3
    <3> QED
      BY <3>1, <3>2
  <2> QED
    BY <1>2, <2>1 DEF inOrder
<1> QED
  BY <1>2, <1>3, <1>4

(* Time that passes before a lift does no harm. *)
LEMMA LaterLift ==
    ASSUME NEW s \in Seq(Step), NEW t \in Int, NEW u \in Int, inOrder(s, t), t <= u
    PROVE inOrder(s, u)
<1>1. CASE s = <<>>
  BY <1>1 DEF inOrder
<1>2. CASE s # <<>>
  <2>1. Len(s) \in 1 .. Len(s) /\ s[Len(s)] \in Step
    BY <1>2
  <2> QED
    BY <1>2, <2>1 DEF inOrder, Step
<1> QED
  BY <1>1, <1>2

LEMMA LiftType ==
    ASSUME NEW k \in Nat, NEW n \in Nat, NEW s \in Seq(Step), NEW up \in Int
    PROVE liftUp(k, n, s, up) \in Path
  BY DEF liftUp, Path

LEMMA TapType ==
    ASSUME NEW k \in Nat, NEW n \in Nat, NEW point \in Coordinate,
           NEW down \in Int, NEW up \in Int
    PROVE /\ tap(k, n, point, down, up) \in Path
          /\ tap(k, n, point, down, up).finger = k
          /\ tap(k, n, point, down, up).turn = n
          /\ tap(k, n, point, down, up).up = up
          /\ tap(k, n, point, down, up).steps[1].at = down
          /\ down <= up => inOrder(tap(k, n, point, down, up).steps, up)
<1>1. /\ withFirstTouchPoint(point, down) \in Seq(Step)
      /\ withFirstTouchPoint(point, down)[1].at = down
      /\ down <= up => inOrder(withFirstTouchPoint(point, down), up)
  BY FirstPoint
<1> QED
  BY <1>1, LiftType DEF tap, liftUp

-------------------------------------------------------------------------------
(* The invariant.                                                          *)

(* Between requests nothing is left of the last one. *)
IdleIsEmpty ==
    pc = "idle" => event = <<>> /\ steps = <<>> /\ count = 0 /\ finger = 0 /\ turn = 0

(* What is built was accepted. *)
BuiltIsValid == request # NoRequest => valid(request)

(* Only drags and rotations have a path in the making. *)
PathIsDrawn ==
    steps # <<>> => request # NoRequest /\ request.gesture \in {"drag", "rotate"}

(* The clock of touches and taps begins at the end of the first of them. *)
FirstTouch ==
    request # NoRequest /\ turn = 0 =>
        /\ request.gesture \in {"touch", "double_tap", "two_finger_tap"}
              => offset = duration(request) + Margin
        /\ request.gesture = "touch" => event = <<>>

(* Only a touch, a drag and a rotation count turns. *)
TapsCountNothing ==
    request # NoRequest /\ request.gesture \in {"double_tap", "two_finger_tap"} => turn = 0

(* A touch's clock is a pause ahead of all that was touched. *)
TouchIsAhead ==
    request # NoRequest /\ request.gesture = "touch" =>
        \A i \in 1 .. Len(event) : event[i].turn < turn /\ event[i].up + Pause <= offset

(* The other gestures, but double_tap, use each finger once. *)
FingersTouchOnce ==
    request # NoRequest /\ request.gesture \in {"two_finger_tap", "drag", "pinch", "rotate"} =>
        \A i \in 1 .. Len(event) : event[i].turn = 0

Clock ==
    /\ IdleIsEmpty /\ BuiltIsValid /\ PathIsDrawn
    /\ FirstTouch /\ TapsCountNothing /\ TouchIsAhead /\ FingersTouchOnce

IInv == TypeOK /\ Clock /\ WellTimed /\ TapsAreApart

LEMMA InitIInv == Init => IInv
<1> SUFFICES ASSUME Init PROVE IInv
  OBVIOUS
<1> USE DEF Init
<1>1. TypeOK
  BY GestureAssumption DEF GestureAssumption, TypeOK
<1>2. Clock
  BY DEF Clock, IdleIsEmpty, BuiltIsValid, PathIsDrawn, FirstTouch, TapsCountNothing, TouchIsAhead, FingersTouchOnce
<1>3. WellTimed
  BY DEF WellTimed
<1>4. TapsAreApart
  BY DEF TapsAreApart
<1> QED
  BY <1>1, <1>2, <1>3, <1>4 DEF IInv

(* What every step of the building knows. *)
LEMMA Building ==
    ASSUME IInv, pc = "build" \/ pc = "send"
    PROVE /\ request \in Request /\ request # NoRequest /\ valid(request)
          /\ duration(request) \in Int
          /\ finger \in Nat /\ turn \in Nat /\ offset \in Int
          /\ event \in Seq(Path) /\ steps \in Seq(Step)
          /\ left \in Int /\ count \in Nat /\ count <= MaxPoints /\ MaxPoints \in Nat
<1>1. request \in Request /\ request # NoRequest
  BY DEF IInv, TypeOK
<1>2. MaxPoints \in Nat
  BY GestureAssumption DEF GestureAssumption
<1> QED
  BY <1>1, <1>2, OptionTypes DEF IInv, TypeOK, Clock, BuiltIsValid

LEMMA receiveKeepsIInv == ASSUME IInv, NEW r \in Request, receive(r) PROVE IInv'
<1>1. CASE ~valid(r)
  BY <1>1 DEF receive, building, IInv, TypeOK, Clock, IdleIsEmpty, BuiltIsValid, PathIsDrawn,
     FirstTouch, TapsCountNothing, TouchIsAhead, FingersTouchOnce, WellTimed, TapsAreApart
<1>2. CASE valid(r)
  <2>1. /\ pc = "idle" /\ request' = r /\ pc' = "build" /\ reply' = "none"
        /\ UNCHANGED <<event, steps, count, finger, turn>>
        /\ left' = IF r.gesture = "rotate" THEN degrees(r) ELSE 0
        /\ offset' = IF r.gesture \in {"touch", "double_tap", "two_finger_tap"}
                       THEN duration(r) + Margin ELSE 0
    BY <1>2 DEF receive
  <2>2. event = <<>> /\ steps = <<>> /\ turn = 0
    BY <2>1 DEF IInv, Clock, IdleIsEmpty
  <2>3. r # NoRequest
    BY GestureAssumption DEF GestureAssumption
  <2>4. TypeOK'
    <3>1. duration(r) \in Int
      BY OptionTypes
    <3>2. offset' \in Int
      BY <2>1, <3>1 DEF Margin
    <3>3. left' \in Int
      BY <2>1, OptionTypes
    <3> QED
      BY <2>1, <2>3, <3>2, <3>3 DEF IInv, TypeOK
  <2>5. Clock'
    BY <1>2, <2>1, <2>2, <2>3 DEF Clock, IdleIsEmpty, BuiltIsValid, PathIsDrawn, FirstTouch,
       TapsCountNothing, TouchIsAhead, FingersTouchOnce
  <2>6. WellTimed'
    BY <2>1, <2>2 DEF WellTimed, inOrder
  <2>7. TapsAreApart'
    BY <2>1, <2>2 DEF TapsAreApart
  <2> QED
    BY <2>4, <2>5, <2>6, <2>7 DEF IInv
<1> QED
  BY <1>1, <1>2

(* A step that builds nothing. *)
LEMMA waitingKeepsIInv == ASSUME IInv, killed \/ send PROVE IInv'
<1>1. /\ pc' \in {"killed", "send"} /\ UNCHANGED <<request, event, steps, finger, turn, offset, reply, circle>>
      /\ pc = "build"
  BY DEF killed, send, building, begins
<1>2. request # NoRequest
  BY <1>1, Building
<1> QED
  BY <1>1, <1>2 DEF IInv, TypeOK, Clock, IdleIsEmpty, BuiltIsValid, PathIsDrawn,
     FirstTouch, TapsCountNothing, TouchIsAhead, FingersTouchOnce, WellTimed, TapsAreApart

LEMMA synthesizeKeepsIInv == ASSUME IInv, synthesize PROVE IInv'
<1>1. /\ reply' \in {"success", "error"} /\ request' = NoRequest /\ pc' = "idle" /\ event' = <<>>
      /\ steps' = <<>> /\ left' = 0 /\ count' = 0 /\ finger' = 0 /\ turn' = 0 /\ offset' = 0
  BY DEF synthesize
<1>2. TypeOK'
  BY <1>1, GestureAssumption DEF TypeOK, GestureAssumption
<1>3. Clock'
  BY <1>1 DEF Clock, IdleIsEmpty, BuiltIsValid, PathIsDrawn, FirstTouch, TapsCountNothing, TouchIsAhead, FingersTouchOnce
<1>4. WellTimed'
  BY <1>1 DEF WellTimed
<1>5. TapsAreApart'
  BY <1>1 DEF TapsAreApart
<1> QED
  BY <1>2, <1>3, <1>4, <1>5 DEF IInv

-------------------------------------------------------------------------------
(* Drags and rotations draw a path point by point.                         *)

(* A path that is begun or continued in order keeps the invariant. *)
LEMMA DrawingKeepsIInv ==
    ASSUME IInv, pc = "build", request.gesture \in {"drag", "rotate"},
           UNCHANGED <<request, pc, event, finger, reply, circle>>,
           steps' \in Seq(Step), offset' \in Int, turn' \in Nat,
           Forward(request) => inOrder(steps', offset')
    PROVE IInv'
<1>1. request # NoRequest
  BY Building
<1>2. TypeOK'
  BY DEF IInv, TypeOK
<1>3. Clock'
  BY <1>1 DEF IInv, Clock, IdleIsEmpty, BuiltIsValid, PathIsDrawn, FirstTouch, TapsCountNothing, TouchIsAhead,
     FingersTouchOnce
<1>4. WellTimed'
  BY <1>1 DEF IInv, WellTimed
<1>5. TapsAreApart'
  BY DEF IInv, TapsAreApart
<1> QED
  BY <1>2, <1>3, <1>4, <1>5 DEF IInv

(* What appending a path to an event does. *)
LEMMA AppendedPath ==
    ASSUME NEW e \in Seq(Path), NEW p \in Path
    PROVE /\ Append(e, p) \in Seq(Path)
          /\ Append(e, p) # <<>>
          /\ Len(Append(e, p)) = Len(e) + 1 /\ Len(e) \in Nat
          /\ \A i \in 1 .. Len(e) : Append(e, p)[i] = e[i]
          /\ Append(e, p)[Len(e) + 1] = p
  OBVIOUS

(* A path that is lifted in order keeps the invariant. *)
LEMMA LiftingKeepsIInv ==
    ASSUME IInv, pc = "build", request.gesture \in {"drag", "rotate"},
           addTouchPath(offset), UNCHANGED <<request, pc, offset, reply, circle>>
    PROVE IInv'
<1> DEFINE p == liftUp(finger, 0, steps, offset)
<1>1. /\ request # NoRequest /\ finger \in Nat /\ offset \in Int
      /\ event \in Seq(Path) /\ steps \in Seq(Step)
  BY Building
<1>2. /\ p \in Path /\ p.turn = 0 /\ p.steps = steps /\ p.up = offset
  BY <1>1, LiftType DEF liftUp
<1>3. event' = Append(event, p) /\ steps' = <<>> /\ finger' = finger + 1 /\ turn' = 0
  BY DEF addTouchPath
<1>4. /\ event' \in Seq(Path) /\ Len(event') = Len(event) + 1 /\ Len(event) \in Nat
      /\ \A i \in 1 .. Len(event) : event'[i] = event[i]
      /\ event'[Len(event) + 1] = p
  BY <1>1, <1>2, <1>3, AppendedPath
<1>5. TypeOK'
  BY <1>1, <1>3, <1>4 DEF IInv, TypeOK
<1>6. \A i \in 1 .. Len(event') : event'[i].turn = 0
  BY <1>1, <1>2, <1>4 DEF IInv, Clock, FingersTouchOnce
<1>7. Clock'
  BY <1>1, <1>3, <1>6 DEF IInv, Clock, IdleIsEmpty, BuiltIsValid, PathIsDrawn, FirstTouch,
     TapsCountNothing, TouchIsAhead, FingersTouchOnce
<1>8. WellTimed'
  <2> SUFFICES ASSUME Forward(request), NEW i \in 1 .. Len(event')
               PROVE inOrder(event'[i].steps, event'[i].up)
    BY <1>1, <1>3 DEF WellTimed, inOrder
  <2>1. CASE i = Len(event) + 1
    BY <1>1, <1>2, <1>4, <2>1 DEF IInv, WellTimed
  <2>2. CASE i # Len(event) + 1
    BY <1>1, <1>4, <2>2 DEF IInv, WellTimed
  <2> QED
    BY <2>1, <2>2
<1>9. TapsAreApart'
  BY <1>6 DEF TapsAreApart
<1> QED
  BY <1>5, <1>7, <1>8, <1>9 DEF IInv

LEMMA FingerOffsetType ==
    ASSUME NEW index \in Nat
    PROVE fingerOffsetForFingerIndex(index) \in Int
<1>1. index % 5 \in 0 .. 4
  OBVIOUS
<1>2. << 0, 1, -1, 2, -2 >>[(index % 5) + 1] \in {0, 1, -1, 2, -2}
  BY <1>1
<1> QED
  BY <1>2 DEF fingerOffsetForFingerIndex, FingerWidth

LEMMA HaltPointType ==
    ASSUME NEW point \in Coordinate, NEW previous \in Coordinate
    PROVE haltPoint(point, previous) \in Coordinate
  BY DEF haltPoint, beyond, Coordinate, HaltDistance

LEMMA beginDragKeepsIInv == ASSUME IInv, beginDrag PROVE IInv'
<1> DEFINE point == shift(request.points[1], fingerOffsetForFingerIndex(finger))
<1>1. /\ pc = "build" /\ request.gesture = "drag"
      /\ steps' = withFirstTouchPoint(point, 0) /\ offset' = 0
      /\ UNCHANGED <<request, pc, event, finger, turn, reply, circle>>
  BY DEF beginDrag, begins
<1>2. request \in Request /\ valid(request) /\ finger \in Nat /\ turn \in Nat
  BY <1>1, Building
<1>3. request.points[1] \in Coordinate
  BY <1>2, AcceptedPoints
<1>4. point \in Coordinate
  BY <1>2, <1>3, FingerOffsetType, ShiftType
<1>5. steps' \in Seq(Step) /\ inOrder(steps', offset')
  BY <1>1, <1>4, FirstPoint
<1>6. turn' \in Nat /\ offset' \in Int
  BY <1>1, <1>2
<1> HIDE DEF point
<1> QED
  BY <1>1, <1>5, <1>6, DrawingKeepsIInv

LEMMA dragToCoordinateKeepsIInv == ASSUME IInv, dragToCoordinate PROVE IInv'
<1> DEFINE points == request.points
           hold == dragFirstTouchHoldDuration(request)
           dx == fingerOffsetForFingerIndex(finger)
           point == points[turn + 1]
           held == offset + duration(request) + (IF turn = 0 THEN hold ELSE 0)
           halt == shift(haltPoint(point, points[turn]), dx)
<1>1. /\ pc = "build" /\ request.gesture = "drag" /\ turn < Len(points) /\ turn' = turn + 1
      /\ UNCHANGED <<request, pc, event, finger, reply, circle>>
  BY DEF dragToCoordinate, begins
<1>2. \/ turn = 0 /\ hold <= 0 /\ UNCHANGED <<steps, offset>>
      \/ /\ turn > 0 \/ hold > 0
         /\ steps' = moveToNextPoint(steps, shift(point, dx), held)
         /\ offset' = held
      \/ /\ turn + 1 = Len(points)
         /\ steps' = moveToNextPoint(moveToNextPoint(steps, halt, held), shift(point, dx),
                                     held + HaltTime)
         /\ offset' = held + HaltTime
  BY DEF dragToCoordinate
<1>3. /\ request \in Request /\ request # NoRequest /\ valid(request) /\ duration(request) \in Int
      /\ finger \in Nat /\ turn \in Nat /\ offset \in Int /\ steps \in Seq(Step)
  BY <1>1, Building
<1>4. /\ Len(points) \in Nat /\ Len(points) >= 2
      /\ \A i \in 1 .. Len(points) : points[i] \in Coordinate
      /\ hold \in Int
  BY <1>1, <1>3, AcceptedPoints, OptionTypes
<1>5. dx \in Int /\ point \in Coordinate /\ shift(point, dx) \in Coordinate
  <2>1. dx \in Int
    BY <1>3, FingerOffsetType
  <2>2. point \in Coordinate
    BY <1>1, <1>3, <1>4
  <2> QED
    BY <2>1, <2>2, ShiftType
<1>6. turn' \in Nat
  BY <1>1, <1>3
<1>7. ASSUME Forward(request) PROVE inOrder(steps, offset) /\ duration(request) >= 0
  BY <1>1, <1>3, <1>7 DEF IInv, WellTimed, Forward
<1>8. held \in Int
  BY <1>3, <1>4
<1>9. CASE UNCHANGED <<steps, offset>>
  BY <1>1, <1>3, <1>6, <1>7, <1>9, DrawingKeepsIInv
<1>10. CASE /\ turn > 0 \/ hold > 0
            /\ steps' = moveToNextPoint(steps, shift(point, dx), held)
            /\ offset' = held
  <2>1. steps' \in Seq(Step)
    BY <1>3, <1>5, <1>8, <1>10, NextPoint
  <2>2. ASSUME Forward(request) PROVE inOrder(steps', offset')
    <3>1. offset <= held
      BY <1>3, <1>4, <1>7, <1>10, <2>2
    <3>2. inOrder(steps, held)
      BY <1>3, <1>7, <1>8, <2>2, <3>1, LaterLift
    <3> HIDE DEF held, point, dx
    <3> QED
      BY <1>3, <1>5, <1>8, <1>10, <3>2, NextPoint
  <2> HIDE DEF held, point, dx
  <2> QED
    BY <1>1, <1>6, <1>8, <1>10, <2>1, <2>2, DrawingKeepsIInv
<1>11. CASE /\ turn + 1 = Len(points)
            /\ steps' = moveToNextPoint(moveToNextPoint(steps, halt, held), shift(point, dx),
                                        held + HaltTime)
            /\ offset' = held + HaltTime
  <2>1. halt \in Coordinate
    <3>1. points[turn] \in Coordinate
      BY <1>3, <1>4, <1>11
    <3>2. haltPoint(point, points[turn]) \in Coordinate
      BY <1>5, <3>1, HaltPointType
    <3> QED
      BY <1>5, <3>2, ShiftType
  <2> DEFINE half == moveToNextPoint(steps, halt, held)
  <2>2. held + HaltTime \in Int /\ held <= held + HaltTime
    BY <1>8 DEF HaltTime
  <2>3. half \in Seq(Step)
    BY <1>3, <1>8, <2>1, NextPoint
  <2>4. offset' \in Int /\ steps' = moveToNextPoint(half, shift(point, dx), offset')
    BY <1>11, <2>2
  <2>5. steps' \in Seq(Step)
    BY <1>5, <2>3, <2>4, NextPoint
  <2>6. ASSUME Forward(request) PROVE inOrder(steps', offset')
    <3>1. offset <= held
      BY <1>3, <1>4, <1>7, <1>11, <2>6
    <3>2. inOrder(steps, held)
      BY <1>3, <1>7, <1>8, <2>6, <3>1, LaterLift
    <3>3. inOrder(half, held)
      BY <1>3, <1>8, <2>1, <3>2, NextPoint
    <3>4. inOrder(half, offset')
      BY <1>8, <1>11, <2>2, <2>3, <2>4, <3>3, LaterLift
    <3> QED
      BY <1>5, <2>3, <2>4, <3>4, NextPoint
  <2> HIDE DEF half
  <2> QED
    BY <1>1, <1>6, <2>4, <2>5, <2>6, DrawingKeepsIInv
<1> QED
  BY <1>2, <1>9, <1>10, <1>11

LEMMA liftKeepsIInv == ASSUME IInv, liftDrag \/ liftRotation PROVE IInv'
<1>1. /\ pc = "build" /\ request.gesture \in {"drag", "rotate"}
      /\ addTouchPath(offset) /\ UNCHANGED <<request, pc, offset, reply, circle>>
  BY DEF liftDrag, liftRotation, begins
<1> QED
  BY <1>1, LiftingKeepsIInv

(* The degrees are counted down before anything is drawn. *)
LEMMA countDownKeepsIInv == ASSUME IInv, countDown PROVE IInv'
<1>1. /\ pc = "build" /\ request.gesture = "rotate" /\ count < MaxPoints
      /\ count' = count + 1 /\ left' = float(left - increment(request))
      /\ UNCHANGED <<request, pc, event, steps, finger, turn, offset, reply>>
  BY DEF countDown, begins
<1>2. /\ request \in Request /\ request # NoRequest /\ valid(request)
      /\ left \in Int /\ count \in Nat /\ MaxPoints \in Nat
  BY <1>1, Building
<1>3. left' \in Int
  <2>1. left - increment(request) \in Int
    BY <1>1, <1>2, RotationAdvances
  <2> QED
    BY <1>1, <2>1, FloatType
<1>4. TypeOK'
  BY <1>1, <1>2, <1>3 DEF IInv, TypeOK
<1>5. Clock' /\ WellTimed' /\ TapsAreApart'
  BY <1>1 DEF IInv, Clock, IdleIsEmpty, BuiltIsValid, PathIsDrawn, FirstTouch, TapsCountNothing,
     TouchIsAhead, FingersTouchOnce, WellTimed, TapsAreApart
<1> QED
  BY <1>4, <1>5 DEF IInv

LEMMA beginRotationKeepsIInv == ASSUME IInv, beginRotation PROVE IInv'
<1> DEFINE point == <<startAngle(request, finger), radius(request)>>
<1>1. /\ pc = "build" /\ request.gesture = "rotate"
      /\ steps' = withFirstTouchPoint(point, 0) /\ offset' = 0
      /\ turn' = 1 /\ UNCHANGED <<request, pc, event, finger, reply, circle>>
  BY DEF beginRotation, begins
<1>2. point \in Coordinate
  BY <1>1, Building, StartAngleType, OptionTypes DEF Coordinate
<1>3. steps' \in Seq(Step) /\ inOrder(steps', offset')
  BY <1>1, <1>2, FirstPoint
<1> QED
  BY <1>1, <1>3, DrawingKeepsIInv

(* The point that comes after those that are drawn. *)
nextPoint == <<nextAngle(request, steps[Len(steps)].point[1]), radius(request)>>

LEMMA NextPointType == ASSUME IInv, rotate PROVE nextPoint \in Coordinate
<1>1. pc = "build" /\ request.gesture = "rotate" /\ steps # <<>>
  BY DEF rotate, begins
<1>2. request \in Request /\ valid(request) /\ steps \in Seq(Step)
  BY <1>1, Building
<1>3. steps[Len(steps)] \in Step
  BY <1>1, <1>2
<1>4. steps[Len(steps)].point[1] \in Int
  BY <1>3 DEF Step, Coordinate
<1> QED
  BY <1>1, <1>2, <1>4, NextAngleType, OptionTypes DEF nextPoint, Coordinate

LEMMA rotateKeepsIInv == ASSUME IInv, rotate PROVE IInv'
<1>1. /\ pc = "build" /\ request.gesture = "rotate" /\ turn < count /\ turn' = turn + 1
      /\ offset' = offset + timeIncrement(request)
      /\ steps' = moveToNextPoint(steps, nextPoint, offset')
      /\ UNCHANGED <<request, pc, event, finger, reply, circle>>
  BY DEF rotate, begins, nextPoint
<1>2. /\ request \in Request /\ request # NoRequest /\ valid(request)
      /\ finger \in Nat /\ turn \in Nat /\ offset \in Int /\ steps \in Seq(Step)
      /\ count \in Nat /\ count > 0
  BY <1>1, Building
<1>3. /\ timeIncrement(request) \in Int
      /\ rotateDuration(request) >= 0 => timeIncrement(request) >= 0
      /\ nextPoint \in Coordinate
  BY <1>1, <1>2, ClockAdvances, NextPointType
<1>4. offset' \in Int /\ turn' \in Nat
  BY <1>1, <1>2, <1>3
<1>5. steps' \in Seq(Step)
  BY <1>1, <1>2, <1>3, <1>4, NextPoint
<1>6. ASSUME Forward(request) PROVE inOrder(steps', offset')
  <2>1. inOrder(steps, offset) /\ offset <= offset'
    BY <1>1, <1>2, <1>3, <1>6 DEF IInv, WellTimed, Forward
  <2>2. inOrder(steps, offset')
    BY <1>2, <1>4, <2>1, LaterLift
  <2> QED
    BY <1>1, <1>2, <1>3, <1>4, <2>2, NextPoint
<1> QED
  BY <1>1, <1>4, <1>5, <1>6, DrawingKeepsIInv

-------------------------------------------------------------------------------
(* Pinches and taps.                                                       *)

LEMMA pinchKeepsIInv == ASSUME IInv, pinch PROVE IInv'
<1> DEFINE center == request.points[1]
           end == shift(center, IF finger = 0 THEN -pinchAmount(request) ELSE pinchAmount(request))
           first == IF pinchDirection(request) = "in" THEN center ELSE end
           last == IF pinchDirection(request) = "in" THEN end ELSE center
           path == moveToNextPoint(withFirstTouchPoint(first, 0), last, duration(request))
           p == liftUp(finger, 0, path, duration(request) + Epsilon)
<1>1. /\ pc = "build" /\ request.gesture = "pinch" /\ event' = Append(event, p)
      /\ finger' = finger + 1 /\ UNCHANGED <<request, pc, steps, turn, offset, reply, circle>>
  BY DEF pinch, begins
<1>2. /\ request \in Request /\ request # NoRequest /\ valid(request) /\ duration(request) \in Int
      /\ finger \in Nat /\ event \in Seq(Path) /\ steps = <<>>
  BY <1>1, Building DEF IInv, Clock, PathIsDrawn
<1>3. center \in Coordinate /\ end \in Coordinate
  <2>1. center \in Coordinate
    BY <1>2, AcceptedPoints
  <2>2. pinchAmount(request) \in Int
    BY <1>2, OptionTypes
  <2> QED
    BY <2>1, <2>2, ShiftType
<1>4. first \in Coordinate /\ last \in Coordinate
  BY <1>3
<1> HIDE DEF first, last
<1>5. /\ path \in Seq(Step)
      /\ duration(request) >= 0 => inOrder(path, duration(request))
  <2> DEFINE half == withFirstTouchPoint(first, 0)
  <2>1. half \in Seq(Step) /\ (duration(request) >= 0 => inOrder(half, duration(request)))
    BY <1>2, <1>4, FirstPoint
  <2>2. path = moveToNextPoint(half, last, duration(request))
    OBVIOUS
  <2> HIDE DEF half, path
  <2> QED
    BY <1>2, <1>4, <2>1, <2>2, NextPoint
<1>6. /\ duration(request) + Epsilon \in Int
      /\ duration(request) >= 0 => inOrder(path, duration(request) + Epsilon)
  BY <1>2, <1>5, LaterLift DEF Epsilon
<1> HIDE DEF path
<1>7. p \in Path /\ p.turn = 0 /\ p.steps = path /\ p.up = duration(request) + Epsilon
  BY <1>2, <1>5, <1>6, LiftType DEF liftUp
<1> HIDE DEF p
<1>8. /\ event' \in Seq(Path) /\ Len(event') = Len(event) + 1 /\ Len(event) \in Nat
      /\ \A i \in 1 .. Len(event) : event'[i] = event[i]
      /\ event'[Len(event) + 1] = p
  BY <1>1, <1>2, <1>7, AppendedPath
<1>9. TypeOK'
  BY <1>1, <1>2, <1>8 DEF IInv, TypeOK
<1>10. \A i \in 1 .. Len(event') : event'[i].turn = 0
  BY <1>1, <1>2, <1>7, <1>8 DEF IInv, Clock, FingersTouchOnce
<1>11. Clock'
  BY <1>1, <1>2, <1>10 DEF IInv, Clock, IdleIsEmpty, BuiltIsValid, PathIsDrawn, FirstTouch,
     TapsCountNothing, TouchIsAhead, FingersTouchOnce
<1>12. WellTimed'
  <2>3. request' = request /\ steps' = <<>>
    BY <1>1, <1>2
  <2> SUFFICES ASSUME Forward(request), NEW i \in 1 .. Len(event')
               PROVE inOrder(event'[i].steps, event'[i].up)
    BY <2>3 DEF WellTimed, inOrder
  <2>1. CASE i = Len(event) + 1
    BY <1>1, <1>6, <1>7, <1>8, <2>1 DEF Forward
  <2>2. CASE i # Len(event) + 1
    BY <1>2, <1>8, <2>2 DEF IInv, WellTimed
  <2> QED
    BY <2>1, <2>2
<1>13. TapsAreApart'
  BY <1>10 DEF TapsAreApart
<1> QED
  BY <1>9, <1>11, <1>12, <1>13 DEF IInv

LEMMA doubleTapKeepsIInv == ASSUME IInv, doubleTap PROVE IInv'
<1> DEFINE point == request.points[1]
           second == offset + Pause
           p == tap(1, 0, point, 0, offset)
           q == tap(1, 1, point, second, second + Pause)
<1>1. /\ pc = "build" /\ request.gesture = "double_tap" /\ event = <<>> /\ event' = <<p, q>>
      /\ UNCHANGED <<request, pc, steps, finger, turn, offset, reply, circle>>
  BY DEF doubleTap, begins
<1>2. /\ request \in Request /\ request # NoRequest /\ valid(request) /\ duration(request) \in Int
      /\ offset \in Int /\ point \in Coordinate /\ steps = <<>>
  BY <1>1, Building, AcceptedPoints DEF IInv, Clock, PathIsDrawn
<1>3. second \in Int /\ second + Pause \in Int /\ second <= second + Pause
  BY <1>2 DEF Pause
<1>4. /\ p \in Path /\ p.finger = 1 /\ p.turn = 0 /\ p.up = offset
      /\ 0 <= offset => inOrder(p.steps, p.up)
  BY <1>2, TapType
<1>5. /\ q \in Path /\ q.finger = 1 /\ q.turn = 1 /\ q.up = second + Pause
      /\ q.steps[1].at = second /\ inOrder(q.steps, q.up)
  BY <1>2, <1>3, TapType
<1> HIDE DEF p, q
<1>6. /\ event' \in Seq(Path) /\ Len(event') = 2 /\ event'[1] = p /\ event'[2] = q
  BY <1>1, <1>4, <1>5
<1>7. TypeOK'
  BY <1>1, <1>6 DEF IInv, TypeOK
<1>8. Clock'
  BY <1>1, <1>2 DEF IInv, Clock, IdleIsEmpty, BuiltIsValid, PathIsDrawn, FirstTouch,
     TapsCountNothing, TouchIsAhead, FingersTouchOnce
<1>9. WellTimed'
  <2>1. ASSUME Forward(request) PROVE 0 <= offset
    <3>1. turn = 0 => offset = duration(request) + Margin
      BY <1>1, <1>2 DEF IInv, Clock, FirstTouch
    <3>2. turn = 0
      BY <1>1, <1>2 DEF IInv, Clock, TapsCountNothing
    <3> QED
      BY <1>1, <1>2, <2>1, <3>1, <3>2 DEF Forward, Margin
  <2> SUFFICES ASSUME Forward(request), NEW i \in 1 .. 2
               PROVE inOrder(event'[i].steps, event'[i].up)
    BY <1>1, <1>2, <1>6 DEF WellTimed, inOrder
  <2>2. CASE i = 1
    BY <1>4, <1>6, <2>1, <2>2
  <2>3. CASE i = 2
    BY <1>5, <1>6, <2>3
  <2> QED
    BY <2>2, <2>3
<1>10. TapsAreApart'
  <2> SUFFICES ASSUME NEW i \in 1 .. 2, NEW j \in 1 .. 2, event'[i].turn < event'[j].turn
               PROVE event'[i].up + Pause <= event'[j].steps[1].at
    BY <1>6 DEF TapsAreApart
  <2>1. i = 1 /\ j = 2
    BY <1>4, <1>5, <1>6
  <2>2. event'[1].up = offset /\ event'[2].steps[1].at = offset + Pause
    BY <1>4, <1>5, <1>6
  <2>3. offset + Pause <= offset + Pause
    BY <1>2 DEF Pause
  <2> QED
    BY <2>1, <2>2, <2>3
<1> QED
  BY <1>7, <1>8, <1>9, <1>10 DEF IInv

LEMMA twoFingerTapKeepsIInv == ASSUME IInv, twoFingerTap PROVE IInv'
<1> DEFINE point == request.points[1]
           x == FingerWidth \div 2
           up == offset + Pause
           p == tap(1, 0, shift(point, x), 0, up)
           q == tap(2, 0, shift(point, -x), 0, up)
<1>1. /\ pc = "build" /\ request.gesture = "two_finger_tap" /\ event = <<>> /\ event' = <<p, q>>
      /\ UNCHANGED <<request, pc, steps, finger, turn, offset, reply, circle>>
  BY DEF twoFingerTap, begins
<1>2. /\ request \in Request /\ request # NoRequest /\ valid(request) /\ duration(request) \in Int
      /\ offset \in Int /\ point \in Coordinate /\ steps = <<>>
  BY <1>1, Building, AcceptedPoints DEF IInv, Clock, PathIsDrawn
<1>3. up \in Int /\ x \in Int /\ -x \in Int
  BY <1>2 DEF Pause, FingerWidth
<1>4. shift(point, x) \in Coordinate /\ shift(point, -x) \in Coordinate
  BY <1>2, <1>3, ShiftType
<1> HIDE DEF point, x
<1>5. /\ p \in Path /\ p.turn = 0 /\ p.up = up /\ (0 <= up => inOrder(p.steps, p.up))
      /\ q \in Path /\ q.turn = 0 /\ q.up = up /\ (0 <= up => inOrder(q.steps, q.up))
  <2> HIDE DEF up
  <2> QED
    BY <1>3, <1>4, TapType
<1> HIDE DEF p, q
<1>6. /\ event' \in Seq(Path) /\ Len(event') = 2 /\ event'[1] = p /\ event'[2] = q
  BY <1>1, <1>5
<1>7. TypeOK'
  BY <1>1, <1>6 DEF IInv, TypeOK
<1>8. \A i \in 1 .. Len(event') : event'[i].turn = 0
  BY <1>5, <1>6
<1>9. Clock'
  BY <1>1, <1>2, <1>8 DEF IInv, Clock, IdleIsEmpty, BuiltIsValid, PathIsDrawn, FirstTouch,
     TapsCountNothing, TouchIsAhead, FingersTouchOnce
<1>10. WellTimed'
  <2>1. ASSUME Forward(request) PROVE 0 <= up
    <3>1. turn = 0 /\ offset = duration(request) + Margin
      BY <1>1, <1>2 DEF IInv, Clock, TapsCountNothing, FirstTouch
    <3> QED
      BY <1>1, <1>2, <2>1, <3>1 DEF Forward, Margin, Pause
  <2> SUFFICES ASSUME Forward(request), NEW i \in 1 .. 2
               PROVE inOrder(event'[i].steps, event'[i].up)
    BY <1>1, <1>2, <1>6 DEF WellTimed, inOrder
  <2>2. CASE i = 1
    BY <1>5, <1>6, <2>1, <2>2
  <2>3. CASE i = 2
    BY <1>5, <1>6, <2>1, <2>3
  <2> QED
    BY <2>2, <2>3
<1>11. TapsAreApart'
  BY <1>8 DEF TapsAreApart
<1> QED
  BY <1>7, <1>9, <1>10, <1>11 DEF IInv

-------------------------------------------------------------------------------
(* Repeated touches.                                                       *)

LEMMA FingerCoordinatesType ==
    ASSUME NEW point \in Coordinate, NEW fingers \in Nat, NEW k \in 1 .. fingers
    PROVE fingerCoordinates(point, fingers)[k] \in Coordinate
<1>1. (FingerWidth \div 2) * (2 * k - fingers - 1) \in Int
  BY DEF FingerWidth
<1> QED
  BY <1>1, ShiftType DEF fingerCoordinates

(* What adding the paths of a turn to an event does. *)
LEMMA JoinedPaths ==
    ASSUME NEW e \in Seq(Path), NEW n \in Nat, NEW f \in [1 .. n -> Path]
    PROVE /\ e \o f \in Seq(Path)
          /\ Len(e \o f) = Len(e) + n /\ Len(e) \in Nat
          /\ \A i \in 1 .. Len(e) : (e \o f)[i] = e[i]
          /\ \A i \in Len(e) + 1 .. Len(e) + n :
                i - Len(e) \in 1 .. n /\ (e \o f)[i] = f[i - Len(e)]
<1>1. f \in Seq(Path) /\ Len(f) = n
  OBVIOUS
<1> QED
  BY <1>1

LEMMA touchKeepsIInv == ASSUME IInv, touch PROVE IInv'
<1> DEFINE n == numFingers(request)
           at == fingerCoordinates(request.points[1], n)
           down == IF turn = 0 THEN 0 ELSE offset
           up == IF turn = 0 THEN offset ELSE offset + Pause
           taps == [k \in 1 .. n |-> tap(k, turn, at[k], down, up)]
<1>1. /\ pc = "build" /\ request.gesture = "touch"
      /\ event' = event \o taps
      /\ offset' = up + Pause + duration(request) + Margin
      /\ turn' = turn + 1
      /\ UNCHANGED <<request, pc, steps, finger, reply, circle>>
  BY DEF touch, begins
<1>2. /\ request \in Request /\ request # NoRequest /\ valid(request) /\ duration(request) \in Int
      /\ offset \in Int /\ turn \in Nat /\ event \in Seq(Path) /\ steps = <<>>
  BY <1>1, Building DEF IInv, Clock, PathIsDrawn
<1>3. n \in 1 .. 4 /\ duration(request) >= 100 /\ request.points[1] \in Coordinate
  BY <1>1, <1>2, AcceptedPoints
<1>4. down \in Int /\ up \in Int /\ down <= up /\ up + Pause <= offset' /\ offset <= offset'
  <2>1. turn = 0 => offset = duration(request) + Margin
    BY <1>1, <1>2 DEF IInv, Clock, FirstTouch
  <2> QED
    BY SMTT(60), <1>1, <1>2, <1>3, <2>1 DEF Pause, Margin
<1>5. /\ turn = 0 => event = <<>>
      /\ \A i \in 1 .. Len(event) : event[i].turn < turn /\ event[i].up + Pause <= down
  BY <1>1, <1>2 DEF IInv, Clock, FirstTouch, TouchIsAhead
<1> HIDE DEF down, up
<1>6. ASSUME NEW k \in 1 .. n
      PROVE /\ taps[k] \in Path /\ taps[k].turn = turn /\ taps[k].up = up
            /\ taps[k].steps[1].at = down /\ inOrder(taps[k].steps, taps[k].up)
  <2>1. k \in Nat /\ at[k] \in Coordinate
    BY <1>3, FingerCoordinatesType
  <2> HIDE DEF at
  <2>2. taps[k] = tap(k, turn, at[k], down, up)
    OBVIOUS
  <2> HIDE DEF taps
  <2> QED
    BY <1>2, <1>4, <2>1, <2>2, TapType
<1>7. taps \in [1 .. n -> Path]
  BY <1>6
<1> HIDE DEF taps, n
<1>8. /\ event' \in Seq(Path) /\ Len(event') = Len(event) + n /\ Len(event) \in Nat
      /\ \A i \in 1 .. Len(event) : event'[i] = event[i]
      /\ \A i \in Len(event) + 1 .. Len(event) + n :
            i - Len(event) \in 1 .. n /\ event'[i] = taps[i - Len(event)]
  <2>1. n \in Nat
    BY <1>3
  <2> QED
    BY <1>1, <1>2, <1>7, <2>1, JoinedPaths
<1>9. ASSUME NEW i \in 1 .. Len(event')
      PROVE \/ i \in 1 .. Len(event) /\ event'[i] = event[i]
            \/ i - Len(event) \in 1 .. n /\ event'[i] = taps[i - Len(event)]
  BY <1>3, <1>8
<1>10. TypeOK'
  BY <1>1, <1>2, <1>3, <1>4, <1>8 DEF IInv, TypeOK, Pause, Margin
<1>11. \A i \in 1 .. Len(event') : event'[i].turn < turn' /\ event'[i].up + Pause <= offset'
  <2> SUFFICES ASSUME NEW i \in 1 .. Len(event')
               PROVE event'[i].turn < turn' /\ event'[i].up + Pause <= offset'
    OBVIOUS
  <2>1. CASE i \in 1 .. Len(event) /\ event'[i] = event[i]
    <3>1. event[i] \in Path
      BY <1>2, <2>1
    <3>2. /\ event[i].turn < turn /\ event[i].up + Pause <= offset
          /\ event[i].turn \in Int /\ event[i].up \in Int
      BY SMTT(60), <1>1, <1>2, <2>1, <3>1 DEF IInv, Clock, TouchIsAhead, Path
    <3>3. offset' \in Int
      BY <1>1, <1>2, <1>4 DEF Pause, Margin
    <3> QED
      BY SMTT(60), <1>1, <1>2, <1>4, <2>1, <3>2, <3>3 DEF Pause
  <2>2. CASE i - Len(event) \in 1 .. n /\ event'[i] = taps[i - Len(event)]
    BY <1>1, <1>2, <1>4, <1>6, <2>2
  <2> QED
    BY <1>9, <2>1, <2>2
<1>12. Clock'
  BY <1>1, <1>2, <1>11 DEF IInv, Clock, IdleIsEmpty, BuiltIsValid, PathIsDrawn, FirstTouch,
     TapsCountNothing, TouchIsAhead, FingersTouchOnce
<1>13. WellTimed'
  <2>3. inOrder(steps', offset')
    <3>1. steps' = <<>>
      BY <1>1, <1>2
    <3> QED
      BY <3>1 DEF inOrder
  <2> SUFFICES ASSUME Forward(request), NEW i \in 1 .. Len(event')
               PROVE inOrder(event'[i].steps, event'[i].up)
    BY <1>1, <2>3 DEF WellTimed
  <2>1. CASE i \in 1 .. Len(event) /\ event'[i] = event[i]
    BY <1>2, <2>1 DEF IInv, WellTimed
  <2>2. CASE i - Len(event) \in 1 .. n /\ event'[i] = taps[i - Len(event)]
    BY <1>6, <2>2
  <2> QED
    BY <1>9, <2>1, <2>2
<1>14. TapsAreApart'
  <2> SUFFICES ASSUME NEW i \in 1 .. Len(event'), NEW j \in 1 .. Len(event'),
                      event'[i].finger = event'[j].finger, event'[i].turn < event'[j].turn
               PROVE event'[i].up + Pause <= event'[j].steps[1].at
    BY DEF TapsAreApart
  <2>1. CASE i - Len(event) \in 1 .. n /\ event'[i] = taps[i - Len(event)]
    <3>1. event'[i].turn = turn /\ event'[j].turn < turn'
      BY <1>6, <1>11, <2>1
    <3>2. event'[j].turn \in Nat
      <4>1. event'[j] \in Path
        BY <1>8
      <4> QED
        BY <4>1 DEF Path
    <3> QED
      BY <1>1, <1>2, <3>1, <3>2
  <2>2. CASE i \in 1 .. Len(event) /\ event'[i] = event[i]
    <3>1. CASE j \in 1 .. Len(event) /\ event'[j] = event[j]
      BY <2>2, <3>1 DEF IInv, TapsAreApart
    <3>2. CASE j - Len(event) \in 1 .. n /\ event'[j] = taps[j - Len(event)]
      BY <1>5, <1>6, <2>2, <3>2
    <3> QED
      BY <1>9, <3>1, <3>2
  <2> QED
    BY <1>9, <2>1, <2>2
<1> QED
  BY <1>10, <1>12, <1>13, <1>14 DEF IInv

-------------------------------------------------------------------------------
(* Every step preserves the invariant. *)
LEMMA NextIInv == IInv /\ [Next]_vars => IInv'
<1> SUFFICES ASSUME IInv, [Next]_vars PROVE IInv'
  OBVIOUS
<1>1. ASSUME NEW r \in Request, receive(r) PROVE IInv'
  BY <1>1, receiveKeepsIInv
<1>2. CASE handler
  BY <1>2, touchKeepsIInv, waitingKeepsIInv, doubleTapKeepsIInv, twoFingerTapKeepsIInv,
     pinchKeepsIInv, beginDragKeepsIInv, dragToCoordinateKeepsIInv, liftKeepsIInv,
     countDownKeepsIInv, beginRotationKeepsIInv, rotateKeepsIInv DEF handler
<1>3. CASE synthesize
  BY <1>3, synthesizeKeepsIInv
<1>4. CASE UNCHANGED vars
  BY <1>4 DEF vars, building, IInv, TypeOK, Clock, IdleIsEmpty, BuiltIsValid, PathIsDrawn,
     FirstTouch, TapsCountNothing, TouchIsAhead, FingersTouchOnce, WellTimed, TapsAreApart
<1> QED
  BY <1>1, <1>2, <1>3, <1>4 DEF Next

LEMMA Invariance == Spec => []IInv
  BY InitIInv, NextIInv, PTL DEF Spec

(* The variables keep their types for any requests. *)
THEOREM TypesAreKept == Spec => []TypeOK
<1>1. IInv => TypeOK
  BY DEF IInv
<1> QED
  BY <1>1, Invariance, PTL

(* Whatever is added up on the way, no path a gesture builds runs back in   *)
(* time, or lifts its finger before its last point, unless the client asked *)
(* for a negative duration.                                                 *)
THEOREM PathsAreWellTimed == Spec => []WellTimed
<1>1. IInv => WellTimed
  BY DEF IInv
<1> QED
  BY <1>1, Invariance, PTL

(* Whatever the duration and the number of repetitions and of fingers, a    *)
(* finger that taps again has been up for a pause.                          *)
THEOREM TapsStayApart == Spec => []TapsAreApart
<1>1. IInv => TapsAreApart
  BY DEF IInv
<1> QED
  BY <1>1, Invariance, PTL

-------------------------------------------------------------------------------
(***************************************************************************)
(* The shape of the paths.  Two paths of a gesture are never compared      *)
(* while they are drawn: each finger has its own turn of a loop.  What     *)
(* keeps them in step is that the points and times of a path depend on the *)
(* request and on the number of the point only, but for the place of the   *)
(* finger.  The invariant says which point comes when, so that the three   *)
(* properties about whole paths can be read off it.                        *)
(***************************************************************************)

(* The path has m steps, the first m of all the steps a finger may make. *)
Draws(s, m, all) == Len(s) = m /\ \A j \in 1 .. m : s[j] = all[j]

At(t, p) == [at |-> t, point |-> p]

(* A drag: whether its finger holds at the first coordinate, and how long.  *)
holds(r) == IF dragFirstTouchHoldDuration(r) > 0 THEN 1 ELSE 0
holdTime(r) == IF dragFirstTouchHoldDuration(r) > 0 THEN dragFirstTouchHoldDuration(r) ELSE 0

(* The last of the coordinates that is reached at the pace of the drag. *)
lastMove(r) == Len(r.points) + holds(r)

dragTime(r, j) ==
    IF j = 1 THEN 0
    ELSE IF j <= lastMove(r) THEN (j - 1) * duration(r) + holdTime(r)
    ELSE (lastMove(r) - 1) * duration(r) + holdTime(r) + HaltTime

dragPlace(r, j) ==
    LET n == Len(r.points)
    IN IF j = 1 THEN r.points[1]
       ELSE IF j < lastMove(r) \/ (j = lastMove(r) /\ allowDragToHaveInertia(r))
       THEN r.points[j - holds(r)]
       ELSE IF j = lastMove(r) THEN haltPoint(r.points[n], r.points[n - 1])
       ELSE r.points[n]

dragSteps(r, k) ==
    [j \in Nat \ {0} |->
        At(dragTime(r, j), shift(dragPlace(r, j), fingerOffsetForFingerIndex(k)))]

(* How many of them are made when t coordinates are done. *)
dragged(r, t) ==
    IF t = 0 THEN 1
    ELSE IF t = Len(r.points) /\ ~allowDragToHaveInertia(r) THEN t + holds(r) + 1
    ELSE t + holds(r)

DragIsDrawn ==
    request # NoRequest /\ request.gesture = "drag" =>
        /\ steps = <<>> => turn = 0
        /\ steps # <<>> =>
              /\ turn <= Len(request.points)
              /\ finger < numFingers(request)
              /\ Draws(steps, dragged(request, turn), dragSteps(request, finger))
              /\ offset = dragTime(request, dragged(request, turn))
        /\ \A i \in 1 .. Len(event) :
              LET p == event[i] m == dragged(request, Len(request.points))
              IN /\ p.finger < numFingers(request)
                 /\ Draws(p.steps, m, dragSteps(request, p.finger))
                 /\ p.up = dragTime(request, m)

(* The points of a circle, as long as no angle is rounded. *)
circlePoint(r, k, n) ==
    LET way == n * increment(r)
    IN <<IF rotateDirection(r) = "clockwise" THEN startAngle(r, k) + way
         ELSE startAngle(r, k) - way, radius(r)>>

(* The degrees are counted down before the first point is drawn, and never  *)
(* faster than the increments are; from 2^24 + 2 degrees on not at all.     *)
CountsDown ==
    /\ left > 0 => steps = <<>> /\ event = <<>> /\ finger = 0
    /\ left <= 0 => count > 0
    /\ float(left) = left
    /\ Endless(request) => left > 4 * (Exact + 2)
    /\ ~Endless(request) => left <= degrees(request) - count * increment(request)
    /\ Precise(request) =>
          /\ left = degrees(request) - count * increment(request)
          /\ count > 0 => (count - 1) * increment(request) < degrees(request)

(* The path of a finger after n points of the circle. *)
Rotates(s, n, k, t) ==
    /\ n \in 1 .. count
    /\ k \in {0, 1}
    /\ Len(s) = n
    /\ \A j \in 1 .. n :
          /\ s[j].at = (j - 1) * timeIncrement(request)
          /\ s[j].point[2] = radius(request)
          /\ Precise(request) => s[j].point = circlePoint(request, k, j - 1)
    /\ t = (n - 1) * timeIncrement(request)

RotationIsDrawn ==
    request # NoRequest /\ request.gesture = "rotate" =>
        /\ CountsDown
        /\ steps # <<>> => Rotates(steps, turn, finger, offset)
        /\ \A i \in 1 .. Len(event) :
              LET p == event[i] IN Rotates(p.steps, count, p.finger, p.up)

(* The fingers of a pinch take the same time. *)
PinchIsDrawn ==
    request # NoRequest /\ request.gesture = "pinch" =>
        \A i \in 1 .. Len(event) :
            LET p == event[i]
            IN /\ Len(p.steps) = 2
               /\ p.steps[1].at = 0 /\ p.steps[2].at = duration(request)
               /\ p.up = duration(request) + Epsilon

(* A tap is at the place of its finger. *)
TapsAreDrawn ==
    request # NoRequest =>
        /\ request.gesture = "double_tap" =>
              \A i \in 1 .. Len(event) : event[i].finger = 1
        /\ request.gesture = "two_finger_tap" =>
              \A i \in 1 .. Len(event) :
                  LET p == event[i] x == FingerWidth \div 2
                  IN /\ p.finger \in {1, 2} /\ p.up = offset + Pause
                     /\ Draws(p.steps, 1,
                          <<At(0, shift(request.points[1], IF p.finger = 1 THEN x ELSE -x))>>)

(* Touches of the same turn are simultaneous. *)
TouchIsDrawn ==
    request # NoRequest /\ request.gesture = "touch" =>
        \A i \in 1 .. Len(event) :
            LET p == event[i] n == numFingers(request)
            IN /\ p.finger \in 1 .. n
               /\ Len(p.steps) = 1
               /\ p.steps[1].point = fingerCoordinates(request.points[1], n)[p.finger]
               /\ \A j \in 1 .. Len(event) :
                     event[j].turn = p.turn =>
                         event[j].up = p.up /\ event[j].steps[1].at = p.steps[1].at

SInv == /\ DragIsDrawn /\ RotationIsDrawn /\ PinchIsDrawn
        /\ TapsAreDrawn /\ TouchIsDrawn

LEMMA DrawsFirst ==
    ASSUME NEW p, NEW t, NEW all, all[1] = At(t, p)
    PROVE Draws(withFirstTouchPoint(p, t), 1, all)
  BY DEF Draws, withFirstTouchPoint, At

LEMMA DrawsNext ==
    ASSUME NEW s \in Seq(Step), NEW m \in Nat, NEW all, Draws(s, m, all),
           NEW p \in Coordinate, NEW t \in Int, all[m + 1] = At(t, p)
    PROVE Draws(moveToNextPoint(s, p, t), m + 1, all)
<1>1. At(t, p) \in Step
  BY DEF At, Step
<1>2. /\ Len(Append(s, At(t, p))) = m + 1
      /\ \A j \in 1 .. m : Append(s, At(t, p))[j] = s[j]
      /\ Append(s, At(t, p))[m + 1] = At(t, p)
  BY <1>1 DEF Draws
<1>3. moveToNextPoint(s, p, t) = Append(s, At(t, p))
  BY DEF moveToNextPoint, At
<1> QED
  BY <1>2, <1>3 DEF Draws

(* One more step at the same pace. *)
LEMMA OneMore == ASSUME NEW n \in Int, NEW d \in Int PROVE (n + 1) * d = n * d + d
  OBVIOUS

LEMMA OneIsAll == ASSUME NEW d \in Int PROVE 0 * d = 0 /\ 1 * d = d
  OBVIOUS

LEMMA FewerTimes ==
    ASSUME NEW m \in Nat, NEW b \in Nat, m <= b, NEW q \in Nat
    PROVE m * q <= b * q
  OBVIOUS

LEMMA ProductIsInt == ASSUME NEW n \in Int, NEW d \in Int PROVE n * d \in Int
  OBVIOUS

(* What is said of one gesture says nothing of another. *)
LEMMA OthersAreDrawn ==
    ASSUME request # NoRequest, request' = request,
           CASE request.gesture = "drag" -> DragIsDrawn'
             [] request.gesture = "rotate" -> RotationIsDrawn'
             [] request.gesture = "pinch" -> PinchIsDrawn'
             [] request.gesture \in {"double_tap", "two_finger_tap"} -> TapsAreDrawn'
             [] request.gesture = "touch" -> TouchIsDrawn'
    PROVE request.gesture \in {"drag", "rotate", "pinch", "double_tap", "two_finger_tap", "touch"}
              => SInv'
  BY DEF SInv, DragIsDrawn, RotationIsDrawn, PinchIsDrawn, TapsAreDrawn, TouchIsDrawn

LEMMA SInvInit == Init => SInv
  BY DEF Init, SInv, DragIsDrawn, RotationIsDrawn, PinchIsDrawn, TapsAreDrawn, TouchIsDrawn

LEMMA receiveKeepsSInv == ASSUME IInv, SInv, NEW r \in Request, receive(r) PROVE SInv'
<1>1. CASE ~valid(r)
  BY <1>1 DEF receive, building, SInv, DragIsDrawn, RotationIsDrawn, CountsDown, Rotates,
     timeIncrement, PinchIsDrawn, TapsAreDrawn, TouchIsDrawn
<1>2. CASE valid(r)
  <2>1. /\ request' = r /\ event' = <<>> /\ steps' = <<>> /\ finger' = 0 /\ turn' = 0
        /\ count' = 0 /\ left' = IF r.gesture = "rotate" THEN degrees(r) ELSE 0
    BY <1>2 DEF receive, IInv, Clock, IdleIsEmpty
  <2>2. ASSUME r.gesture = "rotate" PROVE CountsDown'
    <3>1. /\ degrees(r) \in Int /\ degrees(r) > 0 /\ float(degrees(r)) = degrees(r)
          /\ increment(r) \in Int
      BY <1>2, <2>2, OptionTypes, AcceptedPoints, RotationAdvances, GestureAssumption
         DEF GestureAssumption
    <3>2. degrees(r) = degrees(r) - 0 * increment(r)
      BY <3>1, OneIsAll
    <3>3. Endless(r) <=> degrees(r) > 4 * (Exact + 2)
      BY <2>2 DEF Endless
    <3> QED
      BY <2>1, <2>2, <3>1, <3>2, <3>3 DEF CountsDown
  <2> QED
    BY <2>1, <2>2 DEF SInv, DragIsDrawn, RotationIsDrawn, PinchIsDrawn, TapsAreDrawn, TouchIsDrawn
<1> QED
  BY <1>1, <1>2

(* Steps that build nothing. *)
LEMMA waitingKeepsSInv ==
    ASSUME SInv, killed \/ send \/ synthesize \/ UNCHANGED vars PROVE SInv'
<1>1. CASE UNCHANGED <<request, event, steps, circle, finger, turn, offset>>
  BY <1>1 DEF SInv, DragIsDrawn, RotationIsDrawn, CountsDown, Rotates, timeIncrement, PinchIsDrawn,
     TapsAreDrawn, TouchIsDrawn
<1>2. CASE synthesize
  BY <1>2 DEF synthesize, SInv, DragIsDrawn, RotationIsDrawn, PinchIsDrawn, TapsAreDrawn, TouchIsDrawn
<1> QED
  BY <1>1, <1>2 DEF killed, send, building, vars

-------------------------------------------------------------------------------
(* Drags. *)

(* The numbers of a drag that was accepted. *)
LEMMA DragFacts ==
    ASSUME NEW r \in Request, valid(r), r.gesture = "drag"
    PROVE /\ Len(r.points) \in Nat /\ Len(r.points) >= 2
          /\ \A i \in 1 .. Len(r.points) : r.points[i] \in Coordinate
          /\ numFingers(r) \in 1 .. 5
          /\ duration(r) \in Int
          /\ dragFirstTouchHoldDuration(r) \in Int
          /\ holds(r) \in {0, 1}
          /\ holdTime(r) \in Nat
          /\ holds(r) = 1 => holdTime(r) = dragFirstTouchHoldDuration(r)
          /\ holds(r) = 0 => holdTime(r) = 0
          /\ holds(r) = 1 <=> dragFirstTouchHoldDuration(r) > 0
<1>1. duration(r) \in Int /\ dragFirstTouchHoldDuration(r) \in Int
  BY OptionTypes
<1>2. numFingers(r) \in 1 .. 5
  BY DEF valid, validDrag
<1> QED
  BY <1>1, <1>2, AcceptedPoints DEF holds, holdTime

LEMMA beginDragKeepsSInv == ASSUME IInv, SInv, beginDrag PROVE SInv'
<1> DEFINE r == request
           dx == fingerOffsetForFingerIndex(finger)
<1>1. /\ pc = "build" /\ r.gesture = "drag" /\ steps = <<>> /\ finger < numFingers(r)
      /\ steps' = withFirstTouchPoint(shift(r.points[1], dx), 0) /\ offset' = 0
      /\ UNCHANGED <<request, event, finger, turn>>
  BY DEF beginDrag, begins
<1>2. r \in Request /\ r # NoRequest /\ valid(r)
  BY <1>1, Building
<1>3. turn = 0
  BY <1>1, <1>2 DEF SInv, DragIsDrawn
<1>4. dragSteps(r, finger)[1] = At(0, shift(r.points[1], dx))
  BY DEF dragSteps, dragTime, dragPlace
<1>5. Draws(steps', 1, dragSteps(r, finger))
  BY <1>1, <1>4, DrawsFirst
<1>6. dragged(r, turn) = 1 /\ dragTime(r, 1) = 0
  BY <1>3 DEF dragged, dragTime
<1>7. turn <= Len(r.points)
  BY <1>1, <1>2, <1>3, DragFacts
<1>8. steps' # <<>>
  BY <1>1 DEF withFirstTouchPoint
<1>9. DragIsDrawn'
  BY <1>1, <1>2, <1>5, <1>6, <1>7, <1>8 DEF SInv, DragIsDrawn
<1> QED
  BY <1>1, <1>2, <1>9, OthersAreDrawn

LEMMA PaceOfDrag ==
    ASSUME NEW r, NEW j, j # 1, j <= lastMove(r)
    PROVE dragTime(r, j) = (j - 1) * duration(r) + holdTime(r)
  BY Zenon DEF dragTime

LEMMA PlaceOfDrag ==
    ASSUME NEW r, NEW j, j # 1,
           j < lastMove(r) \/ (j = lastMove(r) /\ allowDragToHaveInertia(r))
    PROVE dragPlace(r, j) = r.points[j - holds(r)]
  BY DEF dragPlace

(* The next step of a drag that goes on at its pace. *)
LEMMA DragsOn ==
    ASSUME NEW r \in Request, valid(r), r.gesture = "drag",
           NEW t \in Nat, t < Len(r.points), t > 0 \/ holds(r) = 1
    PROVE LET j == t + holds(r) + 1
              held == dragTime(r, dragged(r, t)) + duration(r)
                        + (IF t = 0 THEN dragFirstTouchHoldDuration(r) ELSE 0)
          IN /\ dragged(r, t) + 1 = j
             /\ dragTime(r, j) = held /\ held \in Int
             /\ t + 1 < Len(r.points) \/ allowDragToHaveInertia(r) =>
                   dragPlace(r, j) = r.points[t + 1] /\ dragged(r, t + 1) = j
<1> DEFINE n == Len(r.points)
           h == holds(r)
           d == duration(r)
           m == t + h
           before == (m - 1) * d
<1>1. /\ n \in Nat /\ n >= 2 /\ d \in Int /\ h \in {0, 1} /\ holdTime(r) \in Nat
      /\ h = 1 => holdTime(r) = dragFirstTouchHoldDuration(r)
      /\ h = 0 => holdTime(r) = 0
  BY DragFacts
<1>2. dragged(r, t) = m
  <2>1. CASE t = 0
    BY <1>1, <2>1 DEF dragged
  <2>2. CASE t # 0
    BY <1>1, <2>2 DEF dragged
  <2> QED
    BY <2>1, <2>2
<1>3. lastMove(r) = n + h
  BY DEF lastMove
<1>4. /\ m \in Nat /\ m >= 1 /\ m = t + h /\ m + 1 = t + h + 1
      /\ m + 1 <= lastMove(r) /\ m <= lastMove(r)
  BY <1>1, <1>3
<1> HIDE DEF m
<1>5. before \in Int /\ m * d = before + d
  <2>1. m - 1 \in Int /\ (m - 1) + 1 = m
    BY <1>4
  <2>2. (m - 1) * d \in Int
    BY <1>1, <2>1, ProductIsInt
  <2>3. ((m - 1) + 1) * d = (m - 1) * d + d
    BY <1>1, <2>1, OneMore
  <2> QED
    BY <2>1, <2>2, <2>3
<1>6. m = 1 => before = 0
  <2> SUFFICES ASSUME m = 1 PROVE before = 0
    OBVIOUS
  <2>1. m - 1 = 0
    BY <1>4
  <2> QED
    BY <1>1, <2>1, OneIsAll
<1>7. dragTime(r, m + 1) = before + d + holdTime(r)
  <2>1. m + 1 # 1 /\ (m + 1) - 1 = m
    BY <1>4
  <2>2. dragTime(r, m + 1) = m * d + holdTime(r)
    BY Zenon, <1>4, <2>1, PaceOfDrag
  <2> QED
    BY <1>5, <2>2
<1>8. m # 1 => dragTime(r, m) = before + holdTime(r)
  BY Zenon, <1>4, PaceOfDrag
<1>9. m = 1 => dragTime(r, m) = 0
  BY DEF dragTime
<1> HIDE DEF before
<1>10. dragTime(r, m) + d + (IF t = 0 THEN dragFirstTouchHoldDuration(r) ELSE 0)
         = before + d + holdTime(r)
  <2>1. CASE t = 0
    <3>1. h = 1 /\ dragTime(r, m) = 0 /\ before = 0
      BY <1>1, <1>4, <1>6, <1>9, <2>1
    <3> QED
      BY <1>1, <2>1, <3>1
  <2>2. CASE t # 0 /\ m = 1
    <3>1. h = 0 /\ dragTime(r, m) = 0 /\ before = 0
      BY <1>1, <1>4, <1>6, <1>9, <2>2
    <3> QED
      BY <1>1, <2>2, <3>1
  <2>3. CASE t # 0 /\ m # 1
    BY <1>1, <1>5, <1>8, <2>3
  <2> QED
    BY <2>1, <2>2, <2>3
<1>11. ASSUME t + 1 < n \/ allowDragToHaveInertia(r)
       PROVE dragPlace(r, m + 1) = r.points[t + 1] /\ dragged(r, t + 1) = m + 1
  <2>1. m + 1 # 1 /\ (m + 1) - holds(r) = t + 1
    BY <1>1, <1>4
  <2>2. m + 1 < lastMove(r) \/ (m + 1 = lastMove(r) /\ allowDragToHaveInertia(r))
    BY <1>1, <1>3, <1>4, <1>11
  <2>3. dragPlace(r, m + 1) = r.points[t + 1]
    <3>1. dragPlace(r, m + 1) = r.points[(m + 1) - holds(r)]
      BY <2>1, <2>2, PlaceOfDrag
    <3> QED
      BY Zenon, <2>1, <3>1
  <2>4. t + 1 # 0 /\ ~(t + 1 = n /\ ~allowDragToHaveInertia(r)) /\ (t + 1) + h = m + 1
    BY <1>1, <1>4, <1>11
  <2>5. dragged(r, t + 1) = m + 1
    BY <2>4 DEF dragged
  <2> QED
    BY <2>3, <2>5
<1>12. before + d + holdTime(r) \in Int
  BY <1>1, <1>5
<1> QED
  BY <1>2, <1>4, <1>7, <1>10, <1>11, <1>12

(* The halt of a drag without inertia, and the last coordinate after it. *)
LEMMA DragHalts ==
    ASSUME NEW r \in Request, valid(r), r.gesture = "drag", ~allowDragToHaveInertia(r)
    PROVE LET n == Len(r.points) j == lastMove(r)
          IN /\ j = n - 1 + holds(r) + 1 /\ j \in Nat /\ j > 1
             /\ dragPlace(r, j) = haltPoint(r.points[n], r.points[n - 1])
             /\ dragTime(r, j + 1) = dragTime(r, j) + HaltTime
             /\ dragPlace(r, j + 1) = r.points[n]
             /\ dragged(r, n) = j + 1
<1> DEFINE n == Len(r.points)
           j == lastMove(r)
<1>1. n \in Nat /\ n >= 2 /\ holds(r) \in {0, 1}
  BY DragFacts
<1>2. j = n + holds(r) /\ j \in Nat /\ j > 1 /\ j = n - 1 + holds(r) + 1
  BY <1>1 DEF lastMove
<1>3. dragPlace(r, j) = haltPoint(r.points[n], r.points[n - 1])
  BY <1>2 DEF dragPlace
<1>4. dragPlace(r, j + 1) = r.points[n]
  BY <1>2 DEF dragPlace
<1>5. dragged(r, n) = j + 1
  BY <1>1, <1>2 DEF dragged
<1>6. dragTime(r, j) = (j - 1) * duration(r) + holdTime(r)
  BY <1>2 DEF dragTime
<1>7. dragTime(r, j + 1) = (j - 1) * duration(r) + holdTime(r) + HaltTime
  <2>1. j + 1 # 1 /\ ~(j + 1 <= lastMove(r))
    BY <1>2
  <2> QED
    BY Zenon, <2>1 DEF dragTime
<1> HIDE DEF j
<1> QED
  BY <1>2, <1>3, <1>4, <1>5, <1>6, <1>7 DEF j

(* Points of a drag are where its finger may be. *)
LEMMA DragPoints ==
    ASSUME NEW r \in Request, valid(r), r.gesture = "drag", NEW k \in Nat,
           NEW t \in Nat, t < Len(r.points)
    PROVE LET dx == fingerOffsetForFingerIndex(k)
          IN /\ shift(r.points[t + 1], dx) \in Coordinate
             /\ t > 0 => shift(haltPoint(r.points[t + 1], r.points[t]), dx) \in Coordinate
<1>1. fingerOffsetForFingerIndex(k) \in Int
  BY FingerOffsetType
<1>2. /\ t + 1 \in 1 .. Len(r.points) /\ (t > 0 => t \in 1 .. Len(r.points))
      /\ \A i \in 1 .. Len(r.points) : r.points[i] \in Coordinate
  BY DragFacts
<1>3. t > 0 => haltPoint(r.points[t + 1], r.points[t]) \in Coordinate
  BY <1>2, HaltPointType
<1> QED
  BY <1>1, <1>2, <1>3, ShiftType

LEMMA DragStepAt ==
    ASSUME NEW r, NEW k, NEW j \in Nat, j > 0
    PROVE dragSteps(r, k)[j]
            = At(dragTime(r, j), shift(dragPlace(r, j), fingerOffsetForFingerIndex(k)))
  BY DEF dragSteps

LEMMA dragToCoordinateKeepsSInv == ASSUME IInv, SInv, dragToCoordinate PROVE SInv'
<1> DEFINE r == request
           n == Len(r.points)
           dx == fingerOffsetForFingerIndex(finger)
           all == dragSteps(r, finger)
           hold == dragFirstTouchHoldDuration(r)
           held == offset + duration(r) + (IF turn = 0 THEN hold ELSE 0)
           point == shift(r.points[turn + 1], dx)
           halt == shift(haltPoint(r.points[turn + 1], r.points[turn]), dx)
           j == turn + holds(r) + 1
<1>1. /\ pc = "build" /\ r.gesture = "drag" /\ steps # <<>> /\ turn < n /\ turn' = turn + 1
      /\ UNCHANGED <<request, event, finger>>
  BY DEF dragToCoordinate, begins
<1>2. /\ r \in Request /\ r # NoRequest /\ valid(r) /\ finger \in Nat /\ turn \in Nat
      /\ steps \in Seq(Step)
  BY <1>1, Building
<1>3. /\ n \in Nat /\ n >= 2 /\ holds(r) \in {0, 1} /\ (holds(r) = 1 <=> hold > 0)
      /\ hold \in Int
  BY <1>1, <1>2, DragFacts
<1>4. /\ finger < numFingers(r)
      /\ Draws(steps, dragged(r, turn), all)
      /\ offset = dragTime(r, dragged(r, turn))
      /\ \A i \in 1 .. Len(event) :
            LET p == event[i] m == dragged(r, n)
            IN /\ p.finger < numFingers(r)
               /\ Draws(p.steps, m, dragSteps(r, p.finger))
               /\ p.up = dragTime(r, m)
  BY <1>1, <1>2 DEF SInv, DragIsDrawn
<1>5. point \in Coordinate /\ (turn > 0 => halt \in Coordinate)
  BY <1>1, <1>2, DragPoints
<1>6. \/ turn = 0 /\ hold <= 0 /\ UNCHANGED <<steps, offset>>
      \/ /\ turn > 0 \/ hold > 0
         /\ turn + 1 < n \/ allowDragToHaveInertia(r)
         /\ steps' = moveToNextPoint(steps, point, held) /\ offset' = held
      \/ /\ turn + 1 = n /\ ~allowDragToHaveInertia(r)
         /\ steps' = moveToNextPoint(moveToNextPoint(steps, halt, held), point, held + HaltTime)
         /\ offset' = held + HaltTime
  BY DEF dragToCoordinate
<1>7. ASSUME turn > 0 \/ hold > 0
      PROVE /\ dragged(r, turn) + 1 = j /\ dragTime(r, j) = held /\ held \in Int
            /\ turn + 1 < n \/ allowDragToHaveInertia(r) =>
                  dragPlace(r, j) = r.points[turn + 1] /\ dragged(r, turn + 1) = j
  BY <1>1, <1>2, <1>3, <1>4, <1>7, DragsOn
<1>8. j \in Nat /\ j > 0 /\ turn + 1 \in Nat /\ turn + 1 <= n
  BY <1>1, <1>2, <1>3
<1>9. all[j] = At(dragTime(r, j), shift(dragPlace(r, j), dx))
  BY <1>8, DragStepAt
<1>10. SUFFICES /\ steps' # <<>>
                /\ Draws(steps', dragged(r, turn + 1), all)
                /\ offset' = dragTime(r, dragged(r, turn + 1))
  <2>1. ASSUME steps' # <<>>, Draws(steps', dragged(r, turn + 1), all),
               offset' = dragTime(r, dragged(r, turn + 1))
        PROVE DragIsDrawn'
    BY <1>1, <1>2, <1>4, <1>8, <2>1 DEF DragIsDrawn
  <2> QED
    BY <1>1, <1>2, <2>1, OthersAreDrawn
<1> HIDE DEF held, point, halt, all, j
<1>11. CASE turn = 0 /\ hold <= 0 /\ UNCHANGED <<steps, offset>>
  <2>1. holds(r) = 0 /\ turn = 0
    BY <1>3, <1>11
  <2>2. dragged(r, turn) = 1 /\ dragged(r, turn + 1) = 1
    <3>1. turn + 1 # 0 /\ (turn + 1) + holds(r) = 1
      BY <2>1
    <3>2. turn + 1 # n
      <4>1. turn + 1 \in Int /\ n \in Int /\ turn + 1 < n
        BY <1>3, <2>1
      <4> HIDE DEF n
      <4> QED
        BY <4>1
    <3>3. dragged(r, turn + 1) = (turn + 1) + holds(r)
      BY Zenon, <3>1, <3>2 DEF dragged
    <3>4. dragged(r, turn) = 1
      BY <1>11 DEF dragged
    <3> QED
      BY <3>1, <3>3, <3>4
  <2> QED
    BY <1>1, <1>4, <1>11, <2>2
<1>12. CASE /\ turn > 0 \/ hold > 0
            /\ turn + 1 < n \/ allowDragToHaveInertia(r)
            /\ steps' = moveToNextPoint(steps, point, held) /\ offset' = held
  <2>1. /\ dragged(r, turn) + 1 = j /\ dragTime(r, j) = held /\ held \in Int
        /\ dragPlace(r, j) = r.points[turn + 1] /\ dragged(r, turn + 1) = j
    BY <1>7, <1>12
  <2>2. all[dragged(r, turn) + 1] = At(held, point)
    BY <1>9, <2>1 DEF point
  <2>3. dragged(r, turn) \in Nat
    BY <1>4, <1>2 DEF Draws
  <2>4. Draws(steps', dragged(r, turn) + 1, all)
    BY <1>2, <1>4, <1>5, <1>12, <2>1, <2>2, <2>3, DrawsNext
  <2>5. steps' # <<>>
    BY <1>2, <1>5, <1>12, <2>1, NextPoint
  <2> QED
    BY <1>12, <2>1, <2>4, <2>5
<1>13. CASE /\ turn + 1 = n /\ ~allowDragToHaveInertia(r)
            /\ steps' = moveToNextPoint(moveToNextPoint(steps, halt, held), point, held + HaltTime)
            /\ offset' = held + HaltTime
  <2>1. turn > 0 /\ turn = n - 1
    BY <1>2, <1>3, <1>13
  <2>2. dragged(r, turn) + 1 = j /\ dragTime(r, j) = held /\ held \in Int
    BY <1>7, <2>1
  <2>3. j = lastMove(r)
    BY <1>2, <1>3, <1>13, <2>1 DEF j, lastMove
  <2>4. /\ dragPlace(r, j) = haltPoint(r.points[n], r.points[n - 1])
        /\ dragTime(r, j + 1) = held + HaltTime
        /\ dragPlace(r, j + 1) = r.points[n]
        /\ dragged(r, n) = j + 1
    BY <1>1, <1>2, <1>13, <2>2, <2>3, DragHalts
  <2>5. halt \in Coordinate /\ held + HaltTime \in Int
    BY <1>5, <2>1, <2>2 DEF HaltTime
  <2>6. all[dragged(r, turn) + 1] = At(held, halt)
    BY <1>9, <1>13, <2>1, <2>2, <2>4 DEF halt
  <2>7. dragged(r, turn) \in Nat
    BY <1>4, <1>2 DEF Draws
  <2> DEFINE half == moveToNextPoint(steps, halt, held)
  <2>8. Draws(half, j, all)
    BY <1>2, <1>4, <2>2, <2>5, <2>6, <2>7, DrawsNext
  <2>9. half \in Seq(Step)
    BY <1>2, <2>2, <2>5, NextPoint
  <2>10. all[j + 1] = At(held + HaltTime, point)
    <3>1. all[j + 1] = At(dragTime(r, j + 1), shift(dragPlace(r, j + 1), dx))
      <4>1. j + 1 \in Nat /\ j + 1 > 0
        BY <1>8
      <4> QED
        BY <4>1, DragStepAt DEF all
    <3> QED
      BY <1>13, <2>4, <3>1 DEF point
  <2> HIDE DEF half
  <2>11. steps' = moveToNextPoint(half, point, held + HaltTime)
    BY <1>13 DEF half
  <2>12. Draws(steps', j + 1, all)
    BY <1>5, <1>8, <2>5, <2>8, <2>9, <2>10, <2>11, DrawsNext
  <2>13. steps' # <<>>
    BY <1>5, <2>5, <2>9, <2>11, NextPoint
  <2> QED
    BY <1>13, <2>4, <2>12, <2>13
<1> QED
  BY <1>6, <1>11, <1>12, <1>13

LEMMA liftDragKeepsSInv == ASSUME IInv, SInv, liftDrag PROVE SInv'
<1> DEFINE r == request
           p == liftUp(finger, 0, steps, offset)
<1>1. /\ pc = "build" /\ r.gesture = "drag" /\ steps # <<>> /\ turn = Len(r.points)
      /\ event' = Append(event, p) /\ steps' = <<>> /\ turn' = 0
      /\ UNCHANGED request
  BY DEF liftDrag, begins, addTouchPath
<1>2. /\ r # NoRequest /\ event \in Seq(Path) /\ p \in Path
  BY <1>1, Building, LiftType
<1>3. p.finger = finger /\ p.steps = steps /\ p.up = offset
  BY DEF liftUp
<1> HIDE DEF p
<1>4. /\ Len(event') = Len(event) + 1 /\ Len(event) \in Nat
      /\ \A i \in 1 .. Len(event) : event'[i] = event[i]
      /\ event'[Len(event) + 1] = p
  BY <1>1, <1>2, AppendedPath
<1>5. ASSUME NEW i \in 1 .. Len(event')
      PROVE LET q == event'[i] m == dragged(r, Len(r.points))
            IN /\ q.finger < numFingers(r)
               /\ Draws(q.steps, m, dragSteps(r, q.finger))
               /\ q.up = dragTime(r, m)
  <2>1. CASE i = Len(event) + 1
    BY <1>1, <1>2, <1>3, <1>4, <2>1 DEF SInv, DragIsDrawn
  <2>2. CASE i # Len(event) + 1
    <3>1. i \in 1 .. Len(event) /\ event'[i] = event[i]
      BY <1>4, <2>2
    <3> QED
      BY <1>1, <1>2, <3>1 DEF SInv, DragIsDrawn
  <2> QED
    BY <2>1, <2>2
<1>6. DragIsDrawn'
  BY <1>1, <1>5 DEF DragIsDrawn
<1> QED
  BY <1>1, <1>2, <1>6, OthersAreDrawn

-------------------------------------------------------------------------------
(* What is rounded.                                                        *)

(* Whole quarters of up to 2^24 are floats. *)
LEMMA ExactFloat ==
    ASSUME NEW x \in Int, x <= Exact, -x <= Exact
    PROVE float(x) = x
<1>1. ulp(x) = 1
  BY DEF ulp, Exact
<1>2. x % 1 = 0
  OBVIOUS
<1> QED
  BY <1>1, <1>2 DEF float

(* A float is a multiple of the distance to the next. *)
LEMMA FloatIsMultiple ==
    ASSUME NEW x \in Int, float(x) = x
    PROVE x % ulp(x) = 0
<1>1. CASE ulp(x) = 1
  BY <1>1
<1>2. CASE ulp(x) = 2
  BY <1>2 DEF float
<1>3. CASE ulp(x) = 4
  BY <1>3 DEF float
<1>4. CASE ulp(x) = 8
  BY <1>4 DEF float
<1>5. CASE ulp(x) = 16
  BY <1>5 DEF float
<1>6. ulp(x) \in {1, 2, 4, 8, 16}
  BY DEF ulp
<1> QED
  BY <1>1, <1>2, <1>3, <1>4, <1>5, <1>6

(* What a number is rounded to is a float: it is a multiple of the distance *)
(* there was, and further out only as far as the next power of two.         *)
LEMMA FloatIsFloat ==
    ASSUME NEW x \in Int, x >= -Exact
    PROVE float(float(x)) = float(x)
<1> DEFINE y == float(x)
<1>1. CASE x <= Exact
  BY <1>1, ExactFloat DEF Exact
<1>2. CASE Exact < x /\ x <= 2 * Exact
  <2>1. ulp(x) = 2
    BY <1>2 DEF ulp, Exact
  <2>2. y \in Int /\ y % 2 = 0 /\ Exact <= y /\ y <= 2 * Exact
    BY <1>2, <2>1 DEF float, Exact
  <2> HIDE DEF y
  <2>3. y = Exact \/ ulp(y) = 2
    BY <2>2 DEF ulp, Exact
  <2>4. float(y) = y
    BY <2>2, <2>3, ExactFloat DEF float, Exact
  <2> QED
    BY <2>4 DEF y
<1>3. CASE 2 * Exact < x /\ x <= 4 * Exact
  <2>1. ulp(x) = 4
    BY <1>3 DEF ulp, Exact
  <2>2. y \in Int /\ y % 4 = 0 /\ 2 * Exact <= y /\ y <= 4 * Exact
    BY <1>3, <2>1 DEF float, Exact
  <2> HIDE DEF y
  <2>3. (y = 2 * Exact /\ ulp(y) = 2) \/ ulp(y) = 4
    BY <2>2 DEF ulp, Exact
  <2>4. float(y) = y
    BY <2>2, <2>3 DEF float, Exact
  <2> QED
    BY <2>4 DEF y
<1>4. CASE 4 * Exact < x /\ x <= 8 * Exact
  <2>1. ulp(x) = 8
    BY <1>4 DEF ulp, Exact
  <2>2. y \in Int /\ y % 8 = 0 /\ 4 * Exact <= y /\ y <= 8 * Exact
    BY <1>4, <2>1 DEF float, Exact
  <2> HIDE DEF y
  <2>3. (y = 4 * Exact /\ ulp(y) = 4) \/ ulp(y) = 8
    BY <2>2 DEF ulp, Exact
  <2>4. float(y) = y
    BY <2>2, <2>3 DEF float, Exact
  <2> QED
    BY <2>4 DEF y
<1>5. CASE 8 * Exact < x
  <2>1. ulp(x) = 16
    BY <1>5 DEF ulp, Exact
  <2>2. y \in Int /\ y % 16 = 0 /\ 8 * Exact <= y
    BY <1>5, <2>1 DEF float, Exact
  <2> HIDE DEF y
  <2>3. (y = 8 * Exact /\ ulp(y) = 8) \/ ulp(y) = 16
    BY <2>2 DEF ulp, Exact
  <2>4. float(y) = y
    BY <2>2, <2>3 DEF float, Exact
  <2> QED
    BY <2>4 DEF y
<1>6. Exact \in Int
  BY DEF Exact
<1> QED
  BY <1>1, <1>2, <1>3, <1>4, <1>5, <1>6

(* A degree less is a degree less at least, up to 2^24 + 2 degrees. *)
LEMMA FloatGoesDown ==
    ASSUME NEW x \in Int, float(x) = x, 0 < x, x <= 4 * (Exact + 2)
    PROVE float(x - 4) <= x - 4
<1>1. x % ulp(x) = 0
  BY FloatIsMultiple
<1>2. CASE x - 4 <= Exact
  BY <1>2, ExactFloat DEF Exact
<1>3. CASE Exact < x - 4 /\ x - 4 <= 2 * Exact
  <2>1. ulp(x - 4) = 2 /\ ulp(x) \in {2, 4}
    BY <1>3 DEF ulp, Exact
  <2>2. (x - 4) % 2 = 0
    BY <1>1, <2>1
  <2> QED
    BY <2>1, <2>2 DEF float
<1>4. CASE 2 * Exact < x - 4 /\ x - 4 <= 4 * Exact
  <2>1. ulp(x - 4) = 4 /\ ulp(x) \in {4, 8}
    BY <1>4 DEF ulp, Exact
  <2>2. (x - 4) % 4 = 0
    BY <1>1, <2>1
  <2> QED
    BY <2>1, <2>2 DEF float
<1>5. CASE 4 * Exact < x - 4
  <2>1. ulp(x - 4) = 8 /\ ulp(x) = 8
    BY <1>5 DEF ulp, Exact
  <2>2. x - 4 = 4 * Exact + 4
    BY <1>1, <1>5, <2>1 DEF Exact
  <2>3. (x - 4) % 8 = 4 /\ (((x - 4) - 4) \div 8) % 2 = 0
    BY <2>2 DEF Exact
  <2>4. float(x - 4) = (x - 4) - 4
    BY <2>1, <2>3 DEF float
  <2> QED
    BY <2>4
<1>6. Exact \in Int
  BY DEF Exact
<1> QED
  BY <1>2, <1>3, <1>4, <1>5, <1>6

(* Further away it is lost. *)
LEMMA FloatStays ==
    ASSUME NEW x \in Int, float(x) = x, x > 4 * (Exact + 2)
    PROVE float(x - 4) > 4 * (Exact + 2)
<1>1. x % ulp(x) = 0
  BY FloatIsMultiple
<1>2. CASE x <= 8 * Exact
  <2>1. ulp(x) = 8 /\ ulp(x - 4) = 8
    BY <1>2 DEF ulp, Exact
  <2>2. x % 8 = 0 /\ (x - 4) % 8 = 4 /\ (x - 4) - 4 = x - 8 /\ (x - 8) + 8 = x
    BY <1>1, <2>1
  <2>3. float(x - 4) = IF ((x - 8) \div 8) % 2 = 0 THEN x - 8 ELSE x
    BY <2>1, <2>2 DEF float
  <2>4. x = 4 * Exact + 16 => (x - 8) \div 8 = 8388609
    BY DEF Exact
  <2>5. x >= 4 * Exact + 16
    BY <2>2 DEF Exact
  <2>6. x # 4 * Exact + 16 => x - 8 >= 4 * Exact + 16
    BY <2>2, <2>5 DEF Exact
  <2> QED
    BY <2>3, <2>4, <2>5, <2>6 DEF Exact
<1>3. CASE x > 8 * Exact
  <2>1. ulp(x) = 16
    BY <1>3 DEF ulp, Exact
  <2>2. x % 16 = 0 /\ x - 4 > 8 * Exact
    BY <1>1, <1>3, <2>1 DEF Exact
  <2>3. ulp(x - 4) = 16 /\ (x - 4) % 16 = 12
    BY <2>2 DEF ulp, Exact
  <2>4. float(x - 4) = ((x - 4) - 12) + 16
    BY <2>3 DEF float
  <2> QED
    BY <2>4
<1>4. Exact \in Int
  BY DEF Exact
<1> QED
  BY <1>2, <1>3, <1>4

-------------------------------------------------------------------------------
(* Rotations. *)

LEMMA countDownKeepsSInv == ASSUME IInv, SInv, countDown PROVE SInv'
<1> DEFINE r == request
           d == degrees(r)
           i == increment(r)
<1>1. /\ pc = "build" /\ r.gesture = "rotate" /\ left > 0
      /\ count' = count + 1 /\ left' = float(left - i)
      /\ UNCHANGED <<request, event, steps, finger>>
  BY DEF countDown, begins
<1>2. /\ r \in Request /\ r # NoRequest /\ valid(r) /\ left \in Int /\ count \in Nat
  BY <1>1, Building
<1>3. /\ d \in Int /\ d > 0 /\ i \in Int /\ i > 0
      /\ d >= 4 => i = 4
      /\ d < 4 => d = 2 /\ i = 1
  BY <1>1, <1>2, OptionTypes, AcceptedPoints, RotationAdvances
<1>4. /\ steps = <<>> /\ event = <<>> /\ finger = 0 /\ float(left) = left
      /\ Endless(r) => left > 4 * (Exact + 2)
      /\ ~Endless(r) => left <= d - count * i
      /\ Precise(r) => left = d - count * i
  BY <1>1, <1>2 DEF SInv, RotationIsDrawn, CountsDown
<1>5. Endless(r) <=> d > 4 * (Exact + 2)
  BY <1>1 DEF Endless
<1>6. count * i \in Nat /\ (count + 1) * i = count * i + i /\ (count + 1) - 1 = count
  BY <1>2, <1>3, OneMore
<1> HIDE DEF d, i
<1>7. float(left') = left'
  BY <1>1, <1>2, <1>3, FloatIsFloat DEF Exact
<1>8. ASSUME Endless(r) PROVE left' > 4 * (Exact + 2)
  <2>1. i = 4
    BY <1>3, <1>5, <1>8 DEF Exact
  <2> QED
    BY <1>1, <1>2, <1>4, <1>8, <2>1, FloatStays
<1>9. ASSUME ~Endless(r) PROVE left' <= d - (count + 1) * i
  <2>1. left <= d
    BY <1>2, <1>3, <1>4, <1>6, <1>9
  <2>2. left' <= left - i
    <3>1. CASE d >= 4
      <4>1. left <= 4 * (Exact + 2) /\ i = 4
        BY <1>2, <1>3, <1>5, <1>9, <2>1, <3>1 DEF Exact
      <4> QED
        BY <1>1, <1>2, <1>4, <4>1, FloatGoesDown
    <3>2. CASE d < 4
      <4>1. left - i \in Int /\ left - i <= Exact /\ -(left - i) <= Exact
        BY <1>1, <1>2, <1>3, <2>1, <3>2 DEF Exact
      <4> QED
        BY <1>1, <4>1, ExactFloat
    <3> QED
      BY <1>3, <3>1, <3>2
  <2>3. left' \in Int
    BY <1>1, <1>2, <1>3, FloatType
  <2> QED
    BY <1>2, <1>3, <1>4, <1>6, <1>9, <2>2, <2>3
<1>10. ASSUME Precise(r) PROVE left' = d - (count + 1) * i /\ count * i < d
  <2>1. left = d - count * i /\ d + 4 * 540 <= Exact
    BY <1>4, <1>10 DEF Precise, d
  <2>2. left - i \in Int /\ left - i <= Exact /\ -(left - i) <= Exact
    BY <1>1, <1>2, <1>3, <1>6, <2>1 DEF Exact
  <2>3. left' = left - i
    BY <1>1, <2>2, ExactFloat
  <2> QED
    BY <1>1, <1>2, <1>3, <1>6, <2>1, <2>3
<1>11. CountsDown'
  BY <1>1, <1>2, <1>4, <1>6, <1>7, <1>8, <1>9, <1>10 DEF CountsDown, d, i
<1>12. RotationIsDrawn'
  BY <1>1, <1>4, <1>11 DEF RotationIsDrawn
<1> QED
  BY <1>1, <1>2, <1>12, OthersAreDrawn

(* A circle is drawn when its points are counted. *)
LEMMA Drawing ==
    ASSUME IInv, SInv, pc = "build", request.gesture = "rotate", left <= 0 \/ steps # <<>>
    PROVE /\ CountsDown /\ left <= 0 /\ count > 0
          /\ (UNCHANGED <<request, circle>>) => CountsDown'
<1>1. left \in Int /\ request # NoRequest
  BY Building
<1>2. CountsDown
  BY <1>1 DEF SInv, RotationIsDrawn
<1>3. left <= 0 /\ count > 0
  BY <1>1, <1>2 DEF CountsDown
<1>4. ASSUME UNCHANGED <<request, circle>> PROVE CountsDown'
  BY <1>1, <1>2, <1>3, <1>4 DEF CountsDown
<1> QED
  BY <1>2, <1>3, <1>4

LEMMA beginRotationKeepsSInv == ASSUME IInv, SInv, beginRotation PROVE SInv'
<1> DEFINE r == request
           start == startAngle(r, finger)
           point == <<start, radius(r)>>
<1>1. /\ pc = "build" /\ r.gesture = "rotate" /\ finger < 2 /\ left <= 0
      /\ steps' = withFirstTouchPoint(point, 0) /\ offset' = 0 /\ turn' = 1
      /\ UNCHANGED <<request, circle, event, finger>>
  BY DEF beginRotation, begins
<1>2. r \in Request /\ r # NoRequest /\ valid(r) /\ finger \in Nat /\ count \in Nat
  BY <1>1, Building
<1>3. count > 0 /\ CountsDown'
  BY <1>1, Drawing
<1>4. timeIncrement(r) \in Int /\ increment(r) \in Int /\ start \in Int
  BY <1>1, <1>2, <1>3, ClockAdvances, RotationAdvances, StartAngleType
<1>5. 0 * timeIncrement(r) = 0 /\ 0 * increment(r) = 0 /\ 1 - 1 = 0
  BY <1>4, OneIsAll
<1>6. circlePoint(r, finger, 0) = point
  BY <1>4, <1>5 DEF circlePoint
<1>7. /\ Len(steps') = 1 /\ steps'[1].at = 0 /\ steps'[1].point = point
  BY <1>1 DEF withFirstTouchPoint
<1>8. timeIncrement(r)' = timeIncrement(r) /\ count' = count /\ finger' = finger /\ turn' = 1
  BY <1>1 DEF timeIncrement
<1>9. finger \in {0, 1} /\ 1 \in 1 .. count
  BY <1>1, <1>2, <1>3
<1> HIDE DEF start
<1>10. ASSUME NEW j \in 1 .. 1
       PROVE /\ steps'[j].at = (j - 1) * timeIncrement(r)
             /\ steps'[j].point[2] = radius(r)
             /\ Precise(r) => steps'[j].point = circlePoint(r, finger, j - 1)
  <2>1. j = 1
    OBVIOUS
  <2>2. point[2] = radius(r)
    OBVIOUS
  <2> QED
    BY <1>5, <1>6, <1>7, <2>1, <2>2
<1>11. Rotates(steps, turn, finger, offset)'
  BY <1>1, <1>5, <1>7, <1>8, <1>9, <1>10 DEF Rotates
<1>12. RotationIsDrawn'
  BY <1>1, <1>2, <1>3, <1>8, <1>11 DEF SInv, RotationIsDrawn, Rotates
<1> QED
  BY <1>1, <1>2, <1>12, OthersAreDrawn

(* The next point is one increment further on the circle. *)
LEMMA NextOnCircle ==
    ASSUME NEW r \in Request, valid(r), r.gesture = "rotate", Precise(r),
           NEW k \in {0, 1}, NEW n \in Nat, (n + 1) * increment(r) <= degrees(r)
    PROVE nextAngle(r, circlePoint(r, k, n)[1]) = circlePoint(r, k, n + 1)[1]
<1> DEFINE i == increment(r)
           way == n * i
           further == (n + 1) * i
           start == startAngle(r, k)
<1>1. i \in Int /\ i > 0 /\ degrees(r) \in Int /\ start \in Int
  BY RotationAdvances, OptionTypes, StartAngleType
<1>2. start >= -(4 * 180) /\ start <= 4 * 360
  <2>1. rotationStart(r) \in 0 .. 4 * 360
    BY DEF valid, validRotation
  <2> QED
    BY <2>1 DEF startAngle
<1>3. way \in Nat /\ further = way + i
  BY <1>1, OneMore
<1>4. way + i <= degrees(r) /\ degrees(r) + 4 * 540 <= Exact
  BY <1>3 DEF Precise
<1>5. /\ circlePoint(r, k, n)[1]
            = IF rotateDirection(r) = "clockwise" THEN start + way ELSE start - way
      /\ circlePoint(r, k, n + 1)[1]
            = IF rotateDirection(r) = "clockwise" THEN start + further ELSE start - further
  BY DEF circlePoint
<1> HIDE DEF i, way, further, start
<1>6. /\ float(start + way + i) = start + way + i
      /\ float(start - way - i) = start - way - i
  BY <1>1, <1>2, <1>3, <1>4, ExactFloat DEF Exact
<1>7. CASE rotateDirection(r) = "clockwise"
  BY <1>1, <1>3, <1>5, <1>6, <1>7 DEF nextAngle, i
<1>8. CASE rotateDirection(r) # "clockwise"
  BY <1>1, <1>3, <1>5, <1>6, <1>8 DEF nextAngle, i
<1> QED
  BY <1>7, <1>8

LEMMA rotateKeepsSInv == ASSUME IInv, SInv, rotate PROVE SInv'
<1> DEFINE r == request
           ti == timeIncrement(r)
<1>1. /\ pc = "build" /\ r.gesture = "rotate" /\ steps # <<>> /\ turn < count
      /\ offset' = offset + ti
      /\ steps' = moveToNextPoint(steps, nextPoint, offset') /\ turn' = turn + 1
      /\ UNCHANGED <<request, circle, event, finger>>
  BY DEF rotate, begins, nextPoint
<1>2. /\ r \in Request /\ r # NoRequest /\ valid(r) /\ finger \in Nat /\ turn \in Nat
      /\ steps \in Seq(Step) /\ offset \in Int /\ count \in Nat
  BY <1>1, Building
<1>3. CountsDown /\ CountsDown' /\ count > 0 /\ left <= 0
  BY <1>1, Drawing
<1>4. ti \in Int /\ nextPoint \in Coordinate
  BY <1>1, <1>2, <1>3, ClockAdvances, NextPointType
<1>5. Rotates(steps, turn, finger, offset)
  BY <1>1, <1>2 DEF SInv, RotationIsDrawn
<1>6. /\ turn \in Nat /\ turn >= 1 /\ turn - 1 \in Nat /\ finger \in {0, 1} /\ Len(steps) = turn
      /\ offset = (turn - 1) * ti
      /\ turn \in 1 .. turn /\ (turn - 1) + 1 = turn /\ (turn + 1) - 1 = turn
  BY <1>5 DEF Rotates
<1>7. ASSUME NEW j \in 1 .. turn
      PROVE /\ steps[j].at = (j - 1) * ti
            /\ steps[j].point[2] = radius(r)
            /\ Precise(r) => steps[j].point = circlePoint(r, finger, j - 1)
  BY <1>5 DEF Rotates
<1>8. offset' = turn * ti /\ offset' \in Int
  <2>1. ((turn - 1) + 1) * ti = (turn - 1) * ti + ti
    BY <1>4, <1>6, OneMore
  <2> QED
    BY <1>1, <1>2, <1>4, <1>6, <2>1
<1>9. nextPoint[2] = radius(r)
  BY DEF nextPoint
<1>10. ASSUME Precise(r) PROVE nextPoint = circlePoint(r, finger, turn)
  <2>1. turn * increment(r) <= degrees(r)
    <3>1. increment(r) \in Int /\ increment(r) > 0 /\ degrees(r) \in Int
      BY <1>1, <1>2, RotationAdvances, OptionTypes
    <3>2. (count - 1) * increment(r) < degrees(r)
      BY <1>3, <1>10 DEF CountsDown
    <3>3. turn <= count - 1 /\ count - 1 \in Nat
      BY <1>1, <1>2
    <3>4. turn * increment(r) <= (count - 1) * increment(r)
      BY <1>2, <3>1, <3>3, FewerTimes
    <3>5. turn * increment(r) \in Int /\ (count - 1) * increment(r) \in Int
      BY <1>2, <3>1, <3>3, ProductIsInt
    <3> QED
      BY <3>1, <3>2, <3>4, <3>5
  <2>2. steps[Len(steps)].point = circlePoint(r, finger, turn - 1)
    BY <1>6, <1>7, <1>10
  <2>3. nextAngle(r, circlePoint(r, finger, turn - 1)[1]) = circlePoint(r, finger, turn)[1]
    BY <1>1, <1>2, <1>6, <1>10, <2>1, NextOnCircle
  <2> QED
    BY <2>2, <2>3 DEF nextPoint, circlePoint
<1>11. /\ Len(steps') = turn + 1
       /\ \A j \in 1 .. turn : steps'[j] = steps[j]
       /\ steps'[turn + 1] = [at |-> offset', point |-> nextPoint]
  <2> DEFINE e == [at |-> offset', point |-> nextPoint]
  <2>1. e \in Step
    BY <1>4, <1>8 DEF Step
  <2>2. steps' = Append(steps, e)
    BY <1>1 DEF moveToNextPoint
  <2> HIDE DEF e
  <2>3. steps' = Append(steps, e) => /\ Len(steps') = turn + 1
                                     /\ \A j \in 1 .. turn : steps'[j] = steps[j]
                                     /\ steps'[turn + 1] = e
    BY <1>2, <1>6, <2>1
  <2> QED
    BY <2>2, <2>3 DEF e
<1> HIDE DEF ti
<1>12. ASSUME NEW j \in 1 .. turn + 1
       PROVE /\ steps'[j].at = (j - 1) * ti
             /\ steps'[j].point[2] = radius(r)
             /\ Precise(r) => steps'[j].point = circlePoint(r, finger, j - 1)
  <2>1. CASE j = turn + 1
    BY <1>6, <1>8, <1>9, <1>10, <1>11, <2>1
  <2>2. CASE j # turn + 1
    <3>1. j \in 1 .. turn
      BY <1>6, <2>2
    <3> QED
      BY <1>7, <1>11, <3>1
  <2> QED
    BY <2>1, <2>2
<1>13. timeIncrement(r)' = ti /\ count' = count /\ turn' = turn + 1 /\ finger' = finger /\ r' = r
  BY <1>1 DEF timeIncrement, ti
<1>14. turn + 1 \in 1 .. count /\ offset' = ((turn + 1) - 1) * ti
  BY <1>1, <1>2, <1>6, <1>8
<1>15. Rotates(steps, turn, finger, offset)'
  BY <1>6, <1>11, <1>12, <1>13, <1>14 DEF Rotates
<1>16. RotationIsDrawn'
  BY <1>1, <1>2, <1>3, <1>13, <1>15 DEF SInv, RotationIsDrawn, Rotates, ti
<1> QED
  BY <1>1, <1>2, <1>16, OthersAreDrawn

LEMMA liftRotationKeepsSInv == ASSUME IInv, SInv, liftRotation PROVE SInv'
<1> DEFINE r == request
           p == liftUp(finger, 0, steps, offset)
<1>1. /\ pc = "build" /\ r.gesture = "rotate" /\ steps # <<>> /\ turn = count
      /\ event' = Append(event, p) /\ steps' = <<>> /\ UNCHANGED <<request, circle>>
  BY DEF liftRotation, begins, addTouchPath
<1>2. /\ r # NoRequest /\ event \in Seq(Path) /\ p \in Path
  BY <1>1, Building, LiftType
<1>3. p.finger = finger /\ p.steps = steps /\ p.up = offset
  BY DEF liftUp
<1> HIDE DEF p
<1>4. /\ Len(event') = Len(event) + 1 /\ Len(event) \in Nat
      /\ \A i \in 1 .. Len(event) : event'[i] = event[i]
      /\ event'[Len(event) + 1] = p
  BY <1>1, <1>2, AppendedPath
<1>5. Rotates(steps, count, finger, offset)
  BY <1>1, <1>2 DEF SInv, RotationIsDrawn
<1>6. ASSUME NEW i \in 1 .. Len(event')
      PROVE LET q == event'[i] IN Rotates(q.steps, count, q.finger, q.up)
  <2>1. CASE i = Len(event) + 1
    BY <1>3, <1>4, <1>5, <2>1
  <2>2. CASE i # Len(event) + 1
    <3>1. i \in 1 .. Len(event) /\ event'[i] = event[i]
      BY <1>4, <2>2
    <3> QED
      BY <1>1, <1>2, <3>1 DEF SInv, RotationIsDrawn
  <2> QED
    BY <2>1, <2>2
<1>7. CountsDown'
  BY <1>1, Drawing
<1>8. RotationIsDrawn'
  BY <1>1, <1>6, <1>7 DEF RotationIsDrawn, Rotates, timeIncrement
<1> QED
  BY <1>1, <1>2, <1>8, OthersAreDrawn

-------------------------------------------------------------------------------
(* Pinches and taps. *)

LEMMA pinchKeepsSInv == ASSUME IInv, SInv, pinch PROVE SInv'
<1> DEFINE r == request
           d == duration(r)
           center == r.points[1]
           end == shift(center, IF finger = 0 THEN -pinchAmount(r) ELSE pinchAmount(r))
           first == IF pinchDirection(r) = "in" THEN center ELSE end
           last == IF pinchDirection(r) = "in" THEN end ELSE center
           path == moveToNextPoint(withFirstTouchPoint(first, 0), last, d)
           p == liftUp(finger, 0, path, d + Epsilon)
<1>1. /\ pc = "build" /\ r.gesture = "pinch" /\ event' = Append(event, p)
      /\ UNCHANGED request
  BY DEF pinch, begins
<1>2. /\ r \in Request /\ r # NoRequest /\ valid(r) /\ d \in Int
      /\ finger \in Nat /\ event \in Seq(Path)
  BY <1>1, Building
<1>3. center \in Coordinate /\ end \in Coordinate
  <2>1. center \in Coordinate
    BY <1>2, AcceptedPoints
  <2>2. pinchAmount(r) \in Int
    BY <1>2, OptionTypes
  <2> QED
    BY <2>1, <2>2, ShiftType
<1>4. first \in Coordinate /\ last \in Coordinate
  BY <1>3
<1> HIDE DEF first, last
<1>5. Len(path) = 2 /\ path[1].at = 0 /\ path[2].at = d
  BY DEF moveToNextPoint, withFirstTouchPoint
<1>6. path \in Seq(Step)
  <2>1. withFirstTouchPoint(first, 0) \in Seq(Step)
    BY <1>4, FirstPoint
  <2> QED
    BY <1>2, <1>4, <2>1, NextPoint
<1> HIDE DEF path
<1>7. p \in Path /\ p.steps = path /\ p.up = d + Epsilon
  <2>1. d + Epsilon \in Int
    BY <1>2 DEF Epsilon
  <2>2. p \in Path
    BY <1>2, <1>6, <2>1, LiftType
  <2> QED
    BY <2>2 DEF liftUp
<1> HIDE DEF p
<1>8. /\ Len(event') = Len(event) + 1 /\ Len(event) \in Nat
      /\ \A i \in 1 .. Len(event) : event'[i] = event[i]
      /\ event'[Len(event) + 1] = p
  BY <1>1, <1>2, <1>7, AppendedPath
<1>9. ASSUME NEW i \in 1 .. Len(event')
      PROVE LET q == event'[i]
            IN Len(q.steps) = 2 /\ q.steps[1].at = 0 /\ q.steps[2].at = d /\ q.up = d + Epsilon
  <2>1. CASE i = Len(event) + 1
    BY <1>5, <1>7, <1>8, <2>1
  <2>2. CASE i # Len(event) + 1
    BY <1>1, <1>2, <1>8, <2>2 DEF SInv, PinchIsDrawn
  <2> QED
    BY <2>1, <2>2
<1>10. PinchIsDrawn'
  BY <1>1, <1>9 DEF PinchIsDrawn
<1> QED
  BY <1>1, <1>2, <1>10, OthersAreDrawn

LEMMA doubleTapKeepsSInv == ASSUME IInv, SInv, doubleTap PROVE SInv'
<1> DEFINE r == request
           second == offset + Pause
           p == tap(1, 0, r.points[1], 0, offset)
           q == tap(1, 1, r.points[1], second, second + Pause)
<1>1. /\ pc = "build" /\ r.gesture = "double_tap" /\ event' = <<p, q>> /\ UNCHANGED request
  BY DEF doubleTap, begins
<1>2. r # NoRequest
  BY <1>1, Building
<1>3. p.finger = 1 /\ q.finger = 1
  BY DEF tap, liftUp
<1> HIDE DEF p, q
<1>4. \A i \in 1 .. Len(event') : event'[i].finger = 1
  BY <1>1, <1>3
<1>5. TapsAreDrawn'
  BY <1>1, <1>4 DEF TapsAreDrawn
<1> QED
  BY <1>1, <1>2, <1>5, OthersAreDrawn

LEMMA TapSteps ==
    ASSUME NEW k, NEW n, NEW point, NEW down, NEW up
    PROVE /\ tap(k, n, point, down, up).finger = k
          /\ tap(k, n, point, down, up).turn = n
          /\ tap(k, n, point, down, up).up = up
          /\ tap(k, n, point, down, up).steps = <<At(down, point)>>
  BY DEF tap, liftUp, withFirstTouchPoint, At

LEMMA twoFingerTapKeepsSInv == ASSUME IInv, SInv, twoFingerTap PROVE SInv'
<1> DEFINE r == request
           x == FingerWidth \div 2
           p == tap(1, 0, shift(r.points[1], x), 0, offset + Pause)
           q == tap(2, 0, shift(r.points[1], -x), 0, offset + Pause)
           place(k) == <<At(0, shift(r.points[1], IF k = 1 THEN x ELSE -x))>>
<1>1. /\ pc = "build" /\ r.gesture = "two_finger_tap" /\ event' = <<p, q>>
      /\ UNCHANGED <<request, offset>>
  BY DEF twoFingerTap, begins
<1>2. r # NoRequest
  BY <1>1, Building
<1>3. p.finger = 1 /\ p.up = offset + Pause /\ p.steps = place(1)
  BY TapSteps
<1>4. q.finger = 2 /\ q.up = offset + Pause /\ q.steps = place(2)
  BY TapSteps
<1> HIDE DEF p, q
<1>5. \A k : Draws(place(k), 1, place(k))
  BY DEF Draws
<1> HIDE DEF place
<1>6. \A i \in 1 .. Len(event') :
         /\ event'[i].finger \in {1, 2} /\ event'[i].up = offset + Pause
         /\ Draws(event'[i].steps, 1, place(event'[i].finger))
  BY <1>1, <1>3, <1>4, <1>5
<1>7. TapsAreDrawn'
  BY <1>1, <1>6 DEF TapsAreDrawn, place
<1> QED
  BY <1>1, <1>2, <1>7, OthersAreDrawn

LEMMA touchKeepsSInv == ASSUME IInv, SInv, touch PROVE SInv'
<1> DEFINE r == request
           n == numFingers(r)
           at == fingerCoordinates(r.points[1], n)
           down == IF turn = 0 THEN 0 ELSE offset
           up == IF turn = 0 THEN offset ELSE offset + Pause
           taps == [k \in 1 .. n |-> tap(k, turn, at[k], down, up)]
<1>1. /\ pc = "build" /\ r.gesture = "touch" /\ event' = event \o taps /\ UNCHANGED request
  BY DEF touch, begins
<1>2. /\ r \in Request /\ r # NoRequest /\ valid(r) /\ duration(r) \in Int
      /\ offset \in Int /\ turn \in Nat /\ event \in Seq(Path)
  BY <1>1, Building
<1>3. n \in 1 .. 4 /\ r.points[1] \in Coordinate
  BY <1>1, <1>2, AcceptedPoints
<1>4. down \in Int /\ up \in Int
  BY <1>2 DEF Pause
<1> HIDE DEF down, up
<1>5. ASSUME NEW k \in 1 .. n
      PROVE /\ taps[k] \in Path /\ taps[k].finger = k /\ taps[k].turn = turn /\ taps[k].up = up
            /\ taps[k].steps = <<At(down, at[k])>>
  <2>1. k \in Nat /\ at[k] \in Coordinate
    BY <1>3, FingerCoordinatesType
  <2> HIDE DEF at
  <2>2. taps[k] = tap(k, turn, at[k], down, up)
    OBVIOUS
  <2> HIDE DEF taps
  <2> QED
    BY <1>2, <1>4, <2>1, <2>2, TapType, TapSteps
<1>6. taps \in [1 .. n -> Path]
  BY <1>5
<1> HIDE DEF taps, n, at
<1>7. /\ Len(event') = Len(event) + n /\ Len(event) \in Nat
      /\ \A i \in 1 .. Len(event) : event'[i] = event[i]
      /\ \A i \in Len(event) + 1 .. Len(event) + n :
            i - Len(event) \in 1 .. n /\ event'[i] = taps[i - Len(event)]
  <2>1. n \in Nat
    BY <1>3
  <2> QED
    BY <1>1, <1>2, <1>6, <2>1, JoinedPaths
<1>8. ASSUME NEW i \in 1 .. Len(event')
      PROVE \/ i \in 1 .. Len(event) /\ event'[i] = event[i] /\ event[i].turn < turn
            \/ /\ event'[i].turn = turn /\ event'[i].up = up
               /\ event'[i].finger \in 1 .. n
               /\ event'[i].steps = <<At(down, at[event'[i].finger])>>
  <2>1. CASE i \in 1 .. Len(event)
    BY <1>1, <1>2, <1>7, <2>1 DEF IInv, Clock, TouchIsAhead
  <2>2. CASE i \notin 1 .. Len(event)
    <3>1. i - Len(event) \in 1 .. n /\ event'[i] = taps[i - Len(event)]
      BY <1>3, <1>7, <2>2
    <3> QED
      BY <1>5, <3>1
  <2> QED
    BY <2>1, <2>2
<1>9. ASSUME NEW i \in 1 .. Len(event) PROVE event[i].turn \in Nat
  <2>1. event[i] \in Path
    BY <1>2
  <2> QED
    BY <2>1 DEF Path
<1>10. ASSUME NEW i \in 1 .. Len(event')
       PROVE LET p == event'[i]
             IN /\ p.finger \in 1 .. n
                /\ Len(p.steps) = 1
                /\ p.steps[1].point = at[p.finger]
                /\ \A j \in 1 .. Len(event') :
                      event'[j].turn = p.turn =>
                          event'[j].up = p.up /\ event'[j].steps[1].at = p.steps[1].at
  <2>1. CASE i \in 1 .. Len(event) /\ event'[i] = event[i] /\ event[i].turn < turn
    <3>1. /\ event[i].finger \in 1 .. n
          /\ Len(event[i].steps) = 1
          /\ event[i].steps[1].point = at[event[i].finger]
          /\ \A j \in 1 .. Len(event) :
                event[j].turn = event[i].turn =>
                    event[j].up = event[i].up
                    /\ event[j].steps[1].at = event[i].steps[1].at
      BY <1>1, <1>2, <2>1 DEF SInv, TouchIsDrawn, n, at
    <3>2. ASSUME NEW j \in 1 .. Len(event'), event'[j].turn = event[i].turn
          PROVE event'[j].up = event[i].up /\ event'[j].steps[1].at = event[i].steps[1].at
      <4>1. event'[j].turn # turn
        BY <1>2, <1>9, <2>1, <3>2
      <4>2. j \in 1 .. Len(event) /\ event'[j] = event[j]
        BY <1>8, <4>1
      <4> QED
        BY <3>1, <3>2, <4>2
    <3> QED
      BY <2>1, <3>1, <3>2
  <2>2. CASE /\ event'[i].turn = turn /\ event'[i].up = up
             /\ event'[i].finger \in 1 .. n
             /\ event'[i].steps = <<At(down, at[event'[i].finger])>>
    <3>1. /\ Len(event'[i].steps) = 1
          /\ event'[i].steps[1].point = at[event'[i].finger]
          /\ event'[i].steps[1].at = down
      BY <2>2 DEF At
    <3>2. ASSUME NEW j \in 1 .. Len(event'), event'[j].turn = turn
          PROVE event'[j].up = up /\ event'[j].steps[1].at = down
      <4>1. ~(j \in 1 .. Len(event) /\ event'[j] = event[j] /\ event[j].turn < turn)
        BY <1>2, <1>9, <3>2
      <4>2. event'[j].up = up /\ event'[j].steps = <<At(down, at[event'[j].finger])>>
        BY <1>8, <4>1
      <4> QED
        BY <4>2 DEF At
    <3> QED
      BY <2>2, <3>1, <3>2
  <2> QED
    BY <1>8, <2>1, <2>2
<1>11. TouchIsDrawn'
  BY <1>1, <1>10 DEF TouchIsDrawn, n, at
<1> QED
  BY <1>1, <1>2, <1>11, OthersAreDrawn

-------------------------------------------------------------------------------
(* Every step keeps the paths in shape. *)
LEMMA NextSInv == IInv /\ SInv /\ [Next]_vars => SInv'
<1> SUFFICES ASSUME IInv, SInv, [Next]_vars PROVE SInv'
  OBVIOUS
<1>1. ASSUME NEW r \in Request, receive(r) PROVE SInv'
  BY <1>1, receiveKeepsSInv
<1>2. CASE handler
  BY <1>2, touchKeepsSInv, waitingKeepsSInv, doubleTapKeepsSInv, twoFingerTapKeepsSInv,
     pinchKeepsSInv, beginDragKeepsSInv, dragToCoordinateKeepsSInv, liftDragKeepsSInv,
     countDownKeepsSInv, beginRotationKeepsSInv, rotateKeepsSInv, liftRotationKeepsSInv DEF handler
<1>3. CASE synthesize \/ UNCHANGED vars
  BY <1>3, waitingKeepsSInv
<1> QED
  BY <1>1, <1>2, <1>3 DEF Next

LEMMA Shapes == Spec => [](IInv /\ SInv)
  BY InitIInv, SInvInit, NextIInv, NextSInv, PTL DEF Spec

-------------------------------------------------------------------------------
(* The fingers move together.                                              *)

(* What is known of a path that is complete. *)
LEMMA Built ==
    ASSUME IInv, NEW i \in 1 .. Len(event)
    PROVE /\ request \in Request /\ request # NoRequest /\ valid(request)
          /\ event[i] \in Path
<1>1. event \in Seq(Path) /\ event[i] \in Path
  BY DEF IInv, TypeOK
<1>2. event # <<>>
  BY <1>1
<1>3. request \in Request /\ request # NoRequest
  BY <1>2 DEF IInv, TypeOK, Clock, IdleIsEmpty
<1> QED
  BY <1>1, <1>3 DEF IInv, Clock, BuiltIsValid

(* Two points at the same height, as far apart as two fingers. *)
Beside(p, q) ==
    p[2] = q[2] /\ (p[1] - q[1] >= FingerWidth \/ q[1] - p[1] >= FingerWidth)

LEMMA ShiftedApart ==
    ASSUME NEW c \in Coordinate, NEW x \in Int, NEW y \in Int,
           x - y >= FingerWidth \/ y - x >= FingerWidth
    PROVE Beside(shift(c, x), shift(c, y))
  BY DEF Beside, shift, Coordinate, FingerWidth

LEMMA FingerOffsets ==
    /\ fingerOffsetForFingerIndex(0) = 0
    /\ fingerOffsetForFingerIndex(1) = FingerWidth
    /\ fingerOffsetForFingerIndex(2) = -FingerWidth
    /\ fingerOffsetForFingerIndex(3) = 2 * FingerWidth
    /\ fingerOffsetForFingerIndex(4) = -2 * FingerWidth
  BY DEF fingerOffsetForFingerIndex, FingerWidth

LEMMA DragFingersApart ==
    ASSUME NEW k \in 0 .. 4, NEW m \in 0 .. 4, k # m
    PROVE LET x == fingerOffsetForFingerIndex(k) y == fingerOffsetForFingerIndex(m)
          IN x - y >= FingerWidth \/ y - x >= FingerWidth
<1>1. k \in {0, 1, 2, 3, 4} /\ m \in {0, 1, 2, 3, 4}
  OBVIOUS
<1> QED
  BY <1>1, FingerOffsets DEF FingerWidth

(* A step of a drag is on one of its coordinates, or near the last. *)
LEMMA DragPlaceType ==
    ASSUME NEW r \in Request, valid(r), r.gesture = "drag", NEW j \in Nat, j > 0
    PROVE dragPlace(r, j) \in Coordinate
<1> DEFINE n == Len(r.points)
<1>1. /\ n \in Nat /\ n >= 2 /\ holds(r) \in {0, 1}
      /\ \A i \in 1 .. n : r.points[i] \in Coordinate
  BY DragFacts
<1>2. r.points[1] \in Coordinate /\ r.points[n] \in Coordinate /\ r.points[n - 1] \in Coordinate
  BY <1>1
<1>3. haltPoint(r.points[n], r.points[n - 1]) \in Coordinate
  BY <1>2, HaltPointType
<1>4. ASSUME j # 1, j < lastMove(r) \/ j = lastMove(r) PROVE r.points[j - holds(r)] \in Coordinate
  <2>1. j - holds(r) \in 1 .. n
    BY <1>1, <1>4 DEF lastMove
  <2> QED
    BY <1>1, <2>1
<1> QED
  BY <1>2, <1>3, <1>4 DEF dragPlace

LEMMA DraggedType ==
    ASSUME NEW r \in Request, valid(r), r.gesture = "drag", NEW t \in Nat
    PROVE dragged(r, t) \in Nat /\ dragged(r, t) >= 1
<1>1. holds(r) \in {0, 1}
  BY DragFacts
<1> QED
  BY <1>1 DEF dragged

(* What FingersMoveTogether says of two paths. *)
Together(p, q) ==
    /\ p.up = q.up
    /\ Len(p.steps) = Len(q.steps)
    /\ \A k \in 1 .. Len(p.steps) :
          p.steps[k].at = q.steps[k].at /\ Apart(p.steps[k].point, q.steps[k].point)

LEMMA DragsMoveTogether ==
    ASSUME IInv, SInv, request.gesture = "drag",
           NEW i \in 1 .. Len(event), NEW j \in 1 .. Len(event),
           event[i].finger # event[j].finger
    PROVE Together(event[i], event[j])
<1> DEFINE r == request
           k == event[i].finger
           l == event[j].finger
           m == dragged(r, Len(r.points))
<1>1. r \in Request /\ r # NoRequest /\ valid(r) /\ k \in Nat /\ l \in Nat
  BY Built DEF Path
<1>2. /\ k < numFingers(r) /\ Draws(event[i].steps, m, dragSteps(r, k)) /\ event[i].up = dragTime(r, m)
      /\ l < numFingers(r) /\ Draws(event[j].steps, m, dragSteps(r, l)) /\ event[j].up = dragTime(r, m)
  BY <1>1 DEF SInv, DragIsDrawn
<1>3. k \in 0 .. 4 /\ l \in 0 .. 4 /\ k # l
  <2>1. numFingers(r) \in 1 .. 5
    BY <1>1, DragFacts
  <2> QED
    BY <1>1, <1>2, <2>1
<1>4. m \in Nat
  <2>1. Len(r.points) \in Nat
    BY <1>1, DragFacts
  <2> QED
    BY <1>1, <2>1, DraggedType
<1> HIDE DEF m
<1>5. ASSUME NEW s \in 1 .. m
      PROVE /\ event[i].steps[s].at = event[j].steps[s].at
            /\ Apart(event[i].steps[s].point, event[j].steps[s].point)
  <2> DEFINE x == fingerOffsetForFingerIndex(k)
             y == fingerOffsetForFingerIndex(l)
             c == dragPlace(r, s)
  <2>1. s \in Nat /\ s > 0
    BY <1>4
  <2>2. /\ event[i].steps[s] = At(dragTime(r, s), shift(c, x))
        /\ event[j].steps[s] = At(dragTime(r, s), shift(c, y))
    BY <1>2, <2>1, DragStepAt DEF Draws
  <2>3. c \in Coordinate /\ x \in Int /\ y \in Int
    BY <1>1, <2>1, DragPlaceType, FingerOffsetType
  <2>4. x - y >= FingerWidth \/ y - x >= FingerWidth
    BY <1>3, DragFingersApart
  <2>5. Beside(shift(c, x), shift(c, y))
    BY <2>3, <2>4, ShiftedApart
  <2>6. event[i].steps[s].point = shift(c, x) /\ event[j].steps[s].point = shift(c, y)
    BY <2>2 DEF At
  <2>7. event[i].steps[s].at = event[j].steps[s].at
    BY <2>2 DEF At
  <2> QED
    BY Zenon, <2>5, <2>6, <2>7 DEF Apart, Beside
<1> QED
  BY <1>2, <1>5 DEF Together, Draws

(* The two ends of a diameter. *)
LEMMA OppositePoints ==
    ASSUME NEW r \in Request, valid(r), r.gesture = "rotate", NEW n \in Nat
    PROVE LET p == circlePoint(r, 0, n) q == circlePoint(r, 1, n)
          IN /\ p[1] - q[1] = 4 * 180 /\ q[1] - p[1] = -4 * 180
             /\ p[2] = q[2]
<1> DEFINE turned == n * increment(r)
<1>1. rotationStart(r) \in Int /\ turned \in Int
  BY OptionTypes, RotationAdvances, ProductIsInt
<1> HIDE DEF turned
<1>2. /\ circlePoint(r, 0, n)
            = <<IF rotateDirection(r) = "clockwise" THEN rotationStart(r) + turned
                ELSE rotationStart(r) - turned, radius(r)>>
      /\ circlePoint(r, 1, n)
            = <<IF rotateDirection(r) = "clockwise" THEN rotationStart(r) - 4 * 180 + turned
                ELSE rotationStart(r) - 4 * 180 - turned, radius(r)>>
  BY DEF circlePoint, startAngle, turned
<1> QED
  BY <1>1, <1>2

LEMMA RotationsMoveTogether ==
    ASSUME IInv, SInv, request.gesture = "rotate",
           NEW i \in 1 .. Len(event), NEW j \in 1 .. Len(event),
           event[i].finger # event[j].finger
    PROVE Together(event[i], event[j])
<1> DEFINE r == request
           k == event[i].finger
           l == event[j].finger
<1>1. r \in Request /\ r # NoRequest /\ valid(r) /\ count \in Nat
  BY Built DEF IInv, TypeOK
<1>2. /\ Rotates(event[i].steps, count, k, event[i].up)
      /\ Rotates(event[j].steps, count, l, event[j].up)
  BY <1>1 DEF SInv, RotationIsDrawn
<1>3. /\ Len(event[i].steps) = count /\ Len(event[j].steps) = count
      /\ event[i].up = event[j].up
  BY <1>2 DEF Rotates
<1>4. k \in {0, 1} /\ l \in {0, 1} /\ k # l
  BY <1>2 DEF Rotates
<1>5. ASSUME NEW s \in 1 .. count
      PROVE /\ event[i].steps[s].at = event[j].steps[s].at
            /\ Apart(event[i].steps[s].point, event[j].steps[s].point)
  <2> DEFINE p == event[i].steps[s].point
             q == event[j].steps[s].point
  <2>1. /\ event[i].steps[s].at = event[j].steps[s].at
        /\ p[2] = radius(r) /\ q[2] = radius(r)
        /\ Precise(r) => p = circlePoint(r, k, s - 1) /\ q = circlePoint(r, l, s - 1)
    BY <1>2 DEF Rotates
  <2>2. ASSUME Precise(r) PROVE p[1] - q[1] \in {4 * 180, -4 * 180}
    <3>1. s - 1 \in Nat
      BY <1>1
    <3>2. CASE k = 0 /\ l = 1
      BY <1>1, <2>1, <2>2, <3>1, <3>2, OppositePoints
    <3>3. CASE k = 1 /\ l = 0
      BY <1>1, <2>1, <2>2, <3>1, <3>3, OppositePoints
    <3> QED
      BY <1>4, <3>2, <3>3
  <2> HIDE DEF p, q
  <2>3. Apart(p, q)
    BY <2>1, <2>2 DEF Apart
  <2> QED
    BY <2>1, <2>3 DEF p, q
<1> QED
  BY <1>3, <1>5 DEF Together

LEMMA PinchesMoveTogether ==
    ASSUME IInv, SInv, request.gesture = "pinch",
           NEW i \in 1 .. Len(event), NEW j \in 1 .. Len(event)
    PROVE Together(event[i], event[j])
<1>1. request # NoRequest
  BY Built
<1>2. ASSUME NEW x \in {i, j}
      PROVE /\ Len(event[x].steps) = 2
            /\ event[x].steps[1].at = 0 /\ event[x].steps[2].at = duration(request)
            /\ event[x].up = duration(request) + Epsilon
  BY <1>1 DEF SInv, PinchIsDrawn
<1>3. \A s \in 1 .. 2 : event[i].steps[s].at = event[j].steps[s].at
  <2>1. \A s \in 1 .. 2 : s = 1 \/ s = 2
    OBVIOUS
  <2> QED
    BY <1>2, <2>1
<1>4. \A p, q : Apart(p, q)
  BY DEF Apart
<1> QED
  BY <1>2, <1>3, <1>4 DEF Together

(* Two paths of one point, at the same time and beside each other. *)
LEMMA OnePointTogether ==
    ASSUME request.gesture \in {"touch", "two_finger_tap"},
           NEW p, NEW q, NEW s, NEW t, p.steps = <<s>>, q.steps = <<t>>,
           s.at = t.at, p.up = q.up, Beside(s.point, t.point)
    PROVE Together(p, q)
<1>1. Apart(s.point, t.point)
  BY Zenon DEF Apart, Beside
<1> QED
  BY <1>1 DEF Together

LEMMA TwoFingersTapTogether ==
    ASSUME IInv, SInv, request.gesture = "two_finger_tap",
           NEW i \in 1 .. Len(event), NEW j \in 1 .. Len(event),
           event[i].finger # event[j].finger
    PROVE Together(event[i], event[j])
<1> DEFINE x == FingerWidth \div 2
           c == request.points[1]
           place(k) == At(0, shift(c, IF k = 1 THEN x ELSE -x))
<1>1. /\ request \in Request /\ request # NoRequest /\ valid(request)
      /\ event[i] \in Path /\ event[j] \in Path
  BY Built
<1>2. ASSUME NEW y \in {i, j}
      PROVE /\ event[y].finger \in {1, 2} /\ event[y].up = offset + Pause
            /\ Draws(event[y].steps, 1, <<place(event[y].finger)>>)
  BY <1>1 DEF SInv, TapsAreDrawn
<1> HIDE DEF place
<1>3. ASSUME NEW y \in {i, j} PROVE event[y].steps = <<place(event[y].finger)>>
  <2>1. event[y].steps \in Seq(Step)
    BY <1>1 DEF Path
  <2>2. Len(event[y].steps) = 1 /\ event[y].steps[1] = place(event[y].finger)
    BY <1>2 DEF Draws
  <2> QED
    BY <2>1, <2>2
<1>4. c \in Coordinate /\ x \in Int /\ -x \in Int /\ x - (-x) >= FingerWidth
  BY <1>1, AcceptedPoints DEF FingerWidth
<1>5. Beside(shift(c, x), shift(c, -x)) /\ Beside(shift(c, -x), shift(c, x))
  BY <1>4, ShiftedApart
<1>6. /\ place(1).at = place(2).at
      /\ place(1).point = shift(c, x) /\ place(2).point = shift(c, -x)
  BY DEF place, At
<1>7. event[i].up = event[j].up
  BY <1>2
<1>8. CASE event[i].finger = 1 /\ event[j].finger = 2
  BY <1>3, <1>5, <1>6, <1>7, <1>8, OnePointTogether
<1>9. CASE event[i].finger = 2 /\ event[j].finger = 1
  BY <1>3, <1>5, <1>6, <1>7, <1>9, OnePointTogether
<1> QED
  BY <1>2, <1>8, <1>9

LEMMA TouchesApart ==
    ASSUME NEW c \in Coordinate, NEW n \in 1 .. 4, NEW k \in 1 .. n, NEW l \in 1 .. n, k # l
    PROVE Beside(fingerCoordinates(c, n)[k], fingerCoordinates(c, n)[l])
<1> DEFINE x == (FingerWidth \div 2) * (2 * k - n - 1)
           y == (FingerWidth \div 2) * (2 * l - n - 1)
<1>1. fingerCoordinates(c, n)[k] = shift(c, x) /\ fingerCoordinates(c, n)[l] = shift(c, y)
  BY DEF fingerCoordinates
<1>2. x \in Int /\ y \in Int /\ (x - y >= FingerWidth \/ y - x >= FingerWidth)
  BY DEF FingerWidth
<1> HIDE DEF x, y
<1> QED
  BY <1>1, <1>2, ShiftedApart

LEMMA TouchesComeTogether ==
    ASSUME IInv, SInv, request.gesture = "touch",
           NEW i \in 1 .. Len(event), NEW j \in 1 .. Len(event),
           event[i].finger # event[j].finger, event[i].turn = event[j].turn
    PROVE Together(event[i], event[j])
<1> DEFINE c == request.points[1]
           n == numFingers(request)
<1>1. /\ request \in Request /\ request # NoRequest /\ valid(request)
      /\ event[i] \in Path /\ event[j] \in Path
  BY Built
<1>2. ASSUME NEW y \in {i, j}
      PROVE /\ event[y].finger \in 1 .. n /\ Len(event[y].steps) = 1
            /\ event[y].steps[1].point = fingerCoordinates(c, n)[event[y].finger]
  BY <1>1 DEF SInv, TouchIsDrawn
<1>3. event[i].up = event[j].up /\ event[i].steps[1].at = event[j].steps[1].at
  BY <1>1 DEF SInv, TouchIsDrawn
<1>4. ASSUME NEW y \in {i, j} PROVE event[y].steps = <<event[y].steps[1]>>
  <2>1. event[y].steps \in Seq(Step)
    BY <1>1 DEF Path
  <2> QED
    BY <1>2, <2>1
<1>5. c \in Coordinate /\ n \in 1 .. 4
  BY <1>1, AcceptedPoints
<1> HIDE DEF c, n
<1>6. Beside(event[i].steps[1].point, event[j].steps[1].point)
  BY <1>2, <1>5, TouchesApart
<1> QED
  BY <1>3, <1>4, <1>6, OnePointTogether

(* Whatever the gesture and its options, its fingers touch, move and lift   *)
(* at the same moments, and none comes nearer to another than it began.     *)
THEOREM FingersStayTogether == Spec => []FingersMoveTogether
<1>1. ASSUME IInv, SInv PROVE FingersMoveTogether
  <2> SUFFICES ASSUME NEW i \in 1 .. Len(event), NEW j \in 1 .. Len(event),
                      event[i].finger # event[j].finger, event[i].turn = event[j].turn
               PROVE Together(event[i], event[j])
    BY DEF FingersMoveTogether, Together
  <2>1. request \in Request /\ request # NoRequest /\ valid(request)
    BY <1>1, Built
  <2>2. request.gesture \in {"touch", "double_tap", "two_finger_tap", "drag", "pinch", "rotate"}
    BY <2>1, AcceptedPoints
  <2>3. request.gesture # "double_tap"
    BY <1>1, <2>1 DEF SInv, TapsAreDrawn
  <2> QED
    BY <1>1, <2>2, <2>3, DragsMoveTogether, RotationsMoveTogether, PinchesMoveTogether,
       TwoFingersTapTogether, TouchesComeTogether
<1>2. IInv /\ SInv => FingersMoveTogether
  BY <1>1
<1> QED
  BY <1>2, Shapes, PTL

-------------------------------------------------------------------------------
(* What is sent for a drag.                                                *)

(* A coordinate that was done is where the finger was. *)
LEMMA CoordinateIsPassed ==
    ASSUME NEW r \in Request, valid(r), r.gesture = "drag", NEW t \in 1 .. Len(r.points)
    PROVE dragPlace(r, dragged(r, t)) = r.points[t]
<1> DEFINE n == Len(r.points)
<1>1. n \in Nat /\ n >= 2 /\ holds(r) \in {0, 1} /\ t \in Nat /\ t >= 1 /\ t <= n
  BY DragFacts
<1>2. CASE t = n /\ ~allowDragToHaveInertia(r)
  BY <1>2, DragHalts
<1>3. CASE ~(t = n /\ ~allowDragToHaveInertia(r)) /\ (t > 1 \/ holds(r) = 1)
  <2>1. /\ t - 1 \in Nat /\ t - 1 < n /\ (t - 1) + 1 = t
        /\ t - 1 > 0 \/ holds(r) = 1
        /\ (t - 1) + 1 < n \/ allowDragToHaveInertia(r)
    BY <1>1, <1>3
  <2> DEFINE u == t - 1
  <2> HIDE DEF u
  <2>2. u \in Nat /\ u < n /\ u + 1 = t /\ (u > 0 \/ holds(r) = 1)
        /\ (u + 1 < n \/ allowDragToHaveInertia(r))
    BY <2>1 DEF u
  <2>3. dragPlace(r, u + holds(r) + 1) = r.points[u + 1] /\ dragged(r, u + 1) = u + holds(r) + 1
    BY <2>2, DragsOn
  <2> QED
    BY <2>2, <2>3
<1>4. CASE t = 1 /\ holds(r) = 0
  <2>1. t # n
    <3>1. n \in Int /\ t \in Int /\ t < n
      BY <1>1, <1>4
    <3> HIDE DEF n
    <3> QED
      BY <3>1
  <2>2. t # 0 /\ t + holds(r) = 1
    BY <1>4
  <2>3. dragged(r, t) = 1
    BY Zenon, <2>1, <2>2 DEF dragged
  <2> QED
    BY <1>4, <2>3 DEF dragPlace
<1> QED
  BY <1>1, <1>2, <1>3, <1>4

LEMMA NextIsLater ==
    ASSUME NEW r \in Request, valid(r), r.gesture = "drag", NEW t \in 1 .. Len(r.points) - 1
    PROVE dragged(r, t) < dragged(r, t + 1)
<1> DEFINE n == Len(r.points)
<1>1. n \in Nat /\ holds(r) \in {0, 1} /\ t \in Nat /\ t > 0 /\ t < n
  BY DragFacts
<1> HIDE DEF n
<1>2. dragged(r, t) = t + holds(r)
  BY <1>1 DEF dragged, n
<1>3. dragged(r, t + 1) \in {t + 1 + holds(r), t + 1 + holds(r) + 1}
  BY <1>1 DEF dragged
<1> QED
  BY <1>1, <1>2, <1>3

(* From the first coordinate to the last a finger takes the duration, and   *)
(* more if there are others between them.                                   *)
LEMMA LastIsLater ==
    ASSUME NEW r \in Request, valid(r), r.gesture = "drag", duration(r) >= 0
    PROVE  LET last == dragged(r, Len(r.points))
           IN dragTime(r, last) - dragTime(r, dragged(r, 1)) >= duration(r)
<1> DEFINE n == Len(r.points)
           d == duration(r)
           h == holds(r)
           way == (n - 1) * d
           all == (lastMove(r) - 1) * d
<1>1. /\ n \in Nat /\ n >= 2 /\ h \in {0, 1} /\ d \in Nat /\ holdTime(r) \in Int
      /\ h = 0 => holdTime(r) = 0
  BY DragFacts DEF holds, holdTime
<1>2. way \in Int /\ way >= d
  <2>1. 1 \in Nat /\ n - 1 \in Nat /\ 1 <= n - 1 /\ 1 * d = d
    BY <1>1, OneIsAll
  <2>2. 1 * d <= (n - 1) * d
    BY <1>1, <2>1, FewerTimes
  <2>3. (n - 1) * d \in Int
    BY <1>1, <2>1, ProductIsInt
  <2> QED
    BY <2>1, <2>2, <2>3
<1>3. all = IF h = 0 THEN way ELSE way + d
  <2>1. CASE h = 0
    <3>1. lastMove(r) - 1 = n - 1
      BY <1>1, <2>1 DEF lastMove
    <3> QED
      BY <2>1, <3>1
  <2>2. CASE h = 1
    <3>1. lastMove(r) - 1 = (n - 1) + 1 /\ n - 1 \in Int
      BY <1>1, <2>2 DEF lastMove
    <3>2. ((n - 1) + 1) * d = way + d
      BY <1>1, <3>1, OneMore
    <3> QED
      BY <2>2, <3>1, <3>2
  <2> QED
    BY <1>1, <2>1, <2>2
<1>4. dragTime(r, dragged(r, n)) >= all + holdTime(r)
  <2>1. n # 0 /\ n + h = lastMove(r) /\ lastMove(r) \in Nat /\ lastMove(r) >= 2
    BY <1>1 DEF lastMove
  <2>2. all + holdTime(r) \in Int
    BY <1>1, <1>2, <1>3
  <2> HIDE DEF all
  <2>3. CASE allowDragToHaveInertia(r)
    <3>1. dragged(r, n) = lastMove(r)
      BY <2>1, <2>3 DEF dragged
    <3> QED
      BY <2>1, <2>2, <3>1 DEF dragTime, all
  <2>4. CASE ~allowDragToHaveInertia(r)
    <3>1. dragged(r, n) = lastMove(r) + 1
      BY <2>1, <2>4 DEF dragged
    <3>2. dragTime(r, lastMove(r) + 1) = all + holdTime(r) + HaltTime
      BY <2>1 DEF dragTime, all
    <3> QED
      BY <2>2, <3>1, <3>2 DEF HaltTime
  <2> QED
    BY <2>3, <2>4
<1>5. dragTime(r, dragged(r, 1)) = IF h = 0 THEN 0 ELSE d + holdTime(r)
  <2>1. dragged(r, 1) = 1 + h
    <3>1. 1 # n
      <4>1. n \in Int /\ 1 < n
        BY <1>1
      <4> HIDE DEF n
      <4> QED
        BY <4>1
    <3> QED
      BY <3>1 DEF dragged
  <2>2. CASE h = 0
    BY <2>1, <2>2 DEF dragTime
  <2>3. CASE h = 1
    <3>1. 1 + h = 2 /\ 2 <= lastMove(r)
      BY <1>1, <2>3 DEF lastMove
    <3>2. (2 - 1) * d = d
      BY <1>1, OneIsAll
    <3> QED
      BY <2>1, <2>3, <3>1, <3>2 DEF dragTime
  <2> QED
    BY <1>1, <2>2, <2>3
<1>6. dragTime(r, dragged(r, n)) \in Int
  <2>1. all \in Int
    BY <1>1, <1>2, <1>3
  <2>2. dragged(r, n) \in {lastMove(r), lastMove(r) + 1} /\ lastMove(r) \in Nat /\ lastMove(r) >= 2
    BY <1>1 DEF dragged, lastMove
  <2>3. dragTime(r, dragged(r, n)) \in {all + holdTime(r), all + holdTime(r) + HaltTime}
    BY <2>2 DEF dragTime
  <2> HIDE DEF all
  <2> QED
    BY <1>1, <2>1, <2>3 DEF HaltTime
<1> DEFINE end == dragTime(r, dragged(r, n))
           begin == dragTime(r, dragged(r, 1))
<1> HIDE DEF way, all, h, d, end, begin
<1>7. end - begin >= d
  BY <1>1, <1>2, <1>3, <1>4, <1>5, <1>6 DEF end, begin
<1> QED
  BY <1>7 DEF end, begin, d

(* The finger leaves the first coordinate when it has been held there. *)
LEMMA FirstIsHeld ==
    ASSUME NEW r \in Request, valid(r), r.gesture = "drag", duration(r) >= 0
    PROVE dragTime(r, dragged(r, 1)) >= dragFirstTouchHoldDuration(r)
<1> DEFINE n == Len(r.points)
           hold == dragFirstTouchHoldDuration(r)
<1>1. /\ n \in Nat /\ n >= 2 /\ holds(r) \in {0, 1} /\ duration(r) \in Int /\ hold \in Int
      /\ holds(r) = 1 <=> hold > 0
  BY DragFacts
<1>2. CASE holds(r) = 1
  <2>1. /\ 0 \in Nat /\ 0 < n /\ 0 + 1 < n /\ 0 + holds(r) + 1 = 2 /\ 0 + 1 = 1
    BY <1>1, <1>2
  <2>2. /\ dragTime(r, 0 + holds(r) + 1)
              = dragTime(r, dragged(r, 0)) + duration(r) + (IF 0 = 0 THEN hold ELSE 0)
        /\ dragged(r, 0 + 1) = 0 + holds(r) + 1
    BY <1>2, <2>1, DragsOn
  <2>3. dragged(r, 0) = 1 /\ dragTime(r, 1) = 0
    BY DEF dragged, dragTime
  <2>4. dragged(r, 1) = 2 /\ dragTime(r, 2) = duration(r) + hold
    BY <1>1, <2>1, <2>2, <2>3
  <2> QED
    BY <1>1, <2>4
<1>3. CASE holds(r) = 0
  <2>1. 1 # n
    <3>1. n \in Int /\ 1 < n
      BY <1>1
    <3> HIDE DEF n
    <3> QED
      BY <3>1
  <2>2. 1 + holds(r) = 1 /\ 1 # 0
    BY <1>3
  <2>3. dragged(r, 1) = 1
    BY Zenon, <2>1, <2>2 DEF dragged
  <2>4. dragTime(r, 1) = 0
    BY DEF dragTime
  <2> QED
    BY <1>1, <1>3, <2>3, <2>4
<1> QED
  BY <1>1, <1>2, <1>3

(* The halt is no further from the last coordinate than it should be. *)
LEMMA HaltIsNear ==
    ASSUME NEW a \in Coordinate, NEW b \in Coordinate, NEW dx \in Int, NEW c \in {1, 2}
    PROVE shift(a, dx)[c] - shift(haltPoint(a, b), dx)[c] \in -HaltDistance .. HaltDistance
<1>1. \A x, y \in Int : beyond(x, y) \in Int /\ y - beyond(x, y) \in -HaltDistance .. HaltDistance
  BY DEF beyond, HaltDistance
<1>2. a[1] \in Int /\ a[2] \in Int /\ b[1] \in Int /\ b[2] \in Int
  BY DEF Coordinate
<1>3. haltPoint(a, b) = <<beyond(b[1], a[1]), beyond(b[2], a[2])>>
  BY DEF haltPoint
<1> DEFINE x == beyond(b[1], a[1])
           y == beyond(b[2], a[2])
<1>4. /\ x \in Int /\ a[1] - x \in -HaltDistance .. HaltDistance
      /\ y \in Int /\ a[2] - y \in -HaltDistance .. HaltDistance
  BY <1>1, <1>2
<1> HIDE DEF x, y
<1>5. shift(a, dx) = <<a[1] + dx, a[2]>> /\ shift(haltPoint(a, b), dx) = <<x + dx, y>>
  BY <1>3 DEF shift, x, y
<1> QED
  BY <1>2, <1>4, <1>5 DEF HaltDistance

(* Whatever the coordinates, the fingers and the options, a finger of a     *)
(* drag that is sent passes each coordinate in turn, is held at the first   *)
(* and moves to the last no shorter than it was asked, and ends there, where *)
(* it rests if there is no inertia.                                         *)
THEOREM DragsPassThrough == Spec => []DragPassesThrough
<1>1. ASSUME IInv, SInv, request.gesture = "drag", NEW i \in 1 .. Len(event)
      PROVE LET p == event[i] points == request.points
            IN /\ \E f \in [1 .. Len(points) -> 1 .. Len(p.steps)] : PassesAt(p, points, f)
               /\ allowDragToHaveInertia(request) \/ RestsAtTheEnd(p)
  <2> DEFINE r == request
             p == event[i]
             k == p.finger
             n == Len(r.points)
             m == dragged(r, n)
             dx == fingerOffsetForFingerIndex(k)
             f == [t \in 1 .. n |-> dragged(r, t)]
  <2>1. r \in Request /\ r # NoRequest /\ valid(r) /\ p.finger \in Nat
    BY <1>1, Built DEF Path
  <2>2. /\ n \in Nat /\ n >= 2 /\ n \in 1 .. n /\ 1 \in 1 .. n /\ duration(r) \in Int
        /\ \A t \in 1 .. n : r.points[t] \in Coordinate
    BY <1>1, <2>1, DragFacts
  <2>3. Len(p.steps) = m /\ \A j \in 1 .. m : p.steps[j] = dragSteps(r, k)[j]
    BY <1>1, <2>1 DEF SInv, DragIsDrawn, Draws
  <2>4. m \in Nat /\ m >= 1
    BY <1>1, <2>1, <2>2, DraggedType
  <2> HIDE DEF m
  <2>5. ASSUME NEW j \in 1 .. m
        PROVE p.steps[j].at = dragTime(r, j) /\ p.steps[j].point = shift(dragPlace(r, j), dx)
    <3>1. p.steps[j] = At(dragTime(r, j), shift(dragPlace(r, j), dx))
      BY <2>3, <2>4, DragStepAt
    <3> QED
      BY <3>1 DEF At
  <2>6. dx \in Int
    BY <2>1, FingerOffsetType
  <2> HIDE DEF dx, n
  <2>7. \A t \in 1 .. n : dragged(r, t) \in 1 .. m
    <3>1. ASSUME NEW t \in 1 .. n PROVE dragged(r, t) \in Nat /\ dragged(r, t) >= 1
      <4>1. t \in Nat
        BY <2>2
      <4> QED
        BY <1>1, <2>1, <4>1, DraggedType
    <3>2. ASSUME NEW t \in 1 .. n PROVE dragged(r, t) <= m
      <4>1. holds(r) \in {0, 1}
        BY <1>1, <2>1, DragFacts
      <4>2. CASE t = n
        BY <2>4, <4>2 DEF m
      <4>3. CASE t # n
        <5>1. t # 0 /\ n # 0
          BY <2>2
        <5>2. dragged(r, t) = t + holds(r)
          BY Zenon, <4>3, <5>1 DEF dragged, n
        <5>3. m \in {n + holds(r), n + holds(r) + 1}
          BY <5>1 DEF dragged, n, m
        <5> QED
          BY <2>2, <4>1, <5>2, <5>3
      <4> QED
        BY <4>2, <4>3
    <3> QED
      BY <2>4, <3>1, <3>2
  <2>8. f \in [1 .. n -> 1 .. Len(p.steps)]
    BY <2>3, <2>7
  <2>9. p.steps[1].point[1] - r.points[1][1] = dx
    <3>1. p.steps[1].point = shift(r.points[1], dx)
      <4>1. dragPlace(r, 1) = r.points[1] /\ 1 \in 1 .. m
        BY <2>4 DEF dragPlace
      <4> QED
        BY <2>5, <4>1
    <3>2. r.points[1] \in Coordinate
      BY <2>2
    <3> QED
      BY <2>6, <3>1, <3>2 DEF shift, Coordinate
  <2>10. ASSUME NEW t \in 1 .. n
         PROVE /\ p.steps[f[t]].point = shift(r.points[t], dx)
               /\ p.steps[f[t]].at = dragTime(r, dragged(r, t))
    <3>1. f[t] = dragged(r, t) /\ f[t] \in 1 .. m
      BY <2>7
    <3> HIDE DEF f
    <3>2. dragPlace(r, dragged(r, t)) = r.points[t]
      BY <1>1, <2>1, CoordinateIsPassed DEF n
    <3> QED
      BY <2>5, <3>1, <3>2
  <2>11. ASSUME NEW t \in 1 .. n - 1
         PROVE f[t] < f[t + 1]
    <3>1. dragged(r, t) < dragged(r, t + 1)
      BY <1>1, <2>1, NextIsLater DEF n
    <3>2. t \in 1 .. n /\ t + 1 \in 1 .. n
      BY <2>2
    <3> QED
      BY <3>1, <3>2
  <2>12. f[n] = Len(p.steps)
    BY <2>2, <2>3 DEF m, n
  <2>13. duration(r) >= 0 => p.steps[f[1]].at >= dragFirstTouchHoldDuration(r)
    <3>1. p.steps[f[1]].at = dragTime(r, dragged(r, 1))
      BY <2>2, <2>10
    <3> HIDE DEF f
    <3> QED
      BY <1>1, <2>1, <3>1, FirstIsHeld
  <2>14. duration(r) >= 0 => p.steps[f[n]].at - p.steps[f[1]].at >= duration(r)
    <3>1. /\ p.steps[f[n]].at = dragTime(r, dragged(r, n))
          /\ p.steps[f[1]].at = dragTime(r, dragged(r, 1))
      BY <2>2, <2>10
    <3> HIDE DEF f
    <3> QED
      BY <1>1, <2>1, <3>1, LastIsLater DEF n
  <2> HIDE DEF f
  <2>15. PassesAt(p, r.points, f)
    BY <2>9, <2>10, <2>11, <2>12, <2>13, <2>14 DEF PassesAt, n
  <2>16. ASSUME ~allowDragToHaveInertia(r) PROVE RestsAtTheEnd(p)
    <3> DEFINE j == lastMove(r)
               a == r.points[n]
               b == r.points[n - 1]
    <3>1. /\ j \in Nat /\ j > 1 /\ m = j + 1
          /\ dragPlace(r, j) = haltPoint(a, b) /\ dragPlace(r, j + 1) = a
          /\ dragTime(r, j + 1) = dragTime(r, j) + HaltTime
      BY <1>1, <2>1, <2>16, DragHalts DEF n, m
    <3>2. j \in 1 .. m /\ j + 1 \in 1 .. m /\ m - 1 = j
      BY <3>1
    <3> HIDE DEF j
    <3>3. /\ p.steps[j + 1].point = shift(a, dx)
          /\ p.steps[j].point = shift(haltPoint(a, b), dx)
          /\ p.steps[j + 1].at = dragTime(r, j) + HaltTime
          /\ p.steps[j].at = dragTime(r, j)
      BY <2>5, <3>1, <3>2
    <3>4. a \in Coordinate /\ b \in Coordinate
      BY <2>2
    <3>5. p.steps[j].at \in Int
      <4>1. p.steps \in Seq(Step)
        BY <1>1, Built DEF Path
      <4>2. p.steps[j] \in Step
        BY <2>3, <3>2, <4>1
      <4> QED
        BY <4>2 DEF Step
    <3>6. p.steps[j + 1].at > p.steps[j].at
      BY <3>3, <3>5 DEF HaltTime
    <3>7. \A c \in {1, 2} :
             p.steps[j + 1].point[c] - p.steps[j].point[c] \in -HaltDistance .. HaltDistance
      BY <2>6, <3>3, <3>4, HaltIsNear
    <3> QED
      BY <2>3, <3>1, <3>2, <3>6, <3>7 DEF RestsAtTheEnd
  <2> QED
    BY <2>8, <2>15, <2>16 DEF n
<1>2. IInv /\ SInv => DragPassesThrough
  BY <1>1 DEF DragPassesThrough
<1> QED
  BY <1>2, Shapes, PTL

-------------------------------------------------------------------------------
(* What is sent for a rotation.                                            *)

LEMMA QuotientTimes ==
    ASSUME NEW a \in Nat, NEW b \in Nat, b > 0
    PROVE a \div b \in Nat /\ b * (a \div b) <= a
  OBVIOUS

(* Whatever the degrees, the direction and the duration, a rotation that is *)
(* sent takes no longer than its duration, and it turns by what was asked,  *)
(* or less than an increment short of it, if no angle of it is rounded.     *)
THEOREM RotationsKeepTheirMeasure == Spec => []RotationKeepsItsMeasure
<1>1. ASSUME IInv, SInv, request.gesture = "rotate", NEW i \in 1 .. Len(event)
      PROVE LET s == event[i].steps
                angle == s[Len(s)].point[1] - s[1].point[1]
                turned == IF rotateDirection(request) = "clockwise" THEN angle ELSE -angle
            IN /\ Precise(request) => turned \in degrees(request) - increment(request) .. degrees(request)
               /\ rotateDuration(request) >= 0 => event[i].up <= rotateDuration(request)
  <2> DEFINE r == request
             s == event[i].steps
             k == event[i].finger
             m == count - 1
             way == m * increment(r)
             start == startAngle(r, k)
             angle == s[Len(s)].point[1] - s[1].point[1]
  <2>1. r \in Request /\ r # NoRequest /\ valid(r) /\ count \in Nat /\ left \in Int
    BY <1>1, Built DEF IInv, TypeOK
  <2>2. Rotates(s, count, k, event[i].up) /\ CountsDown
    BY <1>1, <2>1 DEF SInv, RotationIsDrawn
  <2>3. /\ count >= 1 /\ k \in {0, 1} /\ Len(s) = count /\ event[i].up = m * timeIncrement(r)
        /\ 1 \in 1 .. count /\ count \in 1 .. count /\ m \in Nat /\ m <= count /\ m + 1 = count
    BY <2>1, <2>2 DEF Rotates
  <2>4. /\ increment(r) \in Int /\ degrees(r) \in Int /\ start \in Int /\ rotateDuration(r) \in Int
    BY <1>1, <2>1, <2>3, RotationAdvances, OptionTypes, StartAngleType
  <2>5. ASSUME Precise(r)
        PROVE (IF rotateDirection(r) = "clockwise" THEN angle ELSE -angle)
                  \in degrees(r) - increment(r) .. degrees(r)
    <3>1. s[count].point = circlePoint(r, k, count - 1) /\ s[1].point = circlePoint(r, k, 1 - 1)
      BY <2>2, <2>3, <2>5 DEF Rotates
    <3>2. way \in Int /\ 0 * increment(r) = 0 /\ (m + 1) * increment(r) = way + increment(r)
      BY <2>3, <2>4, ProductIsInt, OneIsAll, OneMore
    <3>3. way < degrees(r) /\ degrees(r) - (way + increment(r)) <= 0
      <4>1. left <= 0
        <5>1. event # <<>>
          BY <1>1
        <5> QED
          BY <2>1, <2>2, <5>1 DEF CountsDown
      <4>2. left = degrees(r) - count * increment(r) /\ way < degrees(r)
        BY <2>2, <2>3, <2>5 DEF CountsDown
      <4> QED
        BY <2>3, <3>2, <4>1, <4>2
    <3>4. s[count].point[1] = IF rotateDirection(r) = "clockwise" THEN start + way ELSE start - way
      BY <3>1 DEF circlePoint
    <3>5. s[1].point[1] = start
      <4>1. 1 - 1 = 0
        OBVIOUS
      <4> HIDE DEF start
      <4>2. circlePoint(r, k, 0)[1]
               = IF rotateDirection(r) = "clockwise" THEN start + 0 * increment(r)
                 ELSE start - 0 * increment(r)
        BY DEF circlePoint, start
      <4> QED
        BY <2>4, <3>1, <3>2, <4>1, <4>2
    <3> HIDE DEF way, start
    <3>6. (IF rotateDirection(r) = "clockwise" THEN angle ELSE -angle) = way
      BY <2>3, <2>4, <3>2, <3>4, <3>5
    <3> HIDE DEF angle
    <3> QED
      BY <2>4, <3>2, <3>3, <3>6
  <2>6. ASSUME rotateDuration(r) >= 0 PROVE event[i].up <= rotateDuration(r)
    <3> DEFINE q == timeIncrement(r)
    <3>1. q \in Nat /\ count * q <= rotateDuration(r)
      BY <2>1, <2>3, <2>4, <2>6, QuotientTimes DEF timeIncrement
    <3>2. m * q <= count * q
      BY <2>1, <2>3, <3>1, FewerTimes
    <3>3. m * q \in Int /\ count * q \in Int
      BY <2>1, <2>3, <3>1, ProductIsInt
    <3> HIDE DEF m, q
    <3>4. event[i].up = m * q
      BY <2>3 DEF q
    <3> QED
      BY <2>4, <3>1, <3>2, <3>3, <3>4
  <2> QED
    BY <2>5, <2>6
<1>2. IInv /\ SInv => RotationKeepsItsMeasure
  BY <1>1 DEF RotationKeepsItsMeasure
<1> QED
  BY <1>2, Shapes, PTL

-------------------------------------------------------------------------------
(***************************************************************************)
(* The work of a gesture.  StepsLeft counts the steps its handler can still *)
(* take: the paths of a touch and the points of a rotation there is memory  *)
(* for, the fingers of a pinch, and for each finger of a drag or a rotation *)
(* the points of its path, its first touch and its lift.  It is what the    *)
(* runner's memory leaves, not what the request asks for, which may have no *)
(* end.                                                                     *)
(***************************************************************************)

(* What a finger takes to draw its path, and what it has done of it. *)
PathWork(r) == IF r.gesture = "drag" THEN Len(r.points) + 2 ELSE MaxPoints + 2
PathDone == IF steps = <<>> THEN 0 ELSE IF request.gesture = "drag" THEN turn + 1 ELSE turn

Fingers(r) == IF r.gesture = "drag" THEN numFingers(r) ELSE 2

PointsLeft == IF request.gesture = "rotate" THEN MaxPoints - count ELSE 0

WorkLeft ==
    CASE request.gesture = "touch" -> MaxPaths - Len(event)
      [] request.gesture \in {"double_tap", "two_finger_tap"} -> IF event = <<>> THEN 1 ELSE 0
      [] request.gesture = "pinch" -> 2 - finger
      [] OTHER -> PointsLeft + (Fingers(request) - finger) * PathWork(request) - PathDone

StepsLeft ==
    CASE pc = "build" -> WorkLeft + 2
      [] pc = "send" -> 1
      [] OTHER -> 0

(* No finger draws more than one path, and a touch has one of each finger   *)
(* for each of its repetitions.                                             *)
Counted ==
    request # NoRequest =>
        /\ request.gesture \in {"drag", "pinch", "rotate"} => finger <= Fingers(request)
        /\ request.gesture = "touch" =>
              /\ finger = 0
              /\ Len(event) = turn * numFingers(request)
              /\ Len(event) <= MaxPaths

CInv == IInv /\ SInv /\ Counted

LEMMA PathsAreCounted ==
    ASSUME IInv, SInv, request # NoRequest, request.gesture \in {"drag", "rotate"}
    PROVE  /\ Fingers(request) \in Nat
           /\ PathWork(request) \in Nat /\ PathWork(request) >= 2
           /\ steps # <<>> => /\ finger < Fingers(request)
                              /\ PathDone \in 1 .. PathWork(request) - 1
           /\ steps = <<>> => PathDone = 0
<1>1. /\ request \in Request /\ valid(request) /\ turn \in Nat /\ finger \in Nat
      /\ MaxPoints \in Nat /\ count \in 0 .. MaxPoints
  BY GestureAssumption DEF GestureAssumption, IInv, TypeOK, Clock, BuiltIsValid
<1>2. CASE request.gesture = "drag"
  <2>1. numFingers(request) \in Nat /\ Len(request.points) \in Nat
    BY <1>1, <1>2, DragFacts, AcceptedPoints DEF valid, validDrag
  <2>2. steps # <<>> => turn <= Len(request.points) /\ finger < numFingers(request)
    BY <1>2 DEF SInv, DragIsDrawn
  <2> QED
    BY <1>1, <1>2, <2>1, <2>2 DEF Fingers, PathWork, PathDone
<1>3. CASE request.gesture = "rotate"
  <2>1. steps # <<>> => finger \in {0, 1} /\ turn \in 1 .. count
    BY <1>3 DEF SInv, RotationIsDrawn, Rotates
  <2> QED
    BY <1>1, <1>3, <2>1 DEF Fingers, PathWork, PathDone
<1> QED
  BY <1>2, <1>3

(* A turn of a touch adds a path for each finger, for which there is memory. *)
LEMMA TouchAddsPaths ==
    ASSUME IInv, touch
    PROVE  /\ numFingers(request) \in 1 .. 4 /\ Len(event) \in Nat
           /\ Len(event') = Len(event) + numFingers(request)
           /\ Len(event') <= MaxPaths
<1> DEFINE n == numFingers(request)
           at == fingerCoordinates(request.points[1], n)
           down == IF turn = 0 THEN 0 ELSE offset
           up == IF turn = 0 THEN offset ELSE offset + Pause
           new == [k \in 1 .. n |-> tap(k, turn, at[k], down, up)]
<1>1. /\ pc = "build" /\ request.gesture = "touch"
      /\ Len(event) + n <= MaxPaths /\ event' = event \o new
  BY DEF touch, begins
<1>2. /\ request \in Request /\ valid(request) /\ turn \in Nat /\ offset \in Int
      /\ event \in Seq(Path)
  BY <1>1, Building
<1>3. n \in 1 .. 4 /\ n \in Nat
  BY <1>1, <1>2, AcceptedPoints
<1>4. new \in [1 .. n -> Path]
  <2>1. request.points[1] \in Coordinate
    BY <1>2, AcceptedPoints
  <2>2. down \in Int /\ up \in Int
    BY <1>2 DEF Pause
  <2> HIDE DEF n, at, down, up
  <2>3. ASSUME NEW k \in 1 .. n PROVE at[k] \in Coordinate
    BY <1>3, <2>1, FingerCoordinatesType DEF at
  <2>4. ASSUME NEW k \in 1 .. n PROVE tap(k, turn, at[k], down, up) \in Path
    <3>1. k \in Nat
      BY <1>3
    <3> QED
      BY <1>2, <2>2, <2>3, <3>1, TapType
  <2> QED
    BY <2>4
<1> HIDE DEF new
<1>5. Len(event') = Len(event) + n
  BY <1>1, <1>2, <1>3, <1>4, JoinedPaths
<1> QED
  BY <1>1, <1>2, <1>3, <1>5

LEMMA InitCounted == Init => Counted
  BY DEF Init, Counted

LEMMA NextCounted == IInv /\ SInv /\ Counted /\ [Next]_vars => Counted'
<1> SUFFICES ASSUME IInv, SInv, Counted, [Next]_vars, request' # NoRequest PROVE Counted'
  BY DEF Counted
<1>1. CASE \E r \in Request : receive(r)
  <2>1. PICK r \in Request : receive(r)
    BY <1>1
  <2>2. CASE valid(r)
    <3>1. request' = r /\ event' = <<>> /\ finger' = 0 /\ turn' = 0
      BY <2>1, <2>2 DEF receive, IInv, Clock, IdleIsEmpty
    <3>2. r.gesture = "drag" => numFingers(r) >= 0 /\ numFingers(r) \in Int
      BY <2>2 DEF valid, validDrag
    <3>3. r.gesture = "touch" => numFingers(r) \in Int
      BY OptionTypes
    <3>4. MaxPaths \in Nat
      BY GestureAssumption DEF GestureAssumption
    <3> QED
      BY <3>1, <3>2, <3>3, <3>4 DEF Counted, Fingers
  <2>3. CASE ~valid(r)
    BY <2>1, <2>3 DEF receive, building, Counted
  <2> QED
    BY <2>2, <2>3
<1>2. CASE handler
  <2>1. /\ request' = request /\ request # NoRequest /\ pc = "build"
        /\ request \in Request /\ valid(request) /\ turn \in Nat /\ finger \in Nat
    <3>1. pc = "build" /\ request' = request
      BY <1>2 DEF handler, touch, killed, doubleTap, twoFingerTap, pinch, beginDrag,
         dragToCoordinate, liftDrag, countDown, beginRotation, rotate, liftRotation, send, begins
    <3> QED
      BY <3>1, Building
  <2>2. CASE touch
    <3> DEFINE n == numFingers(request)
    <3>1. request.gesture = "touch" /\ turn' = turn + 1 /\ finger' = finger
      BY <2>2 DEF touch, begins
    <3>2. n \in Nat /\ Len(event') = Len(event) + n /\ Len(event') <= MaxPaths
      BY <2>2, TouchAddsPaths
    <3>3. Len(event) = turn * n /\ finger = 0
      BY <2>1, <3>1 DEF Counted
    <3>4. (turn + 1) * n = turn * n + n
      BY <2>1, <3>2, OneMore
    <3> QED
      BY <2>1, <3>1, <3>2, <3>3, <3>4 DEF Counted
  <2>3. CASE pinch
    BY <2>1, <2>3 DEF pinch, begins, Counted, Fingers
  <2>4. CASE liftDrag \/ liftRotation
    <3>1. request.gesture \in {"drag", "rotate"} /\ steps # <<>> /\ finger' = finger + 1
      BY <2>4 DEF liftDrag, liftRotation, begins, addTouchPath
    <3>2. finger < Fingers(request) /\ Fingers(request) \in Nat
      BY <2>1, <3>1, PathsAreCounted
    <3> QED
      BY <2>1, <3>1, <3>2 DEF Counted
  <2>5. CASE beginDrag \/ dragToCoordinate \/ countDown \/ beginRotation \/ rotate
    <3>1. request.gesture \in {"drag", "rotate"} /\ finger' = finger
      BY <2>5 DEF beginDrag, dragToCoordinate, countDown, beginRotation, rotate, begins
    <3> QED
      BY <2>1, <3>1 DEF Counted
  <2>6. CASE doubleTap \/ twoFingerTap
    <3>1. request.gesture \in {"double_tap", "two_finger_tap"}
      BY <2>6 DEF doubleTap, twoFingerTap, begins
    <3> QED
      BY <2>1, <3>1 DEF Counted
  <2>7. CASE killed \/ send
    BY <2>1, <2>7 DEF killed, send, building, Counted
  <2> QED
    BY <1>2, <2>2, <2>3, <2>4, <2>5, <2>6, <2>7 DEF handler
<1>3. CASE synthesize
  BY <1>3 DEF synthesize
<1>4. CASE UNCHANGED vars
  BY <1>4 DEF vars, building, Counted
<1> QED
  BY <1>1, <1>2, <1>3, <1>4 DEF Next

LEMMA CountsHold == Spec => []CInv
  BY InitIInv, SInvInit, InitCounted, NextIInv, NextSInv, NextCounted, PTL DEF Spec, CInv

-------------------------------------------------------------------------------
(* Each step of a handler is one of those that were left.                  *)

LEMMA OneFingerLess ==
    ASSUME NEW f \in Nat, NEW k \in Nat, k < f, NEW w \in Nat
    PROVE  /\ (f - k) * w \in Nat /\ (f - k) * w >= w
           /\ (f - (k + 1)) * w = (f - k) * w - w
<1> DEFINE d == f - k - 1
<1>1. d \in Nat /\ f - k = d + 1 /\ f - (k + 1) = d
  OBVIOUS
<1> HIDE DEF d
<1>2. (d + 1) * w = d * w + w
  BY <1>1, OneMore
<1>3. d * w \in Nat
  BY <1>1
<1> QED
  BY <1>1, <1>2, <1>3

(* The numbers of a path that is drawn, or is not yet. *)
LEMMA DrawingWork ==
    ASSUME CInv, request # NoRequest, request.gesture \in {"drag", "rotate"}
    PROVE  /\ WorkLeft = PointsLeft + (Fingers(request) - finger) * PathWork(request) - PathDone
           /\ WorkLeft \in Nat
           /\ PathWork(request) \in Nat /\ (Fingers(request) - finger) * PathWork(request) \in Nat
           /\ PathDone \in Nat /\ PointsLeft \in Nat
<1> DEFINE paths == (Fingers(request) - finger) * PathWork(request)
<1>1. WorkLeft = PointsLeft + paths - PathDone
  BY DEF WorkLeft
<1>2. finger \in Nat /\ finger <= Fingers(request)
  BY DEF CInv, IInv, TypeOK, Counted
<1>3. /\ Fingers(request) \in Nat
      /\ PathWork(request) \in Nat /\ PathWork(request) >= 2
      /\ steps # <<>> => finger < Fingers(request) /\ PathDone \in 1 .. PathWork(request) - 1
      /\ steps = <<>> => PathDone = 0
  BY PathsAreCounted DEF CInv
<1>4. PointsLeft \in Nat
  BY GestureAssumption DEF GestureAssumption, PointsLeft, CInv, IInv, TypeOK
<1>5. paths \in Nat /\ PathDone \in Nat /\ PathDone <= paths
  <2>1. CASE finger < Fingers(request)
    <3>1. paths \in Nat /\ paths >= PathWork(request)
      BY <1>2, <1>3, <2>1, OneFingerLess
    <3>2. PathDone \in Nat /\ PathDone <= PathWork(request)
      BY <1>3
    <3> HIDE DEF paths, PathWork, PathDone
    <3> QED
      BY <1>3, <3>1, <3>2
  <2>2. CASE finger = Fingers(request)
    <3>1. Fingers(request) - finger = 0 /\ PathDone = 0
      BY <1>2, <1>3, <2>2
    <3> QED
      BY <1>3, <3>1, OneIsAll
  <2> QED
    BY <1>2, <1>3, <2>1, <2>2
<1> HIDE DEF paths
<1>6. WorkLeft \in Nat
  BY <1>1, <1>4, <1>5
<1> QED
  BY <1>1, <1>3, <1>4, <1>5, <1>6 DEF paths

LEMMA BuildingWork == ASSUME CInv, pc = "build" PROVE WorkLeft \in Nat
<1>1. /\ request \in Request /\ request # NoRequest /\ valid(request)
      /\ finger \in Nat /\ turn \in Nat /\ event \in Seq(Path)
  BY Building DEF CInv
<1>2. CASE request.gesture \in {"drag", "rotate"}
  BY <1>1, <1>2, DrawingWork
<1>3. CASE request.gesture = "pinch"
  BY <1>1, <1>3 DEF WorkLeft, CInv, Counted, Fingers
<1>4. CASE request.gesture \in {"double_tap", "two_finger_tap"}
  BY <1>4 DEF WorkLeft
<1>5. CASE request.gesture = "touch"
  <2>1. Len(event) \in Nat /\ Len(event) <= MaxPaths /\ MaxPaths \in Nat
    BY <1>1, <1>5, GestureAssumption DEF GestureAssumption, CInv, Counted
  <2> QED
    BY <1>5, <2>1 DEF WorkLeft
<1> QED
  BY <1>1, <1>2, <1>3, <1>4, <1>5, AcceptedPoints

LEMMA WorkIsCounted == CInv => StepsLeft \in Nat /\ (pc \in {"build", "send"} => StepsLeft > 0)
  BY BuildingWork DEF StepsLeft

LEMMA LongerIsNotEmpty ==
    ASSUME NEW A, NEW s \in Seq(A), NEW e
    PROVE  Append(s, e) # <<>> /\ Append(s, e) \in Seq(A \cup {e})
<1>1. s \in Seq(A \cup {e}) /\ e \in A \cup {e}
  OBVIOUS
<1>2. Append(s, e) \in Seq(A \cup {e}) /\ Len(Append(s, e)) = Len(s) + 1 /\ Len(s) \in Nat
  BY <1>1
<1> QED
  BY <1>2

LEMMA HandlerShrinksWork ==
    ASSUME CInv, handler
    PROVE  pc = "build" /\ StepsLeft' < StepsLeft
<1>1. pc = "build"
  BY DEF handler, touch, killed, doubleTap, twoFingerTap, pinch, beginDrag,
     dragToCoordinate, liftDrag, countDown, beginRotation, rotate, liftRotation, send, begins
<1>2. /\ request \in Request /\ request # NoRequest /\ valid(request)
      /\ finger \in Nat /\ turn \in Nat
      /\ event \in Seq(Path) /\ steps \in Seq(Step)
  BY <1>1, Building DEF CInv
<1>3. StepsLeft = WorkLeft + 2 /\ WorkLeft \in Nat
  BY <1>1, BuildingWork DEF StepsLeft
<1>4. ASSUME NEW n \in Int, pc' = "build", WorkLeft' = n, n < WorkLeft
      PROVE  StepsLeft' < StepsLeft
  <2>1. StepsLeft' = n + 2
    BY <1>4 DEF StepsLeft
  <2> HIDE DEF StepsLeft, WorkLeft
  <2> QED
    BY <1>3, <1>4, <2>1
<1>5. CASE touch
  <2>1. request.gesture = "touch" /\ UNCHANGED <<request, pc>>
    BY <1>5 DEF touch, begins
  <2>2. /\ numFingers(request) \in 1 .. 4 /\ Len(event) \in Nat
        /\ Len(event') = Len(event) + numFingers(request)
    BY <1>5, TouchAddsPaths DEF CInv
  <2>3. WorkLeft = MaxPaths - Len(event) /\ WorkLeft' = MaxPaths - Len(event')
    BY <2>1 DEF WorkLeft
  <2>4. MaxPaths \in Nat
    BY GestureAssumption DEF GestureAssumption
  <2> QED
    BY <1>1, <1>4, <2>1, <2>2, <2>3, <2>4
<1>6. CASE killed \/ send
  <2>1. StepsLeft' \in {0, 1}
    BY <1>6 DEF killed, send, StepsLeft
  <2> QED
    BY <1>1, <1>3, <2>1
<1>7. CASE doubleTap \/ twoFingerTap
  <2>1. /\ request.gesture \in {"double_tap", "two_finger_tap"} /\ event = <<>>
        /\ UNCHANGED <<request, pc>>
    BY <1>7 DEF doubleTap, twoFingerTap, begins
  <2>2. event' # <<>>
    BY <1>7 DEF doubleTap, twoFingerTap
  <2>3. WorkLeft = 1 /\ WorkLeft' = 0
    BY <2>1, <2>2 DEF WorkLeft
  <2> QED
    BY <1>1, <1>4, <2>1, <2>3
<1>8. CASE pinch
  <2>1. /\ request.gesture = "pinch" /\ finger' = finger + 1
        /\ UNCHANGED <<request, pc>>
    BY <1>8 DEF pinch, begins
  <2>2. WorkLeft = 2 - finger /\ WorkLeft' = 2 - (finger + 1)
    BY <2>1 DEF WorkLeft
  <2> QED
    BY <1>1, <1>2, <1>4, <2>1, <2>2
<1>9. CASE beginDrag \/ beginRotation \/ dragToCoordinate \/ rotate
  <2>1. /\ request.gesture \in {"drag", "rotate"}
        /\ UNCHANGED <<request, pc, finger, circle>>
    BY <1>9 DEF beginDrag, beginRotation, dragToCoordinate, rotate, begins
  <2>2. PathDone' = PathDone + 1
    <3>1. CASE beginDrag
      <4>1. steps = <<>> /\ request.gesture = "drag" /\ turn' = turn /\ request' = request
        BY <3>1 DEF beginDrag, begins
      <4>2. turn = 0
        BY <1>2, <4>1 DEF CInv, SInv, DragIsDrawn
      <4>3. steps' # <<>>
        BY <3>1 DEF beginDrag, withFirstTouchPoint
      <4> QED
        BY <4>1, <4>2, <4>3 DEF PathDone
    <3>2. CASE beginRotation
      <4>1. steps = <<>> /\ request.gesture = "rotate" /\ turn' = 1 /\ request' = request
        BY <3>2 DEF beginRotation, begins
      <4>2. steps' # <<>>
        BY <3>2 DEF beginRotation, withFirstTouchPoint
      <4> QED
        BY <4>1, <4>2 DEF PathDone
    <3>3. CASE dragToCoordinate
      <4>1. steps # <<>> /\ request.gesture = "drag" /\ turn' = turn + 1 /\ request' = request
        BY <3>3 DEF dragToCoordinate, begins
      <4>2. steps' # <<>>
        <5>1. \/ steps' = steps
              \/ \E e : steps' = Append(steps, e)
              \/ \E d, e : steps' = Append(Append(steps, d), e)
          BY <3>3 DEF dragToCoordinate, moveToNextPoint
        <5>2. ASSUME NEW e PROVE Append(steps, e) # <<>> /\ Append(steps, e) \in Seq(Step \cup {e})
          BY <1>2, LongerIsNotEmpty
        <5>3. ASSUME NEW d, NEW e PROVE Append(Append(steps, d), e) # <<>>
          BY <5>2, LongerIsNotEmpty
        <5> QED
          BY <4>1, <5>1, <5>2, <5>3
      <4> QED
        BY <1>2, <4>1, <4>2 DEF PathDone
    <3>4. CASE rotate
      <4>1. steps # <<>> /\ request.gesture = "rotate" /\ turn' = turn + 1 /\ request' = request
        BY <3>4 DEF rotate, begins
      <4>2. steps' # <<>>
        BY <1>2, <3>4 DEF rotate, moveToNextPoint
      <4> QED
        BY <1>2, <4>1, <4>2 DEF PathDone
    <3> QED
      BY <1>9, <3>1, <3>2, <3>3, <3>4
  <2> DEFINE paths == (Fingers(request) - finger) * PathWork(request)
             all == PointsLeft + paths
  <2>3. /\ WorkLeft = all - PathDone /\ all \in Nat
        /\ PointsLeft \in Nat /\ paths \in Nat /\ PathDone \in Nat
    BY <1>2, <2>1, DrawingWork
  <2>4. WorkLeft' = all - (PathDone + 1)
    <3>1. PointsLeft' = PointsLeft
      BY <2>1 DEF PointsLeft
    <3>2. paths' = paths
      BY <2>1
    <3>3. WorkLeft' = PointsLeft' + paths' - PathDone'
      BY <2>1 DEF WorkLeft
    <3> HIDE DEF paths
    <3> QED
      BY <2>2, <2>3, <3>1, <3>2, <3>3
  <2> HIDE DEF all
  <2> QED
    BY <1>1, <1>4, <2>1, <2>3, <2>4
<1>10. CASE liftDrag \/ liftRotation
  <2>1. /\ request.gesture \in {"drag", "rotate"} /\ steps # <<>>
        /\ finger' = finger + 1 /\ steps' = <<>>
        /\ UNCHANGED <<request, pc, circle>>
    BY <1>10 DEF liftDrag, liftRotation, begins, addTouchPath
  <2> DEFINE all == (Fingers(request) - finger) * PathWork(request)
  <2>2. /\ WorkLeft = PointsLeft + all - PathDone /\ all \in Nat
        /\ PathDone \in Nat /\ PointsLeft \in Nat
    BY <1>2, <2>1, DrawingWork
  <2>3. /\ Fingers(request) \in Nat /\ finger < Fingers(request)
        /\ PathWork(request) \in Nat /\ PathDone \in 1 .. PathWork(request) - 1
    BY <1>2, <2>1, PathsAreCounted DEF CInv
  <2>4. (Fingers(request) - (finger + 1)) * PathWork(request) = all - PathWork(request)
    BY <1>2, <2>3, OneFingerLess
  <2>5. WorkLeft' = PointsLeft + (all - PathWork(request)) - 0
    BY <2>1, <2>4 DEF WorkLeft, PathDone, PointsLeft
  <2> HIDE DEF all
  <2> QED
    BY <1>1, <1>4, <2>1, <2>2, <2>3, <2>5
<1>11. CASE countDown
  <2>1. /\ request.gesture = "rotate" /\ count' = count + 1
        /\ UNCHANGED <<request, pc, steps, finger, turn>>
    BY <1>11 DEF countDown, begins
  <2> DEFINE all == (Fingers(request) - finger) * PathWork(request)
  <2>2. WorkLeft = PointsLeft + all - PathDone /\ all \in Nat /\ PathDone \in Nat /\ PointsLeft \in Nat
    BY <1>2, <2>1, DrawingWork
  <2>3. PointsLeft = MaxPoints - count /\ PointsLeft' = MaxPoints - (count + 1)
    BY <2>1 DEF PointsLeft
  <2>4. WorkLeft' = PointsLeft' + all - PathDone
    BY <2>1 DEF WorkLeft, PathDone
  <2>5. MaxPoints \in Nat /\ count \in Nat
    BY <1>1, Building DEF CInv
  <2> HIDE DEF all
  <2> QED
    BY <1>1, <1>4, <2>1, <2>2, <2>3, <2>4, <2>5
<1> QED
  BY <1>1, <1>5, <1>6, <1>7, <1>8, <1>9, <1>10, <1>11 DEF handler

(* Whatever a request asks for, its handler takes no more steps than the     *)
(* memory of the runner leaves it: each is one of them, so that it sends its *)
(* event or the runner is killed, and does not go on for ever; what waits    *)
(* for testmanagerd has one step left, its answer.                           *)
WorkShrinks ==
    [][/\ handler => pc = "build" /\ StepsLeft' < StepsLeft
       /\ synthesize => pc = "send" /\ StepsLeft' = 0
       /\ pc \in {"build", "send"} => handler \/ synthesize \/ UNCHANGED vars]_vars

WorkIsFinite == StepsLeft \in Nat /\ (pc \in {"build", "send"} => StepsLeft > 0)

LEMMA SynthesizeIsLast == synthesize => pc = "send" /\ StepsLeft' = 0 /\ (pc = "idle")'
  BY DEF synthesize, StepsLeft

THEOREM GesturesAreFinite == Spec => []WorkIsFinite /\ WorkShrinks
<1>1. CInv /\ [Next]_vars =>
          /\ handler => pc = "build" /\ StepsLeft' < StepsLeft
          /\ synthesize => pc = "send" /\ StepsLeft' = 0
          /\ pc \in {"build", "send"} => handler \/ synthesize \/ UNCHANGED vars
  BY HandlerShrinksWork, SynthesizeIsLast DEF Next, receive
<1>2. CInv => WorkIsFinite
  BY WorkIsCounted DEF WorkIsFinite
<1> QED
  BY <1>1, <1>2, CountsHold, PTL DEF Spec, WorkShrinks

-------------------------------------------------------------------------------
(* Which gestures are killed.                                              *)

(* There is memory for one that has an end and fits. *)
LEMMA NotKilled ==
    ASSUME CInv, ~Endless(request), Fits(request)
    PROVE  ~killed
<1> SUFFICES ASSUME killed PROVE FALSE
  OBVIOUS
<1>1. /\ pc = "build"
      /\ \/ /\ request.gesture = "touch" /\ lessThan(turn, repetitions(request))
            /\ Len(event) + numFingers(request) > MaxPaths
         \/ request.gesture = "rotate" /\ left > 0 /\ count = MaxPoints
  BY DEF killed, begins
<1>2. /\ request \in Request /\ request # NoRequest /\ valid(request) /\ turn \in Nat
      /\ left \in Int /\ count \in Nat
  BY <1>1, Building DEF CInv
<1>3. CASE request.gesture = "touch"
  <2> DEFINE n == numFingers(request)
             m == repetitions(request)
  <2>1. n \in Nat /\ m \in Nat /\ turn < m /\ MaxPaths \in Nat
    <3>1. n \in 1 .. 4 /\ m \in Int
      BY <1>2, <1>3, OptionTypes, AcceptedPoints
    <3>2. ~(m < 0) /\ (m < 0 \/ turn < m)
      BY <1>1, <1>3 DEF Endless, lessThan
    <3>3. MaxPaths \in Nat
      BY GestureAssumption DEF GestureAssumption
    <3> HIDE DEF n, m
    <3> QED
      BY <3>1, <3>2, <3>3
  <2>2. Len(event) = turn * n /\ m * n <= MaxPaths
    BY <1>2, <1>3 DEF CInv, Counted, Fits
  <2>3. (turn + 1) * n = turn * n + n
    BY <1>2, <2>1, OneMore
  <2>4. (turn + 1) * n <= m * n
    BY <1>2, <2>1, FewerTimes
  <2>5. turn * n \in Int /\ m * n \in Int
    BY <1>2, <2>1, ProductIsInt
  <2>6. Len(event) + n > MaxPaths
    BY <1>1, <1>3
  <2> HIDE DEF n, m
  <2> QED
    BY <2>1, <2>2, <2>3, <2>4, <2>5, <2>6
<1>4. CASE request.gesture = "rotate"
  <2>1. left > 0 /\ count = MaxPoints
    BY <1>1, <1>4
  <2>2. left <= degrees(request) - count * increment(request)
    BY <1>2, <1>4 DEF CInv, SInv, RotationIsDrawn, CountsDown
  <2>3. /\ degrees(request) \in Int /\ degrees(request) <= 4 * count /\ 2 <= count
        /\ degrees(request) >= 4 => increment(request) = 4
        /\ degrees(request) < 4 => degrees(request) = 2 /\ increment(request) = 1
    BY <1>2, <1>4, <2>1, RotationAdvances, OptionTypes DEF Fits
  <2> QED
    BY <1>2, <2>1, <2>2, <2>3
<1> QED
  BY <1>1, <1>3, <1>4

(* One that has no end is never complete. *)
LEMMA NeverComplete ==
    ASSUME CInv, pc = "build", Endless(request)
    PROVE  ~complete(request)
<1>1. /\ request \in Request /\ request # NoRequest /\ valid(request) /\ turn \in Nat
      /\ left \in Int
  BY Building DEF CInv
<1>2. CASE request.gesture = "touch"
  BY <1>2 DEF Endless, complete, lessThan
<1>3. CASE request.gesture = "rotate"
  <2>1. left > 4 * (Exact + 2)
    BY <1>1, <1>3 DEF CInv, SInv, RotationIsDrawn, CountsDown
  <2>2. finger = 0
    BY <1>1, <1>3, <2>1 DEF CInv, SInv, RotationIsDrawn, CountsDown, Exact
  <2> QED
    BY <1>3, <2>2 DEF complete
<1> QED
  BY <1>2, <1>3 DEF Endless

-------------------------------------------------------------------------------
(***************************************************************************)
(* Every gesture is answered or kills the runner.  That the handler, or    *)
(* testmanagerd, can take a step is said with ENABLED, which the provers   *)
(* do not expand, and is a hypothesis; GesturesEnd of a run shows it for   *)
(* its instance.  What the proof adds is that fairness is enough for any   *)
(* requests and for any memory, up to 2^40 steps.                          *)
(***************************************************************************)

NeverStuck ==
    /\ pc = "build" => ENABLED <<handler>>_vars
    /\ pc = "send" => ENABLED <<synthesize>>_vars

Goes == []CInv /\ [][Next]_vars /\ WF_vars(handler) /\ WF_vars(synthesize) /\ []NeverStuck

Going == pc \in {"build", "send"}
Gone == pc \in {"idle", "killed"}

EndsWithin(n) == Goes => [](Going /\ StepsLeft <= n => <>Gone)

LEMMA EndsAtOnce == EndsWithin(0)
<1>1. CInv /\ Going /\ StepsLeft <= 0 => FALSE
  BY WorkIsCounted DEF Going
<1> QED
  BY <1>1, PTL DEF EndsWithin, Goes

LEMMA HandlerGoesOn ==
    ASSUME CInv, handler
    PROVE  request' = request /\ pc' \in {"build", "send", "killed"}
<1>1. pc = "build"
  BY HandlerShrinksWork
<1> QED
  BY <1>1 DEF handler, touch, killed, doubleTap, twoFingerTap, pinch, beginDrag,
     dragToCoordinate, liftDrag, countDown, beginRotation, rotate, liftRotation, send, begins

LEMMA EndsAStepLater ==
    ASSUME NEW n \in Nat
    PROVE  EndsWithin(n) => EndsWithin(n + 1)
<1> DEFINE Builds == pc = "build" /\ StepsLeft = n + 1
           Sends == pc = "send"
           Closer == Going /\ StepsLeft <= n
<1>1. CInv /\ Going /\ StepsLeft <= n + 1 => Closer \/ Builds \/ Sends
  BY WorkIsCounted DEF Going
<1>2. CInv /\ CInv' /\ Builds /\ handler => Closer' \/ Gone'
  <2> SUFFICES ASSUME CInv, CInv', Builds, handler PROVE Closer' \/ Gone'
    OBVIOUS
  <2>1. StepsLeft' < n + 1 /\ (Going' \/ Gone')
    BY HandlerShrinksWork, HandlerGoesOn DEF Going, Gone
  <2>2. CInv' => (StepsLeft \in Nat)'
    BY WorkIsCounted, PTL
  <2> QED
    BY <2>1, <2>2
<1>3. CInv /\ CInv' /\ Builds /\ [Next]_vars => Builds' \/ Closer' \/ Gone'
  <2>1. Builds /\ Next => handler
    BY DEF Next, receive, synthesize
  <2>2. Builds /\ UNCHANGED vars => Builds'
    BY DEF vars, building, StepsLeft, WorkLeft, PathDone, PointsLeft
  <2> QED
    BY <1>2, <2>1, <2>2
<1>4. Sends /\ [Next]_vars => Sends' \/ Gone'
  BY DEF Gone, Next, receive, synthesize, handler, touch, killed, doubleTap, twoFingerTap, pinch,
     beginDrag, dragToCoordinate, liftDrag, countDown, beginRotation, rotate, liftRotation, send,
     begins, vars
<1>5. Sends /\ synthesize => Gone'
  BY DEF synthesize, Gone
<1>6. NeverStuck => (Builds => ENABLED <<handler>>_vars) /\ (Sends => ENABLED <<synthesize>>_vars)
  BY DEF NeverStuck
<1> HIDE DEF Builds, Sends, Gone
<1> QED
  BY <1>1, <1>2, <1>3, <1>4, <1>5, <1>6, PTL DEF EndsWithin, Goes, Closer

-------------------------------------------------------------------------------
(***************************************************************************)
(* The steps are put together by doubling.  Induction over the number of   *)
(* steps would reach any number, but TLA+ has no set of the numbers for    *)
(* which a temporal formula fails; forty doublings reach 2^40 steps.        *)
(***************************************************************************)

Reach == 1099511627776

Carries(k) == \A n \in Nat : EndsWithin(n) => EndsWithin(n + k)

LEMMA CarriesTwice == ASSUME NEW k \in Nat PROVE Carries(k) => Carries(k + k)
<1> SUFFICES ASSUME Carries(k), NEW n \in Nat, EndsWithin(n) PROVE EndsWithin(n + (k + k))
  BY DEF Carries
<1> HIDE DEF EndsWithin
<1>1. EndsWithin(n + k)
  BY DEF Carries
<1>2. n + k \in Nat /\ (n + k) + k = n + (k + k)
  OBVIOUS
<1>3. EndsWithin((n + k) + k)
  BY <1>1, <1>2 DEF Carries
<1> QED
  BY <1>2, <1>3

LEMMA EndsWithinReach == EndsWithin(Reach)
<1>1. Carries(1)
  BY EndsAStepLater DEF Carries
<1> HIDE DEF Carries
<1>2. Carries(16)
  BY <1>1, CarriesTwice
<1>3. Carries(256)
  BY <1>2, CarriesTwice
<1>4. Carries(4096)
  BY <1>3, CarriesTwice
<1>5. Carries(65536)
  BY <1>4, CarriesTwice
<1>6. Carries(1048576)
  BY <1>5, CarriesTwice
<1>7. Carries(16777216)
  BY <1>6, CarriesTwice
<1>8. Carries(268435456)
  BY <1>7, CarriesTwice
<1>9. Carries(4294967296)
  BY <1>8, CarriesTwice
<1>10. Carries(68719476736)
  BY <1>9, CarriesTwice
<1>11. Carries(1099511627776)
  BY <1>10, CarriesTwice
<1>12. EndsWithin(0 + 1099511627776)
  BY <1>11, EndsAtOnce DEF Carries
<1> QED
  BY <1>12 DEF Reach

(* There is memory for fewer than 2^40 paths and a third as many points, and *)
(* the points of a drag, which are members of its request, are no more.      *)
MemoryIsShort ==
    /\ MaxPaths + 2 <= Reach
    /\ MaxPoints + 2 * (MaxPoints + 2) + 2 <= Reach
    /\ \A r \in Request : valid(r) /\ r.gesture = "drag" => Fingers(r) * PathWork(r) + 2 <= Reach

LEMMA WorkIsShort ==
    ASSUME MemoryIsShort, CInv, Going
    PROVE  StepsLeft <= Reach
<1>1. CASE pc = "send"
  BY <1>1 DEF StepsLeft, Reach
<1>2. CASE pc = "build"
  <2>1. /\ request \in Request /\ request # NoRequest /\ valid(request)
        /\ finger \in Nat /\ turn \in Nat /\ event \in Seq(Path)
        /\ count \in Nat /\ MaxPoints \in Nat
    BY <1>2, Building DEF CInv
  <2>2. StepsLeft = WorkLeft + 2 /\ WorkLeft \in Nat
    BY <1>2, BuildingWork DEF StepsLeft
  <2>3. CASE request.gesture \in {"drag", "rotate"}
    <3> DEFINE f == Fingers(request)
               w == PathWork(request)
               now == (f - finger) * w
               all == f * w
    <3>1. /\ WorkLeft = PointsLeft + now - PathDone
          /\ now \in Nat /\ PathDone \in Nat /\ PointsLeft \in Nat
      BY <2>1, <2>3, DrawingWork
    <3>2. f \in Nat /\ w \in Nat /\ finger <= f
      BY <2>1, <2>3, PathsAreCounted DEF CInv, Counted
    <3>3. f - finger \in Nat /\ f - finger <= f
      BY <2>1, <3>2
    <3>4. now <= all /\ all \in Nat
      BY <3>2, <3>3, FewerTimes
    <3>5. PointsLeft + all + 2 <= Reach
      <4>1. CASE request.gesture = "drag"
        BY <2>1, <3>4, <4>1 DEF MemoryIsShort, PointsLeft
      <4>2. CASE request.gesture = "rotate"
        <5>1. f = 2 /\ w = MaxPoints + 2 /\ PointsLeft = MaxPoints - count
          BY <4>2 DEF Fingers, PathWork, PointsLeft
        <5>2. all = 2 * (MaxPoints + 2)
          BY <5>1
        <5> HIDE DEF all
        <5> QED
          BY <2>1, <5>1, <5>2 DEF MemoryIsShort, Reach
      <4> QED
        BY <2>3, <4>1, <4>2
    <3> HIDE DEF f, w, now, all
    <3> QED
      BY <2>2, <3>1, <3>4, <3>5 DEF Reach
  <2>4. CASE request.gesture = "touch"
    <3>1. WorkLeft = MaxPaths - Len(event) /\ Len(event) \in Nat /\ MaxPaths \in Nat
      BY <2>1, <2>4, GestureAssumption DEF GestureAssumption, WorkLeft
    <3> QED
      BY <2>2, <3>1 DEF MemoryIsShort, Reach
  <2>5. CASE request.gesture \in {"double_tap", "two_finger_tap", "pinch"}
    <3>1. WorkLeft \in {0, 1, 2 - finger}
      BY <2>5 DEF WorkLeft
    <3> QED
      BY <2>1, <2>2, <3>1 DEF Reach
  <2> QED
    BY <2>1, <2>3, <2>4, <2>5, AcceptedPoints
<1> QED
  BY <1>1, <1>2 DEF Going

(* Every gesture that is accepted, has an end and fits in the memory is      *)
(* answered, whatever its options and its points are, if the main thread     *)
(* goes on and testmanagerd answers; the two kinds that have no end, a touch *)
(* of less than no repetitions (Touch.m:81) and a rotation from which no     *)
(* degree can be subtracted (Rotate.m:84), kill the runner instead, however  *)
(* much memory it has, and nothing of them is sent.                          *)
THEOREM GesturesReturn ==
    ASSUME MemoryIsShort
    PROVE  FairSpec /\ []NeverStuck => GesturesEnd
<1> DEFINE Ends == pc \in {"build", "send"} /\ ~Endless(request) /\ Fits(request)
           Loops == pc = "build" /\ Endless(request)
           Builds == pc = "build" /\ ~Endless(request) /\ Fits(request)
<1>1. EndsWithin(Reach)
  BY EndsWithinReach
<1>2. CInv /\ Going => StepsLeft <= Reach
  BY WorkIsShort
<1>3. /\ Builds => Ends
      /\ Ends => Going /\ ~Gone
      /\ Loops => Going /\ ~Gone
      /\ Gone <=> pc = "idle" \/ pc = "killed"
  BY DEF Going, Gone
<1>4. CInv /\ Ends /\ [Next]_vars => Ends' \/ (pc = "idle")'
  <2> SUFFICES ASSUME CInv, Ends, [Next]_vars PROVE Ends' \/ (pc = "idle")'
    OBVIOUS
  <2>1. CASE handler
    <3>1. ~killed
      BY NotKilled
    <3>2. request' = request /\ pc' \in {"build", "send"}
      BY <2>1, <3>1, HandlerGoesOn DEF handler, touch, doubleTap, twoFingerTap, pinch, beginDrag,
         dragToCoordinate, liftDrag, countDown, beginRotation, rotate, liftRotation, send, begins
    <3> QED
      BY <3>2
  <2>2. CASE synthesize
    BY <2>2 DEF synthesize
  <2>3. CASE UNCHANGED vars
    BY <2>3 DEF vars
  <2> QED
    BY <2>1, <2>2, <2>3 DEF Next, receive
<1>5. CInv /\ Loops /\ [Next]_vars => Loops' \/ (pc = "killed")'
  <2> SUFFICES ASSUME CInv, Loops, [Next]_vars PROVE Loops' \/ (pc = "killed")'
    OBVIOUS
  <2>1. CASE handler
    <3>1. ~send
      BY NeverComplete DEF send
    <3>2. request' = request /\ pc' \in {"build", "killed"}
      BY <2>1, <3>1, HandlerGoesOn DEF handler, touch, killed, doubleTap, twoFingerTap, pinch,
         beginDrag, dragToCoordinate, liftDrag, countDown, beginRotation, rotate, liftRotation,
         begins
    <3> QED
      BY <3>2
  <2>2. CASE UNCHANGED vars
    BY <2>2 DEF vars
  <2> QED
    BY <2>1, <2>2 DEF Next, receive, synthesize
<1>6. (pc = "idle" => ~(pc = "killed")) /\ (Loops => pc # "idle") /\ (Ends => pc # "killed")
  OBVIOUS
<1> HIDE DEF Ends, Loops, Builds, Going, Gone
<1>7. FairSpec /\ []NeverStuck => (Builds ~> pc = "idle") /\ (Loops ~> pc = "killed")
  BY <1>1, <1>2, <1>3, <1>4, <1>5, <1>6, CountsHold, PTL DEF EndsWithin, Goes, FairSpec, Spec
<1> QED
  BY <1>7, PTL DEF GesturesEnd, Builds, Loops
================================================================================
