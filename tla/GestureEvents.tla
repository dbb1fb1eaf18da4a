----------------------------- MODULE GestureEvents -----------------------------
(***************************************************************************)
(* POST /gesture for touch, double_tap, two_finger_tap, drag, pinch and    *)
(* rotate: which requests are refused, and the paths of the fingers that   *)
(* are sent to testmanagerd for the others.  TextGestures is about waiting *)
(* for testmanagerd; this module is about what it is told to do.           *)
(*                                                                         *)
(* Times are in milliseconds, distances in points, angles in quarters of a *)
(* degree.  The points of a rotation are pairs of an angle and a radius    *)
(* around the center, all others pairs of x and y.  What is subtracted and *)
(* added while a circle is gone round is rounded to floats of 24 bits.     *)
(***************************************************************************)
EXTENDS Integers, Sequences

CONSTANTS Request,      \* the requests clients send
          NoRequest,
          MaxPaths,     \* bound: the paths the runner has memory for
          MaxPoints     \* bound: the points of a circle it has memory for

Coordinate == Int \X Int

(* The value of an option, or its default.  JSON is split into numbers and  *)
(* words; allow_inertia is a number, which boolValue compares with 0.       *)
number(r, key, default) == IF key \in DOMAIN r.numbers THEN r.numbers[key] ELSE default
word(r, key, default) == IF key \in DOMAIN r.words THEN r.words[key] ELSE default

repetitions(r) == number(r, "repetitions", 1)
numFingers(r) == number(r, "num_fingers", 1)
duration(r) == number(r, "duration", 100)
dragFirstTouchHoldDuration(r) == number(r, "first_touch_hold_duration", 0)
allowDragToHaveInertia(r) == number(r, "allow_inertia", 1) # 0
rotateDuration(r) == number(r, "duration", 800)
pinchAmount(r) == number(r, "amount", 50)
degrees(r) == number(r, "degrees", 4 * 90)
radius(r) == number(r, "radius", 25)
rotationStart(r) == number(r, "rotation_start", 0)
pinchDirection(r) == word(r, "pinch_direction", "out")
rotateDirection(r) == word(r, "rotation_direction", "clockwise")

(* The distance of the floats about x, in quarters.  Those of more than 2^27 *)
(* are further apart, but an increment, of 4 at most, is lost on all alike.  *)
Exact == 16777216       \* 2^24, to which no whole number is rounded
ulp(x) ==
    LET m == IF x < 0 THEN -x ELSE x
    IN IF m <= Exact THEN 1 ELSE IF m <= 2 * Exact THEN 2
       ELSE IF m <= 4 * Exact THEN 4 ELSE IF m <= 8 * Exact THEN 8 ELSE 16

(* The float nearest to x, and of two that are as near the even one. *)
float(x) ==
    LET u == ulp(x)
        down == x - (x % u)
    IN IF 2 * (x % u) < u \/ (2 * (x % u) = u /\ (down \div u) % 2 = 0)
       THEN down ELSE down + u

(* Less than a degree is even so that the model can halve it. *)
ASSUME GestureAssumption ==
    /\ NoRequest \notin Request
    /\ MaxPaths \in Nat
    /\ MaxPoints \in Nat
    /\ \A r \in Request :
        /\ r.gesture \in STRING
        /\ r.numbers \in [DOMAIN r.numbers -> Int]
        /\ r.words \in [DOMAIN r.words -> STRING]
        /\ r.specifier \in {"coordinate", "coordinates", "both", "mark"}
        /\ r.points \in Seq(Coordinate)
        /\ r.specifier = "coordinate" => Len(r.points) = 1
        /\ float(degrees(r)) = degrees(r)
        /\ degrees(r) < 4 => degrees(r) % 2 = 0

Margin == 10            \* what tap gestures add to a duration
Pause == 100            \* CBX_DOUBLE_TAP_PAUSE_DURATION
LongPress == 500        \* CBX_MIN_LONG_PRESS_DURATION
FingerWidth == 78       \* CBX_FINGER_WIDTH
HaltDistance == 2       \* dragHaltDistance
HaltTime == 50          \* the rest of a drag without inertia
Epsilon == 1            \* CBX_GESTURE_EPSILON

VARIABLES
    request,    \* the request the handler is at
    pc,         \* "idle", "build", "send", or "killed"
    event,      \* the paths that are complete
    steps,      \* the touch and the moves of the path that is not
    left,       \* the degrees a rotation still has to go
    count,      \* the points of a circle that were counted on the way
    finger,     \* how many fingers have their path
    turn,       \* how many repetitions, or points of the path, are done
    offset,     \* the time the gesture has come to
    reply       \* how the last request was answered

circle == <<left, count>>
building == <<event, steps, circle, finger, turn, offset>>
vars == <<request, pc, building, reply>>

Step == [at : Int, point : Coordinate]
Path == [finger : Nat, turn : Nat, steps : Seq(Step), up : Int]

TypeOK ==
    /\ request \in Request \cup {NoRequest}
    /\ pc \in {"idle", "build", "send", "killed"}
    /\ pc = "idle" <=> request = NoRequest
    /\ event \in Seq(Path)
    /\ steps \in Seq(Step)
    /\ left \in Int
    /\ count \in 0 .. MaxPoints
    /\ finger \in Nat
    /\ turn \in Nat
    /\ offset \in Int
    /\ reply \in {"none", "refused", "success", "error"}

Init ==
    /\ request = NoRequest
    /\ pc = "idle"
    /\ event = <<>>
    /\ steps = <<>>
    /\ left = 0
    /\ count = 0
    /\ finger = 0
    /\ turn = 0
    /\ offset = 0
    /\ reply = "none"

-------------------------------------------------------------------------------
(* Which requests are refused.                                             *)

optionalKeys ==
    [touch |-> {"repetitions", "duration", "num_fingers"},
     double_tap |-> {"duration"},
     two_finger_tap |-> {"duration"},
     drag |-> {"allow_inertia", "first_touch_hold_duration", "duration", "num_fingers"},
     pinch |-> {"duration", "amount", "pinch_direction"},
     rotate |-> {"duration", "degrees", "rotation_start", "rotation_direction", "radius"}]

(* There is a class for the gesture, and it knows every key. *)
validKeys(r) ==
    /\ r.gesture \in DOMAIN optionalKeys
    /\ DOMAIN r.numbers \cup DOMAIN r.words \subseteq optionalKeys[r.gesture]

(* A specifier other than a position makes a query, which gestures refuse. *)
validSpecifier(r) == r.specifier \in {"coordinate", "coordinates"}

(* The limit on fingers refuses the maximum itself; less than one finger has *)
(* no positions.                                                             *)
validTouch(r) ==
    /\ r.specifier # "coordinates"
    /\ numFingers(r) \in 1 .. 4
    /\ duration(r) >= 100

validTap(r) ==
    /\ r.specifier # "coordinates"
    /\ duration(r) < LongPress

validDrag(r) ==
    /\ r.specifier # "coordinate" /\ Len(r.points) >= 2
    /\ numFingers(r) \in 1 .. 5

(* No degrees make no points, whose first is read. *)
validRotation(r) ==
    /\ degrees(r) > 0
    /\ rotationStart(r) \in 0 .. 4 * 360
    /\ rotateDirection(r) \in {"clockwise", "counterclockwise"}
    /\ r.points # <<>>

valid(r) ==
    /\ validKeys(r) /\ validSpecifier(r)
    /\ r.gesture = "touch" => validTouch(r)
    /\ r.gesture \in {"double_tap", "two_finger_tap"} => validTap(r)
    /\ r.gesture = "drag" => validDrag(r)
    /\ r.gesture = "pinch" => r.points # <<>>
    /\ r.gesture = "rotate" => validRotation(r)

(* Fault: a request is kept although it is refused. *)
RemembersRefused(r) ==
    /\ pc = "idle"
    /\ request' = r
    /\ IF valid(r) THEN pc' = "build" /\ reply' = "none" ELSE pc' = pc /\ reply' = "refused"
    /\ offset' = duration(r) + Margin
    /\ UNCHANGED <<event, steps, circle, finger, turn>>

(* A request comes.  A touch starts its clock at the end of the first touch. *)
receive(r) ==
    /\ pc = "idle"
    /\ \/ /\ ~valid(r)
          /\ reply' = "refused"
          /\ UNCHANGED <<request, pc, building>>
       \/ /\ valid(r)
          /\ request' = r
          /\ pc' = "build"
          /\ offset' = IF r.gesture \in {"touch", "double_tap", "two_finger_tap"}
                       THEN duration(r) + Margin ELSE 0
          /\ left' = IF r.gesture = "rotate" THEN degrees(r) ELSE 0
          /\ reply' = "none"
          /\ UNCHANGED <<event, steps, count, finger, turn>>

-------------------------------------------------------------------------------
(* TouchPath.                                                              *)

withFirstTouchPoint(point, t) == <<[at |-> t, point |-> point]>>
moveToNextPoint(s, point, t) == Append(s, [at |-> t, point |-> point])
liftUp(k, n, s, t) == [finger |-> k, turn |-> n, steps |-> s, up |-> t]

shift(point, dx) == <<point[1] + dx, point[2]>>

(* A finger that goes down and up in one place. *)
tap(k, n, point, down, up) == liftUp(k, n, withFirstTouchPoint(point, down), up)

(* The path at hand is lifted and the next finger begins. *)
addTouchPath(up) ==
    /\ event' = Append(event, liftUp(finger, 0, steps, up))
    /\ steps' = <<>>
    /\ finger' = finger + 1
    /\ turn' = 0

begins(gesture) == pc = "build" /\ request.gesture = gesture

-------------------------------------------------------------------------------
(* Touches, taps and pinches.                                              *)

(* An unsigned index compared with an int, which becomes unsigned. *)
lessThan(index, int) == int < 0 \/ index < int

(* Fingers lie beside each other around the point. *)
fingerCoordinates(point, fingers) ==
    [k \in 1 .. fingers |-> shift(point, (FingerWidth \div 2) * (2 * k - fingers - 1))]

(* One turn of the loop over the repetitions.  The first touch lasts as long *)
(* as was asked, the others as long as a pause.                              *)
touch ==
    /\ begins("touch")
    /\ lessThan(turn, repetitions(request))
    /\ LET n == numFingers(request)
           at == fingerCoordinates(request.points[1], n)
           down == IF turn = 0 THEN 0 ELSE offset
           up == IF turn = 0 THEN offset ELSE offset + Pause
       IN /\ Len(event) + n <= MaxPaths
          /\ event' = event \o [k \in 1 .. n |-> tap(k, turn, at[k], down, up)]
          /\ offset' = up + Pause + duration(request) + Margin
    /\ turn' = turn + 1
    /\ UNCHANGED <<request, pc, steps, finger, reply, circle>>

(* Fault: the second tap comes when the first has just ended. *)
TapsAtOnce ==
    /\ begins("double_tap") /\ event = <<>>
    /\ LET point == request.points[1]
       IN event' = <<tap(1, 0, point, 0, offset), tap(1, 1, point, offset, offset + Pause)>>
    /\ UNCHANGED <<request, pc, steps, finger, turn, offset, reply, circle>>

doubleTap ==
    /\ begins("double_tap") /\ event = <<>>
    /\ LET point == request.points[1]
           second == offset + Pause
       IN event' = <<tap(1, 0, point, 0, offset), tap(1, 1, point, second, second + Pause)>>
    /\ UNCHANGED <<request, pc, steps, finger, turn, offset, reply, circle>>

(* The pause is added to the time both fingers are down. *)
twoFingerTap ==
    /\ begins("two_finger_tap") /\ event = <<>>
    /\ LET point == request.points[1]
           x == FingerWidth \div 2
       IN event' = <<tap(1, 0, shift(point, x), 0, offset + Pause),
                     tap(2, 0, shift(point, -x), 0, offset + Pause)>>
    /\ UNCHANGED <<request, pc, steps, finger, turn, offset, reply, circle>>

(* One of the two fingers of a pinch, from the center or to it. *)
pinch ==
    /\ begins("pinch") /\ finger < 2
    /\ LET center == request.points[1]
           end == shift(center, IF finger = 0 THEN -pinchAmount(request) ELSE pinchAmount(request))
           first == IF pinchDirection(request) = "in" THEN center ELSE end
           last == IF pinchDirection(request) = "in" THEN end ELSE center
           path == moveToNextPoint(withFirstTouchPoint(first, 0), last, duration(request))
       IN event' = Append(event, liftUp(finger, 0, path, duration(request) + Epsilon))
    /\ finger' = finger + 1
    /\ UNCHANGED <<request, pc, steps, turn, offset, reply, circle>>

-------------------------------------------------------------------------------
(* Drags: a path for each finger, a point of it for each coordinate.       *)

fingerOffsetForFingerIndex(index) ==
    FingerWidth * << 0, 1, -1, 2, -2 >>[(index % 5) + 1]

(* A little further than the last coordinate, coming from the one before. *)
beyond(a, b) == IF b > a THEN b + HaltDistance ELSE IF b < a THEN b - HaltDistance ELSE b
haltPoint(point, previous) == <<beyond(previous[1], point[1]), beyond(previous[2], point[2])>>

(* Fault: the clock of one finger goes on for the next. *)
KeepsTheClock ==
    /\ begins("drag") /\ steps = <<>> /\ finger < numFingers(request)
    /\ steps' = withFirstTouchPoint(
                  shift(request.points[1], fingerOffsetForFingerIndex(finger)), 0)
    /\ UNCHANGED <<request, pc, event, finger, turn, offset, reply, circle>>

beginDrag ==
    /\ begins("drag") /\ steps = <<>> /\ finger < numFingers(request)
    /\ steps' = withFirstTouchPoint(
                  shift(request.points[1], fingerOffsetForFingerIndex(finger)), 0)
    /\ offset' = 0
    /\ UNCHANGED <<request, pc, event, finger, turn, reply, circle>>

(* Fault: the halt takes the place of the last coordinate. *)
HaltsInstead ==
    /\ begins("drag") /\ steps # <<>> /\ turn < Len(request.points)
    /\ LET points == request.points
           hold == dragFirstTouchHoldDuration(request)
           dx == fingerOffsetForFingerIndex(finger)
           point == points[turn + 1]
           last == turn + 1 = Len(points) /\ ~allowDragToHaveInertia(request)
       IN IF turn = 0 /\ hold <= 0 THEN UNCHANGED <<steps, offset>>
          ELSE /\ offset' = offset + duration(request) + (IF turn = 0 THEN hold ELSE 0)
               /\ steps' = moveToNextPoint(steps,
                             shift(IF last THEN haltPoint(point, points[turn]) ELSE point, dx), offset')
    /\ turn' = turn + 1
    /\ UNCHANGED <<request, pc, event, finger, reply, circle>>

(* The first coordinate is where the finger is: it is a point of its own    *)
(* only if the finger holds there.  Without inertia the last one is reached *)
(* from a point beyond it.                                                  *)
dragToCoordinate ==
    /\ begins("drag") /\ steps # <<>> /\ turn < Len(request.points)
    /\ LET points == request.points
           hold == dragFirstTouchHoldDuration(request)
           dx == fingerOffsetForFingerIndex(finger)
           point == points[turn + 1]
           held == offset + duration(request) + (IF turn = 0 THEN hold ELSE 0)
           halt == shift(haltPoint(point, points[turn]), dx)
       IN \/ /\ turn = 0 /\ hold <= 0
             /\ UNCHANGED <<steps, offset>>
          \/ /\ turn > 0 \/ hold > 0
             /\ turn + 1 < Len(points) \/ allowDragToHaveInertia(request)
             /\ steps' = moveToNextPoint(steps, shift(point, dx), held)
             /\ offset' = held
          \/ /\ turn + 1 = Len(points) /\ ~allowDragToHaveInertia(request)
             /\ steps' = moveToNextPoint(moveToNextPoint(steps, halt, held),
                                         shift(point, dx), held + HaltTime)
             /\ offset' = held + HaltTime
    /\ turn' = turn + 1
    /\ UNCHANGED <<request, pc, event, finger, reply, circle>>

(* Fault: the finger is lifted after the duration, wherever it is. *)
LiftsAfterDuration ==
    /\ begins("drag") /\ steps # <<>> /\ turn = Len(request.points)
    /\ addTouchPath(duration(request))
    /\ UNCHANGED <<request, pc, offset, reply, circle>>

liftDrag ==
    /\ begins("drag") /\ steps # <<>> /\ turn = Len(request.points)
    /\ addTouchPath(offset)
    /\ UNCHANGED <<request, pc, offset, reply, circle>>

-------------------------------------------------------------------------------
(* Rotations: two fingers on opposite sides of a circle.                   *)

(* Fault: a rotation by less than a degree has no increment. *)
WholeDegrees(r) == IF degrees(r) >= 4 THEN 4 ELSE 0

increment(r) == IF degrees(r) >= 4 THEN 4 ELSE degrees(r) \div 2

(* A point is made as long as there is some way to go, which is counted down *)
(* in floats: far away the increment is lost and the way does not get less.  *)
(* Both fingers count alike, so they do it once here.                        *)
countDown ==
    /\ begins("rotate") /\ left > 0
    /\ count < MaxPoints
    /\ count' = count + 1
    /\ left' = float(left - increment(request))
    /\ UNCHANGED <<request, pc, event, steps, finger, turn, offset, reply>>

timeIncrement(r) == rotateDuration(r) \div count

startAngle(r, k) == IF k = 0 THEN rotationStart(r) ELSE rotationStart(r) - 4 * 180

(* Fault: the direction is ignored. *)
TurnsClockwise(r, angle) == float(angle + increment(r))

nextAngle(r, angle) ==
    float(IF rotateDirection(r) = "clockwise" THEN angle + increment(r) ELSE angle - increment(r))

beginRotation ==
    /\ begins("rotate") /\ left <= 0 /\ steps = <<>> /\ finger < 2
    /\ steps' = withFirstTouchPoint(<<startAngle(request, finger), radius(request)>>, 0)
    /\ offset' = 0
    /\ turn' = 1
    /\ UNCHANGED <<request, pc, event, finger, reply, circle>>

rotate ==
    /\ begins("rotate") /\ steps # <<>> /\ turn < count
    /\ offset' = offset + timeIncrement(request)
    /\ LET angle == nextAngle(request, steps[Len(steps)].point[1])
       IN steps' = moveToNextPoint(steps, <<angle, radius(request)>>, offset')
    /\ turn' = turn + 1
    /\ UNCHANGED <<request, pc, event, finger, reply, circle>>

liftRotation ==
    /\ begins("rotate") /\ steps # <<>> /\ turn = count
    /\ addTouchPath(offset)
    /\ UNCHANGED <<request, pc, offset, reply, circle>>

-------------------------------------------------------------------------------
complete(r) ==
    \/ r.gesture = "touch" /\ ~lessThan(turn, repetitions(r))
    \/ r.gesture \in {"double_tap", "two_finger_tap"} /\ event # <<>>
    \/ r.gesture = "drag" /\ finger = numFingers(r)
    \/ r.gesture \in {"pinch", "rotate"} /\ finger = 2

(* The runner has no memory left, for paths or for points. *)
killed ==
    /\ \/ /\ begins("touch") /\ lessThan(turn, repetitions(request))
          /\ Len(event) + numFingers(request) > MaxPaths
       \/ /\ begins("rotate") /\ left > 0
          /\ count = MaxPoints
    /\ pc' = "killed"
    /\ UNCHANGED <<request, building, reply>>

(* The event goes to testmanagerd; a touch of no repetitions sends none. *)
send ==
    /\ pc = "build" /\ complete(request)
    /\ pc' = "send"
    /\ UNCHANGED <<request, building, reply>>

(* testmanagerd has performed it, or has not, and the request is answered. *)
synthesize ==
    /\ pc = "send"
    /\ reply' \in {"success", "error"}
    /\ request' = NoRequest
    /\ pc' = "idle"
    /\ event' = <<>>
    /\ steps' = <<>>
    /\ left' = 0
    /\ count' = 0
    /\ finger' = 0
    /\ turn' = 0
    /\ offset' = 0

handler ==
    \/ touch \/ killed \/ doubleTap \/ twoFingerTap \/ pinch
    \/ beginDrag \/ dragToCoordinate \/ liftDrag
    \/ countDown \/ beginRotation \/ rotate \/ liftRotation
    \/ send

Next == (\E r \in Request : receive(r)) \/ handler \/ synthesize

Spec == Init /\ [][Next]_vars

(* The main thread runs, and testmanagerd answers. *)
FairSpec == Spec /\ WF_vars(handler) /\ WF_vars(synthesize)

-------------------------------------------------------------------------------
(* Properties.                                                             *)

(* Time does not run backwards along a finger's path: no point comes before *)
(* the one in front of it, nor the lift before the last point, whatever is  *)
(* added up on the way (a negative duration is the client's own doing).     *)
inOrder(s, up) ==
    /\ \A i \in 1 .. Len(s) - 1 : s[i].at <= s[i + 1].at
    /\ s # <<>> => s[Len(s)].at <= up

Forward(r) == (IF r.gesture = "rotate" THEN rotateDuration(r) ELSE duration(r)) >= 0

WellTimed ==
    request # NoRequest /\ Forward(request) =>
        /\ \A i \in 1 .. Len(event) : inOrder(event[i].steps, event[i].up)
        /\ inOrder(steps, offset)

(* A finger that comes down again has been up for a pause: repeated touches *)
(* and the two of double_tap are separate taps to a recognizer.             *)
TapsAreApart ==
    \A i, j \in 1 .. Len(event) :
        event[i].finger = event[j].finger /\ event[i].turn < event[j].turn
            => event[i].up + Pause <= event[j].steps[1].at

(* The angles of a rotation are of a size at which no float is rounded. *)
Precise(r) == degrees(r) + 4 * 540 <= Exact

(* The fingers of a gesture touch, move and lift at the same moments, and   *)
(* keep their distance: the width of a finger at least when they touch and  *)
(* drag, the opposite side of the circle when they rotate.                  *)
Apart(p, q) ==
    \/ request.gesture = "pinch"
    \/ /\ request.gesture = "rotate"
       /\ Precise(request) => p[1] - q[1] \in {4 * 180, -4 * 180}
       /\ p[2] = q[2]
    \/ /\ request.gesture \in {"touch", "two_finger_tap", "drag"}
       /\ p[2] = q[2]
       /\ p[1] - q[1] >= FingerWidth \/ q[1] - p[1] >= FingerWidth

FingersMoveTogether ==
    \A i, j \in 1 .. Len(event) :
        LET p == event[i] q == event[j]
        IN p.finger # q.finger /\ p.turn = q.turn
               => /\ p.up = q.up
                  /\ Len(p.steps) = Len(q.steps)
                  /\ \A k \in 1 .. Len(p.steps) :
                        /\ p.steps[k].at = q.steps[k].at
                        /\ Apart(p.steps[k].point, q.steps[k].point)

(* A dragging finger passes every coordinate in turn, holds as long as it   *)
(* was asked at the first, takes the duration at least from there to the    *)
(* last, and ends at it (unless the client asked for a negative duration);  *)
(* without inertia, it comes there from a point no further than the halt    *)
(* distance, in some time.  That a drag takes longer than its duration is   *)
(* known (Drag.h:17); how long each of its parts takes is not stated.       *)
PassesAt(p, points, f) ==
    LET dx == p.steps[1].point[1] - points[1][1]
        at(i) == p.steps[f[i]].at
    IN /\ \A i \in 1 .. Len(points) : p.steps[f[i]].point = shift(points[i], dx)
       /\ \A i \in 1 .. Len(points) - 1 : f[i] < f[i + 1]
       /\ f[Len(points)] = Len(p.steps)
       /\ duration(request) >= 0 =>
             /\ at(1) >= dragFirstTouchHoldDuration(request)
             /\ at(Len(points)) - at(1) >= duration(request)

RestsAtTheEnd(p) ==
    LET n == Len(p.steps)
        d(c) == p.steps[n].point[c] - p.steps[n - 1].point[c]
    IN /\ \A c \in {1, 2} : d(c) \in -HaltDistance .. HaltDistance
       /\ p.steps[n].at > p.steps[n - 1].at

DragPassesThrough ==
    pc = "send" /\ request.gesture = "drag" =>
        \A i \in 1 .. Len(event) :
            LET p == event[i] points == request.points
            IN /\ \E f \in [1 .. Len(points) -> 1 .. Len(p.steps)] : PassesAt(p, points, f)
               /\ allowDragToHaveInertia(request) \/ RestsAtTheEnd(p)

(* A rotation turns in the direction it was asked, one increment short of   *)
(* its degrees at most and never past them, as long as its angles are of a  *)
(* size at which floats tell quarters of a degree apart, and it takes no    *)
(* longer than its duration.                                                *)
RotationKeepsItsMeasure ==
    pc = "send" /\ request.gesture = "rotate" =>
        \A i \in 1 .. Len(event) :
            LET s == event[i].steps
                angle == s[Len(s)].point[1] - s[1].point[1]
                way == IF rotateDirection(request) = "clockwise" THEN angle ELSE -angle
            IN /\ Precise(request) => way \in degrees(request) - increment(request) .. degrees(request)
               /\ rotateDuration(request) >= 0 => event[i].up <= rotateDuration(request)

(* Two requests build for ever: a touch of less than no repetitions, which  *)
(* the unsigned count never reaches (Touch.m:81), and a rotation by more    *)
(* than 2^24 + 2 degrees, from which a float cannot count down in steps of  *)
(* one (Rotate.m:84).                                                       *)
Endless(r) ==
    \/ r.gesture = "touch" /\ repetitions(r) < 0
    \/ r.gesture = "rotate" /\ degrees(r) > 4 * (Exact + 2)

(* There is memory for the paths of a touch, and the points of a rotation. *)
Fits(r) ==
    /\ r.gesture = "touch" => repetitions(r) * numFingers(r) <= MaxPaths
    /\ r.gesture = "rotate" => degrees(r) <= 4 * MaxPoints /\ 2 <= MaxPoints

(* Every gesture the runner has memory for is answered, and one that builds *)
(* for ever ends as the runner does, whatever memory there is: it is never  *)
(* sent in part.                                                            *)
GesturesEnd ==
    /\ pc = "build" /\ ~Endless(request) /\ Fits(request) ~> pc = "idle"
    /\ pc = "build" /\ Endless(request) ~> pc = "killed"

(* Touch.m: "For example, a recognizer with 1.0 minimum duration will not   *)
(* be triggered by a 1.0 duration, but it will be triggered by a 1.01       *)
(* duration": each touch lasts as long as was asked, and a little more.     *)
TouchesLast ==
    pc = "send" /\ request.gesture = "touch" =>
        \A i \in 1 .. Len(event) :
            event[i].up - event[i].steps[1].at >= duration(request)
================================================================================
