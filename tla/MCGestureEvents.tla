---------------------------- MODULE MCGestureEvents ----------------------------
EXTENDS GestureEvents, FiniteSets

(* The options with some of the keys of choices, each with one of its values. *)
Options(choices) ==
    UNION {{o \in [D -> UNION {choices[k] : k \in D}] : \A k \in D : o[k] \in choices[k]} :
              D \in SUBSET DOMAIN choices}

None == Options(<<>>)

Requests(gesture, numbers, words, specifiers) ==
    {[gesture |-> gesture, numbers |-> n, words |-> w, specifier |-> s[1], points |-> s[2]] :
        n \in numbers, w \in words, s \in specifiers}

One == <<"coordinate", <<<<50, 60>>>>>>
Two == <<"coordinates", <<<<50, 60>>, <<20, 60>>>>>>
Three == <<"coordinates", <<<<50, 60>>, <<50, 90>>, <<80, 30>>>>>>
Back == <<"coordinates", <<<<50, 60>>, <<20, 60>>, <<50, 60>>, <<50, 60>>>>>>
Empty == <<"coordinates", <<>>>>
Both == <<"both", <<<<50, 60>>>>>>
Mark == <<"mark", <<>>>>
Wrong == {One, Two, Empty, Both, Mark}

Touches ==
    Requests("touch", Options([duration |-> {99, 100, 500}, repetitions |-> {-1, 0, 2, 3},
                               num_fingers |-> {-1, 0, 2, 3, 4, 5}]), None, {One})

Taps ==
    UNION {Requests(g, Options([duration |-> {-50, 0, 450, 500}]), None, {One}) :
              g \in {"double_tap", "two_finger_tap"}}

Drags ==
    Requests("drag", Options([duration |-> {-100, 0, 300}, num_fingers |-> {0, 2, 5, 6},
                              allow_inertia |-> {0, 1},
                              first_touch_hold_duration |-> {-10, 200}]),
             None, {Two, Three, Back})

Pinches ==
    Requests("pinch", Options([duration |-> {400}, amount |-> {-20, 10}]),
             Options([pinch_direction |-> {"in", "out"}]), {One, Three})

(* The least rotation that has no end, and one that has, but wants too many *)
(* points for the memory there is.                                          *)
Far == 4 * 16777220
Long == 4 * 16777218

Rotations ==
    Requests("rotate", Options([duration |-> {-100, 1000},
                                degrees |-> {-4, 0, 2, 4, 6, 40, Long, Far},
                                rotation_start |-> {-4, 1440, 1444}]),
             Options([rotation_direction |-> {"clockwise", "counterclockwise", "sideways"}]),
             {One})

(* Every gesture with every wrong kind of specifier, a key of another       *)
(* gesture, and a gesture there is not.                                     *)
Refusals ==
    UNION {Requests(g, {<<>>}, None, Wrong) \cup
           Requests(g, Options([scale |-> {1}]), None, {One, Two}) :
              g \in {"touch", "double_tap", "two_finger_tap", "drag", "pinch", "rotate", "swipe"}}

MCRequest == Touches \cup Taps \cup Drags \cup Pinches \cup Rotations \cup Refusals
================================================================================
