---------------------------- MODULE MCTextGestures ----------------------------
EXTENDS TextGestures

(* A text field and a search bar; pickers with two wheels, none and one. *)
MCField == {"field", "search"}
MCWheels == <<2, 0, 1>>
===============================================================================
