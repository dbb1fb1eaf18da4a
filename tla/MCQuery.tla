-------------------------------- MODULE MCQuery --------------------------------
EXTENDS Query

(* A keyboard with a row and a key in it, a button and a text field; the key *)
(* and the button have the same label.                                       *)
MCElement == {"keyboard", "row", "key", "button", "field"}
MCPlace == [keyboard |-> 1, row |-> 2, key |-> 3, button |-> 4, field |-> 5]
MCAncestors == [keyboard |-> {}, row |-> {"keyboard"}, key |-> {"keyboard", "row"},
                button |-> {}, field |-> {}]

filter(name, matches) ==
    [name |-> name, valid |-> TRUE, matches |-> matches, parents |-> {}, index |-> 0]
malformed(name) ==
    [name |-> name, valid |-> FALSE, matches |-> {}, parents |-> {}, index |-> 0]
index(i) ==
    [name |-> "index", valid |-> TRUE, matches |-> {}, parents |-> {}, index |-> i]

ok == filter("marked", {"key", "button"})
any == filter("type", MCElement)
buttons == filter("type", {"key", "button"})
keys == [name |-> "descendant_element", valid |-> TRUE, matches |-> {"key", "button"},
         parents |-> {"keyboard"}, index |-> 0]

(* Filters and an index, filters alone, descendants with and without them,   *)
(* and bodies that are refused at one stage or another.                      *)
MCBodies ==
    {{ok, index(1)}, {any}, {ok, buttons, index(0)}, {keys}, {keys, index(0)},
     {keys, ok}, {keys, ok, index(0)},
     {}, {filter("query", {})}, {filter("query", {}), ok},
     {ok, filter("unsupported", {})}, {malformed("type"), ok},
     {filter("coordinate", {})}, {filter("coordinate", {}), filter("coordinates", {})}}
================================================================================
