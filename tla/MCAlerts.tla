------------------------------- MODULE MCAlerts -------------------------------
EXTENDS SpringBoard

(* Alerts of the English dictionary, with the buttons iOS gives them, one   *)
(* whose buttons an update has renamed, and one nobody has heard of.        *)
MCAlert == {"location", "settings", "renamed", "storage"}

MCTitle == {"Always Allow", "Allow While Using App", "Allow Once", "Don't Allow",
            "Not Now", "Update", "OK"}

MCButtons ==
    [location |-> <<"Allow While Using App", "Allow Once", "Don't Allow">>,
     settings |-> <<"Update", "Not Now">>,
     renamed  |-> <<"Don't Allow", "OK">>,
     storage  |-> <<"OK">>]

MCEntry ==
    [location |-> [marks |-> <<"Always Allow", "Allow While Using App">>,
                   shouldAccept |-> TRUE],
     settings |-> [marks |-> <<"Not Now">>, shouldAccept |-> FALSE],
     renamed  |-> [marks |-> <<"Always Allow">>, shouldAccept |-> TRUE]]

================================================================================
