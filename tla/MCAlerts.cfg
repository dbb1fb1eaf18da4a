SPECIFICATION FairSpec
CONSTANTS
    Alert <- MCAlert
    Title <- MCTitle
    NoTitle = NoTitle
    Buttons <- MCButtons
    Entry <- MCEntry
    MaxTries = 4
    MaxShowing = 3
INVARIANTS TypeOK GestureIsUnblocked
PROPERTIES ManualTouchIsAsked StillAlertsAreKnown MarksComeFirst KnownAlertsAreCleared HandlerReturns
