SPECIFICATION FairSpec
CONSTANTS
    Alert <- MCAlert
    Title <- MCTitle
    NoTitle = NoTitle
    Buttons <- MCButtons
    Entry <- MCEntry
    MaxTries = 3
    MaxShowing = 2
PROPERTIES OnlyKnownAlertsAreTouched
