SPECIFICATION FairSpec
CONSTANTS
    Bundle <- MCBundle
    NoApp = NoApp
    MaxAttempts = 3
    MaxPolls = 2
INVARIANTS TypeOK ReplyTellsLaunch FailureIsEarned
PROPERTIES TerminationHadTime RequestReturns
