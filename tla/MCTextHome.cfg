SPECIFICATION FairSpec
CONSTANTS
    Field <- MCField
    NoField = NoField
    MaxText = 2
    Wheels <- MCWheels
    Buttons = {"home", "volume"}
    MaxPending = 2
PROPERTIES HomeWaitsForItsEvent
