SPECIFICATION FairSpec
CONSTANTS
    Field = {"field"}
    NoField = NoField
    MaxText = 3
    Wheels <- MCWheels
    Buttons = {"home", "volume"}
    MaxPending = 2
INVARIANTS TypeOK
PROPERTIES SuccessMeansPerformed StopsAtTheFirstError ClearedIsEmpty RequestReturns PickerIsSetIfThere
