SPECIFICATION Spec
CONSTANTS
    Request <- MCRequest
    NoRequest = NoRequest
    MaxPaths = 20
    MaxPoints = 12
INVARIANT TouchesLast
CHECK_DEADLOCK FALSE
