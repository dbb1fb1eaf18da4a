SPECIFICATION Spec
CONSTANTS
    Conn = {c1, c2}
    NoConn = NoConn
    MaxRequests = 3
    Kinds = {"closing", "tree", "gesture", "shutdown", "invalid"}
SYMMETRY Symmetry
INVARIANTS TypeOK PipelineOrder HandlerServesTheHead OpenSocketIsOwned NobodyWaitsInVain
PROPERTIES StopKeepsReplies
CHECK_DEADLOCK FALSE
