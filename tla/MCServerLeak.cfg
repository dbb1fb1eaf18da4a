SPECIFICATION FairSpec
CONSTANTS
    Conn = {c1, c2}
    NoConn = NoConn
    MaxRequests = 1
    Kinds = {"quick", "shutdown"}
PROPERTIES DeadConnectionsLeave
CHECK_DEADLOCK FALSE
