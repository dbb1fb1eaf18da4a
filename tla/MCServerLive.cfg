SPECIFICATION FairSpec
CONSTANTS
    Conn = {c1, c2}
    NoConn = NoConn
    MaxRequests = 2
    Kinds = {"tree", "gesture", "shutdown"}
PROPERTIES EveryRequestSettles ShutdownEnds QueuedDisconnectsArrive ImplementsService
CHECK_DEADLOCK FALSE
