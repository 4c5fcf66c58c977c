CONSTANTS
    EventKinds = {"event", "error"}
    MaxWrites = 3
    MaxKeepAlives = 2
SPECIFICATION FairSpec
INVARIANTS
    JsonIsAlone
    Delivery
    HeartbeatJoined
PROPERTIES
    WireClosed
    FinalErrorUninterrupted
    StopReturns
CHECK_DEADLOCK FALSE
