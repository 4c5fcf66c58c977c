CONSTANTS
    EventKinds = {"message_start", "delta", "message_stop", "error"}
    MaxWrites = 20
    MaxKeepAlives = 1
    MaxFrames = 2
SPECIFICATION ReqSpec
INVARIANTS
    Answered
    OneAttemptShown
    VisibleIsSent
PROPERTIES
    ClientSeesOneMessage
    RequestEnds
CHECK_DEADLOCK FALSE
