CONSTANTS
    MaxFrames = 3
    MaxPieces = 2
    MaxAhead = 0
SPECIFICATION Spec
INVARIANTS
    CallsIntact
    EndLosesNoCall
    OnlyCompleteCalls
PROPERTIES
    StopRespected
    StreamEnds
CHECK_DEADLOCK FALSE
