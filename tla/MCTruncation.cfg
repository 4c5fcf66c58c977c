CONSTANTS
    MaxFrames = 3
    MaxPieces = 2
    MaxAhead = 0
SPECIFICATION Spec
INVARIANT TruncationDetected
CHECK_DEADLOCK FALSE
