CONSTANTS
    DeferredTools = {read}
    MaxToolSearchRounds = 2
    MaxServerToolRounds = 3
    MaxUses = 1
    AdvisorEmptyRetries = 1
    MaxFrames = 3
SPECIFICATION Spec
INVARIANT FinalizedOnce
CHECK_DEADLOCK FALSE
