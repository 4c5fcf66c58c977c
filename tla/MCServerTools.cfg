CONSTANTS
    DeferredTools = {read}
    MaxToolSearchRounds = 2
    MaxServerToolRounds = 3
    MaxUses = 1
    AdvisorEmptyRetries = 1
    MaxFrames = 3
SPECIFICATION Spec
INVARIANTS
    MessageEndsOnce
    ServerToolsAnswered
    CallsBounded
    TurnBelongsToClient
PROPERTIES
    OneRunShown
    RequestEnds
CHECK_DEADLOCK FALSE
