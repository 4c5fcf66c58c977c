CONSTANTS
    c1 = c1
    c2 = c2
    Callers = {c1, c2}
    MaxTokens = 2
    MaxCalls = 2
SPECIFICATION UpstreamSpec
SYMMETRY CallerSymmetry
INVARIANTS
    NoExpiredTokenServed
    RefreshOnlyWhenNeeded
    ForcedAloneIsReal
    RetryIsNotBurnt
    AttemptsBounded
