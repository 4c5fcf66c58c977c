SPECIFICATION Spec
CONSTANTS
    OverrideChoices <- MCOverrides
    Catalogs <- MCCatalogs
    Stems <- MCStems
    ClaudeStems <- MCClaudeStems
    Dashed <- MCDashed
    ForcedEfforts = {"", "xhigh", "turbo"}
    AskedEfforts = {"", "low", "none", "turbo"}
    Budgets = {0, 20000}
INVARIANTS PromiseKept EffortAsIntended
PROPERTIES BuiltinsKeep
