CONSTANTS
    Characters = {"<", "t", ">", "/"}
    OpenTag <- Open
    CloseTag <- Close
    StopLists <- Lists
    Budgets = {0, 1}
    MaxText = 7
    MaxChunk = 3
    MaxOpaque = 2
SPECIFICATION Spec
INVARIANTS
    TextIntact
    StopExact
    BudgetExact
CHECK_DEADLOCK FALSE
