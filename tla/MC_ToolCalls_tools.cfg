SPECIFICATION Spec
CONSTANTS
    search = search
    madeUp = madeUp
    Tools = {search}
    Names = {search, madeUp}
    MaxCalls = 2
    HistoryLimit = 4
    MaxTexts = 3
INVARIANTS
    ToolCallsInv
    EveryCallAnswered
    OutputsAreTheirOwn
    OrphansOnlyAtWindowStart
CHECK_DEADLOCK FALSE
