SPECIFICATION MCFairSpec
CONSTANTS
    ErrorCode <- SomeErrorCodes
    max_tool_rounds = 2
    Tools = TRUE
    Raises <- Everywhere
    MaxCalls = 2
    MaxShown = 2
    MaxHistory = 3
    MaxUsage = 5
INVARIANTS
    RequestWellFormed
PROPERTIES
    AllOrNothing
    CutByItsOwnCtrlC
    EverySendReturns
CHECK_DEADLOCK FALSE
