SPECIFICATION MCSpec
CONSTANTS
    ErrorCode <- SomeErrorCodes
    max_tool_rounds = 2
    Tools = TRUE
    Raises <- Everywhere
    MaxCalls = 2
    MaxShown = 2
    MaxHistory = 3
    MaxUsage = 5
PROPERTIES
    RolledBack
CHECK_DEADLOCK FALSE
