SPECIFICATION MCSpec
CONSTANTS
    Elements <- DurationOnly
    Bound <- DurationBound
    Fraction = 4
    Second = 3
    flags = {"json"}
    value_options = {"model", "task"}
    kLimit = 80
    Unit <- MCUnit
    DigitValue <- MCDigitValue
    Digits = 1
    Limits = {1, 2}
    MaxInput = 7
    MaxPiece = 4
    Keys = {a, b, c}
    Capacities = {0, 2}
    MaxUses = 6
    rate = 2
    burst = 3
    Steps <- MCSteps
    Amounts <- MCAmounts
    MaxCalls = 4
    Capacity = 2
    Modulus = 4
    MaxPushes = 6
    Raw = Raw
INVARIANTS
    FractionsTruncated
CHECK_DEADLOCK FALSE
