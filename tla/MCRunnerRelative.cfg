SPECIFICATION Spec
CONSTANTS
    NumTasks = 2
    jobs = 2
    repair_rounds = 0
    Settings <- ReferenceOnly
    Texts <- AllUtf8
INVARIANTS
    TestFailuresHaveRun
CHECK_DEADLOCK FALSE
