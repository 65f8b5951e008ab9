SPECIFICATION FairSpec
CONSTANTS
    NumTasks = 2
    jobs = 2
    repair_rounds = 1
    Settings <- AllSettings
    Texts <- AnyText
INVARIANTS
    ResultsWellFormed
    EveryTaskReported
PROPERTIES
    ResultsStable
    RunEnds
CHECK_DEADLOCK FALSE
