SPECIFICATION FairSpec
CONSTANTS
    threads = 2
    Callers = {c1, c2}
    Owner = c1
    MaxTasks = 3
INVARIANTS
    Accounted
    Awake
PROPERTIES
    Implements
    EveryTaskRuns
    EveryCallReturns
CHECK_DEADLOCK FALSE
