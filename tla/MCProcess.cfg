SPECIFICATION MCSpec
CONSTANTS
    timeout = 2
    startup_grace = 1
    await_marker = TRUE
    max_output_bytes = 2
    PipeCapacity = 2
    MaxWrites = 4
    Threads = {t1, t2}
    Pids = {p1, p2}
    NoThread = NoThread
    MaxCalls = 2
INVARIANTS
    NothingLeft
    BudgetSpent
    OutputComplete
    NoLeak
PROPERTIES
    OneCallReturns
    EofArrives
    EveryCallReturns
CHECK_DEADLOCK FALSE
