SPECIFICATION FairSpec
CONSTANTS
    Callers = {c1, c2}
    max_attempts = 2
    HttpStatuses <- SomeHttpStatuses
    ApiStatuses <- SomeApiStatuses
    Requests <- AllRequests
    Pages = 2
    MaxChunks = 2
    MaxRequests = 2
INVARIANTS
    ShownIsAggregate
    MetricsConserved
    ModelsComplete
PROPERTIES
    Implements
    EveryCallReturns
CHECK_DEADLOCK FALSE
