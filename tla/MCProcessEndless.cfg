SPECIFICATION FairSpec
CONSTANTS
    timeout = 2
    startup_grace = 1
    await_marker = TRUE
    max_output_bytes = 2
    PipeCapacity = 2
    MaxWrites = 4
PROPERTIES
    RunEnds
CHECK_DEADLOCK FALSE
