SPECIFICATION Spec
CONSTANTS
    NumTasks = 2
    jobs = 2
    repair_rounds = 1
    Settings <- ModelOnly
    Texts <- AnyText
PROPERTIES
    AttemptsAreClassified
CHECK_DEADLOCK FALSE
