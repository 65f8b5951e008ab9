SPECIFICATION Spec
CONSTANTS
    Capacity = 2
    Modulus = 16
    MaxPushes = 4
    Raw = Raw
INVARIANTS
    SizeAtMostCapacity
CHECK_DEADLOCK FALSE
