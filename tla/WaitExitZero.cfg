SPECIFICATION Spec
CONSTANTS
    p1 = p1
    p2 = p2
    p3 = p3
    NoPid = NoPid
    Initial <- One
    Spare <- None
INVARIANT ExitReported
CHECK_DEADLOCK FALSE
