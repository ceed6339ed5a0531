SPECIFICATION Spec
CONSTANTS
    Pools = {p1}
    Absent = Absent
    MaxBlock = 3
    MaxReaders = 1
    MaxFailures = 0
    MaxRemovals = 0
INVARIANT EventFeeIsCurrent
CHECK_DEADLOCK FALSE
