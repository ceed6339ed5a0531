SPECIFICATION Spec
CONSTANTS
    Pools = {p1}
    Absent = Absent
    MaxBlock = 3
    MaxReaders = 2
    MaxFailures = 1
    MaxRemovals = 1
INVARIANTS TypeOK StaleClassificationIsQueued
PROPERTIES DynamicFeesSettle NeedyPoolIsFound QueuedPoolIsRead
CHECK_DEADLOCK FALSE
