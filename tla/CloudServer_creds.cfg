SPECIFICATION Spec
CONSTANTS
    Namespaces <- Ready
    MaxOps = 1
    MaxFaults = 1
    MaxStale = 0
INVARIANT KeptUntilDeleted
CHECK_DEADLOCK FALSE
