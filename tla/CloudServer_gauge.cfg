SPECIFICATION FairSpec
CONSTANTS
    Namespaces <- Ready
    MaxOps = 0
    MaxFaults = 1
    MaxStale = 0
PROPERTY GaugeSelfCorrects
CHECK_DEADLOCK FALSE
