SPECIFICATION FairSpec
CONSTANTS
    k1 = k1
    k2 = k2
    NoKey = NoKey
    Keys = {k1, k2}
    Projects = {"p1"}
    Pods = {"pod"}
    Specs <- AnySpec
    Sources <- AnySource
    Namespaces <- ReadyOrNoCreds
    MaxOps = 2
    MaxFaults = 1
PROPERTY Converges
PROPERTY OptOutIsApplied
PROPERTY DeletionCompletes
CHECK_DEADLOCK FALSE
