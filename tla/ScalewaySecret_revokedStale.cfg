SPECIFICATION Spec
CONSTANTS
    k1 = k1
    k2 = k2
    NoKey = NoKey
    Keys = {k1, k2}
    Projects = {"p1"}
    Pods = {"pod"}
    Specs <- OneKey
    Sources <- OnAndOff
    Namespaces <- Ready
    MaxOps = 2
    MaxFaults = 0
PROPERTY RevokedMeansDisabled
CHECK_DEADLOCK FALSE
