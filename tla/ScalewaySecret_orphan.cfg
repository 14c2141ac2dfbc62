SPECIFICATION Spec
CONSTANTS
    k1 = k1
    k2 = k2
    NoKey = NoKey
    Keys = {k1, k2}
    Projects = {"p1"}
    Pods = {"pod"}
    Specs <- OneKey
    Sources <- Granted
    Namespaces <- Ready
    MaxOps = 1
    MaxFaults = 0
PROPERTY SecretDeletedBeforeCR
CHECK_DEADLOCK FALSE
