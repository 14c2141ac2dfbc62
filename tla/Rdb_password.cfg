SPECIFICATION FairSpec
CONSTANTS
    Projects = {"p1"}
    Engines = {"pg15"}
    Nodes = {"small"}
    Specs <- OneSpec
    Namespaces <- Ready
    Values = {"password", "binary"}
    Readable = {"password"}
    MaxOps = 1
    MaxFaults = 0
    MaxStale = 0
PROPERTY CorrectedPasswordIsSeen
CHECK_DEADLOCK FALSE
