SPECIFICATION FairSpec
CONSTANTS
    Projects = {"p1"}
    Engines = {"pg15", "pg16"}
    Nodes = {"small", "large"}
    Specs <- AnySpec
    Namespaces <- ReadyOrNoCreds
    Values = {"password"}
    Readable = {"password"}
    MaxOps = 2
    MaxFaults = 1
    MaxStale = 0
PROPERTY EventsStop
PROPERTY Converges
PROPERTY DeletionCompletes
CHECK_DEADLOCK FALSE
