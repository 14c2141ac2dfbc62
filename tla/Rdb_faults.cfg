SPECIFICATION Spec
CONSTANTS
    Projects = {"p1"}
    Engines = {"pg15", "pg16"}
    Nodes = {"small", "large"}
    Specs <- ValidOrBadRegion
    Namespaces <- AnyNamespace
    Values = {"password"}
    Readable = {"password"}
    MaxOps = 2
    MaxFaults = 1
    MaxStale = 1
INVARIANT TypeOK
INVARIANT AtMostOneDatabase
INVARIANT FinalizerBeforeDatabase
INVARIANT KeptUntilDeleted
INVARIANT DriftReportedFirst
PROPERTY RetainHonoured
PROPERTY SyncedNamesDatabase
CHECK_DEADLOCK FALSE
