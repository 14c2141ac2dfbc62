SPECIFICATION FairSpec
CONSTANTS
    Namespaces <- AnyNamespace
    MaxOps = 2
    MaxFaults = 1
    MaxStale = 1
INVARIANT TypeOK
INVARIANT AtMostOneServer
INVARIANT FinalizerBeforeServer
PROPERTY SyncedNamesServer
PROPERTY Converges
PROPERTY DeletionCompletes
CHECK_DEADLOCK FALSE
