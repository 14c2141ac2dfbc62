SPECIFICATION Spec
CONSTANTS
    k1 = k1
    k2 = k2
    NoKey = NoKey
    Keys = {k1, k2}
    Projects = {"p1"}
    Pods = {"pod"}
    Specs <- OneKey
    Sources <- OnAndOff
    Namespaces <- Ready
    MaxOps = 3
    MaxFaults = 2
INVARIANT TypeOK
INVARIANT OnlyLastEnabled
INVARIANT AtMostOneSecret
INVARIANT FinalizerBeforeSecret
INVARIANT FinalizerKeptUntilDeleted
INVARIANT OnlyGrantedPayload
INVARIANT NoDuplicateVersion
PROPERTY VersionOnAnchoredSecret
PROPERTY SyncedIsTrue
PROPERTY RevokedVersionDisabled
PROPERTY ImplementsSecretSync
CHECK_DEADLOCK FALSE
