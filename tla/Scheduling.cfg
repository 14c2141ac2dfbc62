SPECIFICATION SchedFairSpec
CONSTANTS
    Reconcilers = {a, b, c}
    Bypass = {c}
    Refused = {}
    Forbidden = {b}
    Threshold = 5
    Timeout = 2
    MaxOutages = 1
    MaxWakes = 1
    RecoveryTime = 14
INVARIANT TypeOK
INVARIANT FailuresBelowThreshold
INVARIANT ScheduleOK
INVARIANT RecoversInTime
PROPERTY OpenEndsInProbe
PROPERTY OpenWindowNotExtended
PROPERTY ClosesOnSuccess
PROPERTY ImplementsCircuitBreaker
PROPERTY Recovers
