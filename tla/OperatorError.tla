--------------------------- MODULE OperatorError ---------------------------
(***************************************************************************)
(* The error values of the operator (error.rs) and what the controller     *)
(* does after a reconcile that returned one (error_policy in               *)
(* reconcilers.rs).  An error is the name of its variant: the text it      *)
(* carries only reaches logs and status messages.                          *)
(***************************************************************************)
EXTENDS Naturals

\* Variants that call for a change by the user: they are neither retried with
\* a backoff nor counted by the circuit breaker.
PermanentErrors ==
    {"InvalidZone", "InvalidInstanceType", "InvalidLbType", "ConfigError",
     "ProjectAccessDenied", "SecretSourceNotConfigured", "SecretOptInMissing",
     "SecretKeyNotFound", "SecretAccessDenied"}

Errors ==
    PermanentErrors \cup
    {"KubeError", "ScalewayError", "InstanceNotFound", "LbNotFound",
     "NetworkError", "SerializationError", "FinalizationError",
     "SecretNotFound", "RdbNotFound", "ScalewaySecretNotReady", "Unknown",
     "CircuitBreakerOpen"}

IsPermanent(e) == e \in PermanentErrors

\* Errors cured on an object that no controller watches: they are rechecked at
\* a fixed interval, permanent or not.
HasRecheckInterval(e) ==
    e \in {"SecretOptInMissing", "SecretKeyNotFound", "SecretAccessDenied",
           "ScalewaySecretNotReady"}

\* Does error_policy ask for another reconcile after error e?  The other
\* outcome is Action::await_change: only a watch event brings the object back.
RequeuesWithoutBackoff(e) == HasRecheckInterval(e)
Requeues(e) == HasRecheckInterval(e) \/ ~IsPermanent(e)

=============================================================================
