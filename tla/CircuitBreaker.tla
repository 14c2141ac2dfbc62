-------------------------- MODULE CircuitBreaker --------------------------
(***************************************************************************)
(* The circuit breaker that every reconcile shares (context.rs) and the    *)
(* way reconciles use it: one look at the breaker when the reconcile       *)
(* starts, then any number of Scaleway calls, each of which records its    *)
(* result (call_scaleway in reconcilers.rs).                               *)
(*                                                                         *)
(* Reconcilers are concurrent: between the look and a call, or while a     *)
(* call is in flight, others change the breaker.  Each of the breaker's    *)
(* own operations holds its mutex and is atomic.                           *)
(***************************************************************************)
EXTENDS Naturals, FiniteSets

CONSTANTS
    Reconcilers,  \* reconciles that may run at the same time
    Bypass,       \* those that call Scaleway even when the circuit is open:
                  \* deletions and opt-in revocations
    Refused,      \* those whose calls Scaleway answers with a 4xx
    Forbidden,    \* those whose calls end in a permanent error
    Threshold,    \* CIRCUIT_FAILURE_THRESHOLD
    Timeout,      \* CIRCUIT_OPEN_TIMEOUT, in ticks
    MaxOutages    \* bound: outages of the Scaleway API

ASSUME BreakerAssumption ==
    /\ Bypass \subseteq Reconcilers
    /\ Refused \subseteq Reconcilers
    /\ Forbidden \subseteq Reconcilers \ Refused
    /\ Threshold \in Nat \ {0}
    /\ Timeout \in Nat \ {0}
    /\ MaxOutages \in Nat

VARIABLES
    mode,      \* the variant of CircuitBreakerState
    failures,  \* failure_count, meaningful when Closed
    age,       \* ticks since opened_at, meaningful when Open
    phase,     \* what each reconcile is doing
    apiUp,     \* the Scaleway API answers
    outages    \* outages so far

breaker == <<mode, failures, age>>
vars == <<mode, failures, age, phase, apiUp, outages>>

Modes == {"Closed", "Open", "HalfOpen"}

\* A call sent during an outage is doomed: it fails, possibly by its own timeout and
\* after the outage.
Phases == {"idle", "running", "calling", "doomed"}

Init ==
    /\ mode = "Closed"
    /\ failures = 0
    /\ age = 0
    /\ phase = [r \in Reconcilers |-> "idle"]
    /\ apiUp = TRUE
    /\ outages = 0

-----------------------------------------------------------------------------
(* The breaker's operations. *)

TimedOut == mode = "Open" /\ age >= Timeout

\* What is_circuit_open returns.
CircuitIsOpen == mode = "Open" /\ ~TimedOut

Become(m) == mode' = m /\ failures' = 0 /\ age' = 0

\* The side effect of is_circuit_open: an expired Open becomes HalfOpen.
ProbeIfTimedOutByClosing ==
    IF TimedOut THEN Become("Closed") ELSE UNCHANGED breaker
ProbeIfTimedOut ==
    IF TimedOut THEN Become("HalfOpen") ELSE UNCHANGED breaker

RecordFailureWithoutThreshold ==
    \/ mode = "Closed" /\ failures' = failures + 1 /\ UNCHANGED <<mode, age>>
    \/ mode = "HalfOpen" /\ Become("Open")
    \/ mode = "Open" /\ UNCHANGED breaker
RecordFailureRestartingWindow ==
    \/ /\ mode = "Closed" /\ failures + 1 < Threshold
       /\ failures' = failures + 1 /\ UNCHANGED <<mode, age>>
    \/ mode = "Closed" /\ failures + 1 >= Threshold /\ Become("Open")
    \/ mode \in {"HalfOpen", "Open"} /\ Become("Open")
RecordFailure ==
    \/ /\ mode = "Closed" /\ failures + 1 < Threshold
       /\ failures' = failures + 1 /\ UNCHANGED <<mode, age>>
    \/ mode = "Closed" /\ failures + 1 >= Threshold /\ Become("Open")
    \/ mode = "HalfOpen" /\ Become("Open")
    \/ mode = "Open" /\ UNCHANGED breaker

RecordSuccessClosingOpen == Become("Closed")
RecordSuccessForgivingOne ==
    \/ mode = "Closed" /\ failures' = failures - 1 /\ UNCHANGED <<mode, age>>
    \/ mode = "HalfOpen" /\ Become("Closed")
    \/ mode = "Open" /\ UNCHANGED breaker
RecordSuccessIgnoringProbe ==
    IF mode = "Closed" THEN Become("Closed") ELSE UNCHANGED breaker
RecordSuccess ==
    IF mode = "Open" THEN UNCHANGED breaker ELSE Become("Closed")

-----------------------------------------------------------------------------
(* The reconciles. *)

SetPhase(r, ph) == phase' = [phase EXCEPT ![r] = ph]

\* A reconcile starts and reads the breaker once.  When it is open, only the
\* reconciles of Bypass go on; the others return CircuitBreakerOpen.
StartReconcile(r) ==
    /\ phase[r] = "idle"
    /\ ProbeIfTimedOut
    /\ SetPhase(r, IF CircuitIsOpen /\ r \notin Bypass THEN "idle" ELSE "running")
    /\ UNCHANGED <<apiUp, outages>>

StartCall(r) ==
    /\ phase[r] = "running"
    /\ SetPhase(r, IF apiUp THEN "calling" ELSE "doomed")
    /\ UNCHANGED <<breaker, apiUp, outages>>

\* A 4xx is a ScalewayError like a 5xx: transient, and counted as a failure.
CallFails(r) == phase[r] = "doomed" \/ ~apiUp \/ r \in Refused

\* The result of a call in flight is recorded.  A failure or a permanent error
\* ends the reconcile; a permanent error leaves the breaker alone.
FinishCall(r) ==
    /\ phase[r] \in {"calling", "doomed"}
    /\ \/ CallFails(r) /\ RecordFailure /\ SetPhase(r, "idle")
       \/ ~CallFails(r) /\ r \in Forbidden /\ UNCHANGED breaker /\ SetPhase(r, "idle")
       \/ ~CallFails(r) /\ r \notin Forbidden /\ RecordSuccess /\ SetPhase(r, "running")
    /\ UNCHANGED <<apiUp, outages>>

EndReconcile(r) ==
    /\ phase[r] = "running"
    /\ SetPhase(r, "idle")
    /\ UNCHANGED <<breaker, apiUp, outages>>

-----------------------------------------------------------------------------
(* The environment: time, and the Scaleway API. *)

Tick ==
    /\ mode = "Open" /\ age < Timeout
    /\ age' = age + 1
    /\ UNCHANGED <<mode, failures, phase, apiUp, outages>>

Outage ==
    /\ apiUp /\ outages < MaxOutages
    /\ apiUp' = FALSE /\ outages' = outages + 1
    /\ UNCHANGED <<breaker, phase>>

Recovery ==
    /\ ~apiUp
    /\ apiUp' = TRUE
    /\ UNCHANGED <<breaker, phase, outages>>

Reconcile(r) ==
    StartReconcile(r) \/ StartCall(r) \/ FinishCall(r) \/ EndReconcile(r)

Next ==
    \/ \E r \in Reconcilers : Reconcile(r)
    \/ Tick \/ Outage \/ Recovery

Spec == Init /\ [][Next]_vars

-----------------------------------------------------------------------------
(* Properties. *)

TypeOK ==
    /\ mode \in Modes
    /\ failures \in Nat
    /\ age \in 0..Timeout
    /\ phase \in [Reconcilers -> Phases]
    /\ apiUp \in BOOLEAN
    /\ outages \in 0..MaxOutages

\* The failure count stays below CIRCUIT_FAILURE_THRESHOLD: the failure that
\* reaches it opens the circuit in the same critical section, so no interleaving
\* of callers overshoots it (record_scaleway_failure).
FailuresBelowThreshold == failures < Threshold

\* An open circuit ends in one way: a reconcile finds the timeout elapsed and
\* makes it half-open.  The late success of a call that was in flight when the
\* circuit opened must not close it (record_scaleway_success, Open branch).
OpenEndsInProbe ==
    [][mode = "Open" /\ mode' # "Open" => mode' = "HalfOpen" /\ age = Timeout]_vars

\* Late failures of calls in flight when the circuit opened do not restart the
\* 60 seconds (record_scaleway_failure, Open branch): the probe is not put off.
OpenWindowNotExtended ==
    [][mode = "Open" /\ mode' = "Open" => age' >= age]_vars

\* The circuit closes again only when a call has just succeeded, never because
\* time has passed (is_circuit_open stops at HalfOpen).
ClosesOnSuccess ==
    [][mode # "Closed" /\ mode' = "Closed" =>
          apiUp /\ \E r \in Reconcilers : phase[r] = "calling" /\ phase'[r] = "running"]_vars

\* Once outages are over, the circuit ends up closed for good, whatever calls
\* were in flight when it opened and although permanent errors tell the breaker
\* nothing (call_scaleway).
Recovers == <>[](mode = "Closed")

=============================================================================
