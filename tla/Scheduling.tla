----------------------------- MODULE Scheduling -----------------------------
(***************************************************************************)
(* When the operator comes back to each object: the breaker of             *)
(* CircuitBreaker, the retry counters (context.rs) and the delays that     *)
(* reconciles and error_policy ask for (reconcilers.rs), on one clock.     *)
(*                                                                         *)
(* A tick is 30 seconds, of which every delay of the code that matters     *)
(* here is a multiple; the requeues after 5 and 10 seconds that follow a   *)
(* creation count as one tick.  A reconcile sends one call, as it does     *)
(* when it follows what exists in Scaleway, and takes no other time; the   *)
(* HTTP client gives a call up after 30 seconds: it is in flight during    *)
(* one tick at most.                                                       *)
(***************************************************************************)
EXTENDS CircuitBreaker

CONSTANTS
    MaxWakes,      \* bound: reconciles that a watch event starts early
    RecoveryTime   \* ticks within which everything works again after an outage

ASSUME SchedulingAssumption == MaxWakes \in Nat /\ RecoveryTime \in Nat

\* A closed fact, which TLC evaluates: the provers know nothing of powers.
ASSUME PowersOfTwo == \A k \in 0..9 : 2^k \in Nat

VARIABLES
    timer,     \* idle: ticks before the next reconcile; calling: ticks since the
               \* call was sent; running: 1 once it has its answer
    attempts,  \* retry_counts, up to the value from which the delay is constant
    calm,      \* ticks since the Scaleway API came back, up to RecoveryTime
    wakes

schedule == <<timer, attempts>>
schedVars == <<vars, schedule, calm, wakes>>

MaxAttempts == 5
MaxDelay == 10             \* 300 s
Requeue == 1               \* Action::requeue(30 s)
Never == MaxDelay + 1      \* Action::await_change

Smaller(i, j) == IF i < j THEN i ELSE j

\* The delay of error_policy_inner: 30 s * 2^(n - 1), at most 300 s.
BackoffUncapped(n) == 2^Smaller(n - 1, 9)
Backoff(n) == Smaller(2^Smaller(n - 1, 9), MaxDelay)

SchedInit ==
    /\ Init
    /\ timer = [r \in Reconcilers |-> 0]
    /\ attempts = [r \in Reconcilers |-> 0]
    /\ calm = RecoveryTime
    /\ wakes = 0

SetTimer(r, t) == timer' = [timer EXCEPT ![r] = t]

\* What the reconcile returned: a transient error, a permanent one, or an Action.
RetryLater(r) ==
    LET n == Smaller(attempts[r] + 1, MaxAttempts) IN
    /\ attempts' = [attempts EXCEPT ![r] = n]
    /\ SetTimer(r, Backoff(n))
AwaitChange(r) == SetTimer(r, Never) /\ UNCHANGED attempts
SucceedKeepingAttempts(r) == SetTimer(r, Requeue) /\ UNCHANGED attempts
Succeed(r) ==
    /\ attempts' = [attempts EXCEPT ![r] = 0]
    /\ SetTimer(r, Requeue)

\* An object whose timer has run out is reconciled; an open circuit is a transient
\* error.
SchedStartUnchecked(r) ==
    /\ timer[r] = 0 /\ phase[r] = "idle"
    /\ SetPhase(r, "running")
    /\ UNCHANGED <<breaker, apiUp, outages, schedule, calm, wakes>>
SchedStart(r) ==
    /\ timer[r] = 0
    /\ StartReconcile(r)
    /\ \/ phase'[r] = "idle" /\ RetryLater(r)
       \/ phase'[r] = "running" /\ UNCHANGED schedule
    /\ UNCHANGED <<calm, wakes>>

SchedStartCall(r) ==
    /\ timer[r] = 0
    /\ StartCall(r)
    /\ UNCHANGED <<schedule, calm, wakes>>

SchedFinishCall(r) ==
    /\ FinishCall(r)
    /\ \/ CallFails(r) /\ RetryLater(r)
       \/ ~CallFails(r) /\ r \in Forbidden /\ AwaitChange(r)
       \/ /\ ~CallFails(r) /\ r \notin Forbidden
          /\ SetTimer(r, 1) /\ UNCHANGED attempts
    /\ UNCHANGED <<calm, wakes>>

SchedEnd(r) ==
    /\ timer[r] = 1
    /\ EndReconcile(r)
    /\ Succeed(r)
    /\ UNCHANGED <<calm, wakes>>

\* A watch event, of an edit or of the status the reconcile wrote, does not wait.
Wake(r) ==
    /\ phase[r] = "idle" /\ timer[r] > 0 /\ wakes < MaxWakes
    /\ wakes' = wakes + 1
    /\ SetTimer(r, 0)
    /\ UNCHANGED <<vars, attempts, calm>>

InCall(r) == phase[r] \in {"calling", "doomed"}

\* Time passes when nothing is due: no object, no step of a reconcile, no answer.
SchedTick ==
    /\ \A r \in Reconcilers :
           \/ phase[r] = "idle" /\ timer[r] > 0
           \/ InCall(r) /\ timer[r] = 0
    /\ timer' = [r \in Reconcilers |->
                    IF InCall(r) THEN 1
                    ELSE IF timer[r] = Never THEN Never ELSE timer[r] - 1]
    /\ calm' = IF apiUp THEN Smaller(calm + 1, RecoveryTime) ELSE 0
    /\ Tick \/ (~CircuitIsOpen /\ UNCHANGED vars)
    /\ UNCHANGED <<attempts, wakes>>

SchedOutage == Outage /\ calm' = 0 /\ UNCHANGED <<schedule, wakes>>
SchedRecovery == Recovery /\ UNCHANGED <<schedule, calm, wakes>>

Scheduled(r) ==
    SchedStart(r) \/ SchedStartCall(r) \/ SchedFinishCall(r) \/ SchedEnd(r)

SchedNext ==
    \/ \E r \in Reconcilers : Scheduled(r) \/ Wake(r)
    \/ SchedTick \/ SchedOutage \/ SchedRecovery

SchedSpec == SchedInit /\ [][SchedNext]_schedVars

\* Time passes and outages end.  That is enough: a tick waits for every timer that
\* has run out, every step of a reconcile and every answer that is due.
Progress == (\E r \in Reconcilers : Scheduled(r)) \/ SchedTick
SchedFairSpec == SchedSpec /\ WF_schedVars(Progress) /\ WF_schedVars(SchedRecovery)

-----------------------------------------------------------------------------
(* Properties. *)

\* Among others: no delay is longer than 300 s (error_policy_inner), and no call in
\* flight outlives its timeout.
ScheduleOK ==
    /\ timer \in [Reconcilers -> 0..Never]
    /\ \A r \in Reconcilers : phase[r] # "idle" => timer[r] \in {0, 1}
    /\ attempts \in [Reconcilers -> 0..MaxAttempts]
    /\ calm \in 0..RecoveryTime
    /\ wakes \in 0..MaxWakes

\* RecoveryTime after an outage the circuit is closed and every object that has no
\* permanent error was reconciled with success: neither the delays that add up, nor
\* calls that fail after the outage, nor several probes at once (is_circuit_open
\* lets through all those that find the circuit half-open) put it off further.
RecoversInTime ==
    apiUp /\ calm = RecoveryTime =>
        /\ mode = "Closed"
        /\ \A r \in Reconcilers \ Forbidden : attempts[r] = 0

\* The breaker among its users, as CircuitBreaker describes it with no clock.
ImplementsCircuitBreaker == Spec

=============================================================================
