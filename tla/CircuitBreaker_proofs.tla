---------------------- MODULE CircuitBreaker_proofs ----------------------
(***************************************************************************)
(* Proofs about CircuitBreaker, for any number of concurrent reconciles,   *)
(* any failure threshold and any timeout.                                  *)
(***************************************************************************)
EXTENDS CircuitBreaker, TLAPS

\* The two facts the action properties need together: the variables have their
\* types, and the failure count is below the threshold.
IInv == TypeOK /\ FailuresBelowThreshold

LEMMA InitEstablishesIInv == Init => IInv
  BY BreakerAssumption
  DEF Init, IInv, TypeOK, FailuresBelowThreshold, Modes, Phases

\* Recording a failure keeps the breaker well typed and its count below the
\* threshold: the failure that reaches it resets the count by opening.
LEMMA RecordFailureSafe ==
  ASSUME IInv, RecordFailure
  PROVE  /\ mode' \in Modes
         /\ failures' \in Nat /\ failures' < Threshold
         /\ age' \in 0..Timeout
  BY BreakerAssumption
  DEF IInv, TypeOK, FailuresBelowThreshold, RecordFailure, Become, Modes, breaker

\* A look at the breaker and a recorded success only reset it or leave it alone.
LEMMA OtherOperationsSafe ==
  ASSUME IInv, ProbeIfTimedOut \/ RecordSuccess \/ UNCHANGED breaker
  PROVE  /\ mode' \in Modes
         /\ failures' \in Nat /\ failures' < Threshold
         /\ age' \in 0..Timeout
  BY BreakerAssumption
  DEF IInv, TypeOK, FailuresBelowThreshold, ProbeIfTimedOut, RecordSuccess,
      Become, Modes, breaker

LEMMA NextPreservesIInv == IInv /\ [Next]_vars => IInv'
<1> SUFFICES ASSUME IInv, [Next]_vars PROVE IInv'
  OBVIOUS
<1> USE DEF IInv, TypeOK, FailuresBelowThreshold
<1>1. ASSUME NEW r \in Reconcilers, StartReconcile(r) PROVE IInv'
  <2>1. phase' \in [Reconcilers -> Phases]
    BY <1>1 DEF StartReconcile, SetPhase, Phases
  <2> QED
    BY <1>1, <2>1, OtherOperationsSafe DEF StartReconcile
<1>2. ASSUME NEW r \in Reconcilers, StartCall(r) PROVE IInv'
  BY <1>2 DEF StartCall, SetPhase, Phases, breaker
<1>3. ASSUME NEW r \in Reconcilers, FinishCall(r) PROVE IInv'
  <2>1. phase' \in [Reconcilers -> Phases]
    BY <1>3 DEF FinishCall, SetPhase, Phases
  <2>2. RecordFailure \/ RecordSuccess \/ UNCHANGED breaker
    BY <1>3 DEF FinishCall
  <2>3. /\ mode' \in Modes
        /\ failures' \in Nat /\ failures' < Threshold
        /\ age' \in 0..Timeout
    BY <2>2, RecordFailureSafe, OtherOperationsSafe
  <2> QED
    BY <1>3, <2>1, <2>3 DEF FinishCall
<1>4. ASSUME NEW r \in Reconcilers, EndReconcile(r) PROVE IInv'
  BY <1>4 DEF EndReconcile, SetPhase, Phases, breaker
<1>5. CASE Tick
  BY <1>5, BreakerAssumption DEF Tick
<1>6. CASE Outage
  <2>1. apiUp' \in BOOLEAN
    BY <1>6, Zenon DEF Outage
  <2>2. outages' \in 0..MaxOutages
    BY <1>6, BreakerAssumption DEF Outage
  <2> QED
    BY <1>6, <2>1, <2>2 DEF Outage, breaker
<1>7. CASE Recovery
  BY <1>7 DEF Recovery, breaker
<1>8. CASE UNCHANGED vars
  BY <1>8 DEF vars
<1> QED
  BY <1>1, <1>2, <1>3, <1>4, <1>5, <1>6, <1>7, <1>8 DEF Next, Reconcile

LEMMA IInvInvariant == Spec => []IInv
  BY InitEstablishesIInv, NextPreservesIInv, PTL DEF Spec

\* Every variable of the breaker and of its callers keeps its type.
THEOREM TypeCorrect == Spec => []TypeOK
  BY IInvInvariant, PTL DEF IInv

\* However many reconciles record failures concurrently, the count never
\* reaches CIRCUIT_FAILURE_THRESHOLD: the circuit is open by then.
THEOREM ThresholdNeverReached == Spec => []FailuresBelowThreshold
  BY IInvInvariant, PTL DEF IInv

\* An open circuit can only become half-open, and only at its timeout: no call
\* in flight, succeeding late, closes it.
THEOREM OpenEndsOnlyInProbe == Spec => OpenEndsInProbe
<1> DEFINE A == mode = "Open" /\ mode' # "Open" => mode' = "HalfOpen" /\ age = Timeout
<1>1. IInv /\ [Next]_vars => [A]_vars
  <2> SUFFICES ASSUME IInv, Next PROVE A
    OBVIOUS
  <2> USE DEF IInv, TypeOK
  <2>1. ASSUME NEW r \in Reconcilers, StartReconcile(r) PROVE A
    BY <2>1, BreakerAssumption
    DEF StartReconcile, ProbeIfTimedOut, TimedOut, Become, breaker
  <2>2. ASSUME NEW r \in Reconcilers, FinishCall(r) PROVE A
    BY <2>2 DEF FinishCall, RecordFailure, RecordSuccess, Become, breaker
  <2>3. ASSUME NEW r \in Reconcilers, StartCall(r) \/ EndReconcile(r) PROVE A
    BY <2>3 DEF StartCall, EndReconcile, breaker
  <2>4. CASE Tick \/ Outage \/ Recovery
    BY <2>4 DEF Tick, Outage, Recovery, breaker
  <2> QED
    BY <2>1, <2>2, <2>3, <2>4 DEF Next, Reconcile
<1> QED
  BY <1>1, IInvInvariant, PTL DEF Spec, OpenEndsInProbe

\* No failure recorded while the circuit is open makes it stay open longer.
THEOREM OpenWindowNeverExtended == Spec => OpenWindowNotExtended
<1> DEFINE A == mode = "Open" /\ mode' = "Open" => age' >= age
<1>1. IInv /\ [Next]_vars => [A]_vars
  <2> SUFFICES ASSUME IInv, Next PROVE A
    OBVIOUS
  <2> USE DEF IInv, TypeOK
  <2>1. ASSUME NEW r \in Reconcilers, StartReconcile(r) PROVE A
    BY <2>1, BreakerAssumption
    DEF StartReconcile, ProbeIfTimedOut, TimedOut, Become, breaker
  <2>2. ASSUME NEW r \in Reconcilers, FinishCall(r) PROVE A
    BY <2>2, BreakerAssumption
    DEF FinishCall, RecordFailure, RecordSuccess, Become, breaker
  <2>3. ASSUME NEW r \in Reconcilers, StartCall(r) \/ EndReconcile(r) PROVE A
    BY <2>3, BreakerAssumption DEF StartCall, EndReconcile, breaker
  <2>4. CASE Tick \/ Outage \/ Recovery
    BY <2>4, BreakerAssumption DEF Tick, Outage, Recovery, breaker
  <2> QED
    BY <2>1, <2>2, <2>3, <2>4 DEF Next, Reconcile
<1> QED
  BY <1>1, IInvInvariant, PTL DEF Spec, OpenWindowNotExtended

\* The circuit closes on nothing but the success of a call that reached Scaleway:
\* not with time, and not on the late answer to a call sent during an outage.
THEOREM ClosedBySuccessOnly == Spec => ClosesOnSuccess
<1> DEFINE A == mode # "Closed" /\ mode' = "Closed" =>
                  apiUp /\ \E r \in Reconcilers :
                               phase[r] = "calling" /\ phase'[r] = "running"
<1>1. IInv /\ [Next]_vars => [A]_vars
  <2> SUFFICES ASSUME IInv, Next PROVE A
    OBVIOUS
  <2> USE DEF IInv, TypeOK
  <2>1. ASSUME NEW r \in Reconcilers, StartReconcile(r) PROVE A
    BY <2>1 DEF StartReconcile, ProbeIfTimedOut, TimedOut, Become, breaker
  <2>2. ASSUME NEW r \in Reconcilers, FinishCall(r) PROVE A
    <3>1. CASE CallFails(r) \/ r \in Forbidden
      BY <2>2, <3>1 DEF FinishCall, RecordFailure, Become, breaker
    <3>2. CASE ~CallFails(r) /\ r \notin Forbidden
      <4>1. apiUp /\ phase[r] = "calling"
        BY <2>2, <3>2 DEF FinishCall, CallFails
      <4>2. phase'[r] = "running"
        BY <2>2, <3>2 DEF FinishCall, SetPhase
      <4> QED
        BY <4>1, <4>2
    <3> QED
      BY <3>1, <3>2
  <2>3. ASSUME NEW r \in Reconcilers, StartCall(r) \/ EndReconcile(r) PROVE A
    BY <2>3 DEF StartCall, EndReconcile, breaker
  <2>4. CASE Tick \/ Outage \/ Recovery
    BY <2>4 DEF Tick, Outage, Recovery, breaker
  <2> QED
    BY <2>1, <2>2, <2>3, <2>4 DEF Next, Reconcile
<1> QED
  BY <1>1, IInvInvariant, PTL DEF Spec, ClosesOnSuccess

=============================================================================
