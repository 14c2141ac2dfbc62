------------------------- MODULE Scheduling_proofs -------------------------
(***************************************************************************)
(* Proofs about Scheduling: it implements CircuitBreaker, and its delays   *)
(* stay within their bounds, for any objects, threshold and timeout.       *)
(***************************************************************************)
EXTENDS Scheduling, CircuitBreaker_proofs, TLAPS

-----------------------------------------------------------------------------
(* Refinement: each step is a step of the breaker, or leaves it alone. *)

LEMMA StepOfBreaker == [SchedNext]_schedVars => [Next]_vars
<1> SUFFICES ASSUME [SchedNext]_schedVars PROVE [Next]_vars
  OBVIOUS
<1>1. ASSUME NEW r \in Reconcilers, Scheduled(r) PROVE Next
  BY <1>1
  DEF Scheduled, SchedStart, SchedStartCall, SchedFinishCall, SchedEnd, Next, Reconcile
<1>2. ASSUME NEW r \in Reconcilers, Wake(r) PROVE UNCHANGED vars
  BY <1>2 DEF Wake
<1>3. CASE SchedTick
  BY <1>3 DEF SchedTick, Next
<1>4. CASE SchedOutage \/ SchedRecovery
  BY <1>4 DEF SchedOutage, SchedRecovery, Next
<1>5. CASE UNCHANGED schedVars
  BY <1>5 DEF schedVars
<1> QED
  BY <1>1, <1>2, <1>3, <1>4, <1>5 DEF SchedNext

\* Timers and retry counters add nothing to what the breaker and its callers may do:
\* every theorem of CircuitBreaker_proofs is one of the operator on its clock.
THEOREM SchedulingImplementsBreaker == SchedSpec => ImplementsCircuitBreaker
<1>1. SchedInit => Init
  BY DEF SchedInit
<1> QED
  BY <1>1, StepOfBreaker, PTL DEF SchedSpec, Spec, ImplementsCircuitBreaker

-----------------------------------------------------------------------------
(* The delays. *)

\* error_policy_inner never asks for more than 300 s.
LEMMA BackoffBounded ==
  ASSUME NEW n \in 1..MaxAttempts
  PROVE  Backoff(n) \in 0..MaxDelay
<1>1. Smaller(n - 1, 9) \in 0..9
  BY DEF MaxAttempts, Smaller
<1>2. 2^Smaller(n - 1, 9) \in Nat
  BY <1>1, PowersOfTwo
<1> QED
  BY <1>2 DEF Backoff, Smaller, MaxDelay

LEMMA ScheduleStarts == SchedInit => ScheduleOK
  BY SchedulingAssumption
  DEF SchedInit, Init, ScheduleOK, Never, MaxDelay, MaxAttempts

\* What error_policy, or a returned Action, does to the timer of r and its counter.
LEMMA ReturnsOK ==
  ASSUME ScheduleOK, NEW r \in Reconcilers,
         RetryLater(r) \/ AwaitChange(r) \/ Succeed(r)
  PROVE  /\ timer' \in [Reconcilers -> 0..Never]
         /\ attempts' \in [Reconcilers -> 0..MaxAttempts]
         /\ \A q \in Reconcilers \ {r} : timer'[q] = timer[q]
<1> USE DEF ScheduleOK, SetTimer
<1>1. CASE RetryLater(r)
  <2> DEFINE n == Smaller(attempts[r] + 1, MaxAttempts)
  <2>1. n \in 1..MaxAttempts
    BY DEF Smaller, MaxAttempts
  <2>2. Backoff(n) \in 0..Never
    BY <2>1, BackoffBounded DEF Never, MaxDelay
  <2>3. timer' = [timer EXCEPT ![r] = Backoff(n)]
        /\ attempts' = [attempts EXCEPT ![r] = n]
    BY <1>1 DEF RetryLater
  <2> HIDE DEF n
  <2> QED
    BY <2>1, <2>2, <2>3 DEF MaxAttempts
<1>2. CASE AwaitChange(r)
  BY <1>2 DEF AwaitChange, Never, MaxDelay
<1>3. CASE Succeed(r)
  BY <1>3 DEF Succeed, Never, MaxDelay, Requeue, MaxAttempts
<1> QED
  BY <1>1, <1>2, <1>3

LEMMA SchedulePreserved == TypeOK /\ ScheduleOK /\ [SchedNext]_schedVars => ScheduleOK'
<1> SUFFICES ASSUME TypeOK, ScheduleOK, [SchedNext]_schedVars PROVE ScheduleOK'
  OBVIOUS
<1> USE DEF ScheduleOK
<1>1. ASSUME NEW r \in Reconcilers, SchedStart(r) PROVE ScheduleOK'
  <2>1. /\ phase' \in {[phase EXCEPT ![r] = "idle"], [phase EXCEPT ![r] = "running"]}
        /\ UNCHANGED <<calm, wakes>>
    BY <1>1 DEF SchedStart, StartReconcile, SetPhase
  <2>2. CASE phase'[r] = "idle" /\ RetryLater(r)
    BY <2>1, <2>2, ReturnsOK DEF TypeOK
  <2>3. CASE phase'[r] = "running" /\ UNCHANGED schedule
    BY <1>1, <2>1, <2>3 DEF SchedStart, schedule, TypeOK
  <2> QED
    BY <1>1, <2>2, <2>3 DEF SchedStart
<1>2. ASSUME NEW r \in Reconcilers, SchedStartCall(r) PROVE ScheduleOK'
  BY <1>2 DEF SchedStartCall, StartCall, SetPhase, schedule, TypeOK
<1>3. ASSUME NEW r \in Reconcilers, SchedFinishCall(r) PROVE ScheduleOK'
  <2>1. UNCHANGED <<calm, wakes>>
    BY <1>3 DEF SchedFinishCall
  <2>2. CASE phase' = [phase EXCEPT ![r] = "idle"] /\ (RetryLater(r) \/ AwaitChange(r))
    BY <2>1, <2>2, ReturnsOK DEF TypeOK
  <2>3. CASE phase' = [phase EXCEPT ![r] = "running"] /\ SetTimer(r, 1) /\ UNCHANGED attempts
    BY <2>1, <2>3 DEF SetTimer, Never, MaxDelay, TypeOK
  <2> QED
    BY <1>3, <2>2, <2>3 DEF SchedFinishCall, FinishCall, SetPhase
<1>4. ASSUME NEW r \in Reconcilers, SchedEnd(r) PROVE ScheduleOK'
  <2>1. phase' = [phase EXCEPT ![r] = "idle"] /\ Succeed(r) /\ UNCHANGED <<calm, wakes>>
    BY <1>4 DEF SchedEnd, EndReconcile, SetPhase
  <2> QED
    BY <2>1, ReturnsOK DEF TypeOK
<1>5. ASSUME NEW r \in Reconcilers, Wake(r) PROVE ScheduleOK'
  BY <1>5, SchedulingAssumption DEF Wake, SetTimer, vars, Never, MaxDelay
<1>6. CASE SchedTick
  <2>1. phase' = phase /\ UNCHANGED <<attempts, wakes>>
    BY <1>6 DEF SchedTick, Tick, vars
  <2>2. calm' \in 0..RecoveryTime
    BY <1>6, SchedulingAssumption DEF SchedTick, Smaller
  <2>3. timer' \in [Reconcilers -> 0..Never]
    BY <1>6 DEF SchedTick, InCall, Never, MaxDelay
  <2>4. ASSUME NEW q \in Reconcilers, phase[q] # "idle" PROVE timer'[q] \in {0, 1}
    BY <1>6, <2>4 DEF SchedTick, InCall
  <2> QED
    BY <2>1, <2>2, <2>3, <2>4
<1>7. CASE SchedOutage \/ SchedRecovery
  BY <1>7, SchedulingAssumption
  DEF SchedOutage, SchedRecovery, Outage, Recovery, schedule
<1>8. CASE UNCHANGED schedVars
  BY <1>8 DEF schedVars, schedule, vars
<1> QED
  BY <1>1, <1>2, <1>3, <1>4, <1>5, <1>6, <1>7, <1>8 DEF SchedNext, Scheduled

\* For any number of objects, outages and watch events: no delay exceeds 300 s, and
\* no call in flight outlives its timeout.
THEOREM DelaysBounded == SchedSpec => []ScheduleOK
<1>1. SchedSpec => Spec
  BY SchedulingImplementsBreaker DEF ImplementsCircuitBreaker
<1> QED
  BY <1>1, TypeCorrect, ScheduleStarts, SchedulePreserved, PTL DEF SchedSpec

-----------------------------------------------------------------------------
(* The time of recovery.  calm counts the ticks since the API came back; what may  *)
(* still be wrong is bounded by it, and over before RecoveryTime.          *)

Useful == Reconcilers \ Forbidden

\* Calls sent during the outage have failed after one tick.
DoomedSoonDone ==
    \A r \in Reconcilers : apiUp /\ phase[r] = "doomed" => calm <= timer[r]

\* A circuit that is open was opened by one of them: its window runs out.
WindowRuns == apiUp /\ mode = "Open" /\ age < Timeout => calm <= age + 1

\* A reconcile that finds the circuit open, or ends although it is not closed, has
\* started before the window ran out.
StartedBeforeProbe ==
    \A r \in Reconcilers :
        /\ apiUp /\ mode = "Open" /\ phase[r] # "idle" => calm <= Timeout + timer[r]
        /\ apiUp /\ mode # "Closed" /\ phase[r] = "running" /\ timer[r] = 1
              => calm <= Timeout + 1

\* An object that still has to succeed comes back within the longest delay after that.
BackInTime(r) ==
    /\ phase[r] = "idle" => timer[r] + calm <= Timeout + MaxDelay
    /\ phase[r] # "idle" => calm <= Timeout + MaxDelay + timer[r]
RetriesInTime ==
    \A r \in Useful :
        /\ timer[r] <= MaxDelay
        /\ apiUp /\ (mode # "Closed" \/ attempts[r] # 0) => BackInTime(r)

CalmInv ==
    /\ TypeOK /\ FailuresBelowThreshold /\ ScheduleOK
    /\ ~apiUp => calm = 0
    /\ DoomedSoonDone /\ WindowRuns /\ StartedBeforeProbe /\ RetriesInTime

LEMMA InitCalm == SchedInit => CalmInv
<1> SUFFICES ASSUME SchedInit PROVE CalmInv
  OBVIOUS
<1>1. TypeOK /\ FailuresBelowThreshold /\ ScheduleOK
  BY InitEstablishesIInv, ScheduleStarts DEF SchedInit, IInv
<1> QED
  BY <1>1, BreakerAssumption
  DEF SchedInit, Init, CalmInv, DoomedSoonDone, WindowRuns, StartedBeforeProbe, RetriesInTime,
      Useful, MaxDelay

\* What r's return does to its timer.
LEMMA ReturnDelay ==
  ASSUME ScheduleOK, NEW r \in Reconcilers, RetryLater(r) \/ Succeed(r)
  PROVE  /\ timer' \in [Reconcilers -> 0..Never] /\ timer'[r] <= MaxDelay
         /\ \A q \in Reconcilers \ {r} : timer'[q] = timer[q] /\ attempts'[q] = attempts[q]
<1> USE DEF ScheduleOK, SetTimer
<1>1. CASE RetryLater(r)
  <2> DEFINE n == Smaller(attempts[r] + 1, MaxAttempts)
  <2>1. n \in 1..MaxAttempts
    BY DEF Smaller, MaxAttempts
  <2>2. Backoff(n) \in 0..MaxDelay
    BY <2>1, BackoffBounded
  <2>3. timer' = [timer EXCEPT ![r] = Backoff(n)]
        /\ attempts' = [attempts EXCEPT ![r] = n]
    BY <1>1 DEF RetryLater
  <2> HIDE DEF n
  <2> QED
    BY <2>1, <2>2, <2>3 DEF Never, MaxDelay
<1>2. CASE Succeed(r)
  BY <1>2 DEF Succeed, Never, MaxDelay, Requeue
<1> QED
  BY <1>1, <1>2

\* What every step finds: the types of the state it changes.
LEMMA CalmTypes ==
  CalmInv => /\ timer \in [Reconcilers -> 0..Never]
             /\ phase \in [Reconcilers -> Phases]
             /\ attempts \in [Reconcilers -> 0..MaxAttempts]
             /\ \A r \in Reconcilers : phase[r] # "idle" => timer[r] \in {0, 1}
             /\ calm \in Nat /\ age \in 0..Timeout /\ Timeout \in Nat \ {0}
             /\ apiUp \in BOOLEAN /\ mode \in Modes
  BY BreakerAssumption, SchedulingAssumption DEF CalmInv, ScheduleOK, TypeOK

\* A reconcile that starts: if it is turned away, the window has not run out.
LEMMA CalmAtStart ==
  ASSUME CalmInv, NEW r \in Reconcilers, SchedStart(r)
  PROVE  DoomedSoonDone' /\ WindowRuns' /\ StartedBeforeProbe' /\ RetriesInTime'
<1>1. /\ timer[r] = 0 /\ phase[r] = "idle" /\ UNCHANGED <<apiUp, calm>>
      /\ \/ UNCHANGED breaker
         \/ TimedOut /\ mode' = "HalfOpen"
    BY DEF SchedStart, StartReconcile, ProbeIfTimedOut, Become
<1>2. CASE phase'[r] = "idle" /\ RetryLater(r)
  <2>1. phase' = phase /\ UNCHANGED <<mode, age>> /\ mode = "Open" /\ age < Timeout
    BY <1>1, <1>2, CalmTypes
    DEF SchedStart, StartReconcile, ProbeIfTimedOut, SetPhase, CircuitIsOpen, TimedOut, breaker
  <2>2. /\ timer' \in [Reconcilers -> 0..Never] /\ timer'[r] <= MaxDelay
        /\ \A q \in Reconcilers \ {r} : timer'[q] = timer[q] /\ attempts'[q] = attempts[q]
    BY <1>2, ReturnDelay DEF CalmInv
  <2>3. DoomedSoonDone' /\ WindowRuns' /\ StartedBeforeProbe'
    BY <1>1, <2>1, <2>2, CalmTypes DEF CalmInv, DoomedSoonDone, WindowRuns, StartedBeforeProbe
  <2>4. ASSUME NEW q \in Useful
        PROVE  /\ timer'[q] <= MaxDelay
               /\ apiUp' /\ (mode' # "Closed" \/ attempts'[q] # 0) => BackInTime(q)'
    <3>1. CASE q = r
      BY <1>1, <2>1, <2>2, <3>1, CalmTypes DEF CalmInv, WindowRuns, BackInTime, MaxDelay, Never
    <3>2. CASE q # r
      BY <1>1, <2>1, <2>2, <3>2 DEF CalmInv, RetriesInTime, BackInTime, Useful
    <3> QED
      BY <3>1, <3>2
  <2> QED
    BY <2>3, <2>4 DEF RetriesInTime
<1>3. CASE phase'[r] = "running" /\ UNCHANGED schedule
  <2>1. phase' = [phase EXCEPT ![r] = "running"] /\ UNCHANGED <<timer, attempts>>
    BY <1>3, CalmTypes DEF SchedStart, StartReconcile, SetPhase, schedule
  <2>2. mode' = "Open" => UNCHANGED <<mode, age>>
    BY <1>1 DEF breaker
  <2>3. mode # "Closed" <=> mode' # "Closed"
    BY <1>1 DEF TimedOut, breaker
  <2>4. DoomedSoonDone' /\ WindowRuns'
    BY <1>1, <2>1, <2>2, CalmTypes DEF CalmInv, DoomedSoonDone, WindowRuns
  <2>5. mode' = "Open" /\ apiUp => calm <= Timeout
    <3>1. CASE age < Timeout
      BY <2>2, <3>1, CalmTypes DEF CalmInv, WindowRuns
    <3>2. CASE ~(age < Timeout)
      BY <3>2, <2>2, CalmTypes DEF SchedStart, StartReconcile, ProbeIfTimedOut, TimedOut, Become
    <3> QED
      BY <3>1, <3>2
  <2>6. StartedBeforeProbe'
    BY <1>1, <2>1, <2>2, <2>3, <2>5, CalmTypes DEF CalmInv, StartedBeforeProbe
  <2>7. RetriesInTime'
    BY <1>1, <2>1, <2>3, CalmTypes DEF CalmInv, RetriesInTime, BackInTime, Useful, MaxDelay, Never
  <2> QED
    BY <2>4, <2>6, <2>7
<1> QED
  BY <1>2, <1>3 DEF SchedStart

\* A call that ends: those that fail were sent during the outage.
LEMMA CalmAtFinish ==
  ASSUME Refused = {}, CalmInv, NEW r \in Reconcilers, SchedFinishCall(r)
  PROVE  DoomedSoonDone' /\ WindowRuns' /\ StartedBeforeProbe' /\ RetriesInTime'
<1>1. UNCHANGED <<apiUp, calm>> /\ phase[r] \in {"calling", "doomed"}
  BY DEF SchedFinishCall, FinishCall
<1>2. CASE CallFails(r)
  <2>1. RecordFailure /\ phase' = [phase EXCEPT ![r] = "idle"] /\ RetryLater(r)
    BY <1>2 DEF SchedFinishCall, FinishCall, SetPhase
  <2>2. apiUp => calm <= 1
    BY <1>2, CalmTypes DEF CallFails, CalmInv, DoomedSoonDone
  <2>3. /\ timer' \in [Reconcilers -> 0..Never] /\ timer'[r] <= MaxDelay
        /\ \A q \in Reconcilers \ {r} : timer'[q] = timer[q] /\ attempts'[q] = attempts[q]
    BY <2>1, ReturnDelay DEF CalmInv
  <2>4. DoomedSoonDone'
    BY <1>1, <2>1, <2>3, CalmTypes DEF CalmInv, DoomedSoonDone
  <2>5. WindowRuns'
    BY <1>1, <2>1, <2>2, CalmTypes DEF CalmInv, WindowRuns, RecordFailure, Become, breaker
  <2>6. StartedBeforeProbe'
    BY <1>1, <2>1, <2>2, <2>3, CalmTypes DEF StartedBeforeProbe
  <2>7. RetriesInTime'
    BY <1>1, <2>1, <2>2, <2>3, CalmTypes
    DEF CalmInv, RetriesInTime, BackInTime, Useful, MaxDelay, Never
  <2> QED
    BY <2>4, <2>5, <2>6, <2>7
<1>3. CASE ~CallFails(r) /\ r \in Forbidden
  <2>1. /\ UNCHANGED breaker /\ phase' = [phase EXCEPT ![r] = "idle"]
        /\ timer' = [timer EXCEPT ![r] = Never] /\ UNCHANGED attempts
    BY <1>3 DEF SchedFinishCall, FinishCall, SetPhase, AwaitChange, SetTimer
  <2>2. DoomedSoonDone' /\ WindowRuns' /\ StartedBeforeProbe'
    BY <1>1, <2>1, CalmTypes
    DEF CalmInv, DoomedSoonDone, WindowRuns, StartedBeforeProbe, breaker
  <2>3. RetriesInTime'
    BY <1>1, <1>3, <2>1, CalmTypes DEF CalmInv, RetriesInTime, BackInTime, Useful, breaker
  <2> QED
    BY <2>2, <2>3
<1>4. CASE ~CallFails(r) /\ r \notin Forbidden
  <2>1. /\ RecordSuccess /\ phase' = [phase EXCEPT ![r] = "running"]
        /\ timer' = [timer EXCEPT ![r] = 1] /\ UNCHANGED attempts
    BY <1>4 DEF SchedFinishCall, FinishCall, SetPhase, SetTimer
  <2>2. mode' # "Closed" => mode = "Open" /\ UNCHANGED <<mode, age>>
    BY <2>1 DEF RecordSuccess, Become, breaker
  <2>3. DoomedSoonDone' /\ WindowRuns'
    BY <1>1, <2>1, <2>2, CalmTypes DEF CalmInv, DoomedSoonDone, WindowRuns
  <2>4. StartedBeforeProbe'
    BY <1>1, <2>1, <2>2, CalmTypes DEF CalmInv, StartedBeforeProbe
  <2>5. RetriesInTime'
    BY <1>1, <2>1, <2>2, CalmTypes DEF CalmInv, RetriesInTime, BackInTime, Useful, MaxDelay
  <2> QED
    BY <2>3, <2>4, <2>5
<1> QED
  BY <1>2, <1>3, <1>4

\* Thirty seconds pass: no reconcile was due or running.
LEMMA CalmAtTick ==
  ASSUME CalmInv, SchedTick
  PROVE  DoomedSoonDone' /\ WindowRuns' /\ StartedBeforeProbe' /\ RetriesInTime'
<1>1. /\ UNCHANGED <<apiUp, mode, phase, attempts>>
      /\ \A r \in Reconcilers : phase[r] # "idle" => InCall(r) /\ timer[r] = 0 /\ timer'[r] = 1
      /\ \A r \in Reconcilers : phase[r] = "idle" => timer[r] > 0
      /\ \A r \in Reconcilers :
             phase[r] = "idle" => timer'[r] = IF timer[r] = Never THEN Never ELSE timer[r] - 1
  BY DEF SchedTick, Tick, vars, InCall
<1>2. calm' \in Nat /\ (apiUp => calm' <= calm + 1)
  BY CalmTypes, SchedulingAssumption DEF SchedTick, Smaller
<1>3. mode = "Open" /\ age' < Timeout => age' = age + 1 /\ age < Timeout
  BY CalmTypes DEF SchedTick, Tick, vars, CircuitIsOpen, TimedOut
<1>4. DoomedSoonDone'
  BY <1>1, <1>2, CalmTypes DEF CalmInv, DoomedSoonDone
<1>5. WindowRuns'
  BY <1>1, <1>2, <1>3, CalmTypes DEF CalmInv, WindowRuns
<1>6. StartedBeforeProbe'
  BY <1>1, <1>2, CalmTypes DEF CalmInv, StartedBeforeProbe, InCall
<1>7. RetriesInTime'
  BY <1>1, <1>2, CalmTypes DEF CalmInv, RetriesInTime, BackInTime, Useful, MaxDelay, Never
<1> QED
  BY <1>4, <1>5, <1>6, <1>7

LEMMA CalmPreserved ==
  Refused = {} /\ CalmInv /\ [SchedNext]_schedVars => CalmInv'
<1> SUFFICES ASSUME Refused = {}, CalmInv, [SchedNext]_schedVars PROVE CalmInv'
  OBVIOUS
<1>1. TypeOK' /\ FailuresBelowThreshold' /\ ScheduleOK'
  BY StepOfBreaker, NextPreservesIInv, SchedulePreserved DEF CalmInv, IInv
<1>2. (~apiUp => calm = 0)'
  BY DEF SchedNext, Scheduled, SchedStart, StartReconcile, SchedStartCall, StartCall,
         SchedFinishCall, FinishCall, SchedEnd, EndReconcile, Wake, SchedTick, Tick, SchedOutage,
         Outage, SchedRecovery, Recovery, schedVars, vars, CalmInv
<1> DEFINE Timely == DoomedSoonDone /\ WindowRuns /\ StartedBeforeProbe /\ RetriesInTime
<1>3. ASSUME NEW r \in Reconcilers, SchedStart(r) PROVE Timely'
  BY <1>3, CalmAtStart
<1>4. ASSUME NEW r \in Reconcilers, SchedStartCall(r) PROVE Timely'
  <2>1. /\ UNCHANGED <<mode, age, apiUp, calm, timer, attempts>> /\ timer[r] = 0
        /\ phase[r] = "running"
        /\ phase' = [phase EXCEPT ![r] = IF apiUp THEN "calling" ELSE "doomed"]
    BY <1>4 DEF SchedStartCall, StartCall, SetPhase, breaker, schedule
  <2>2. DoomedSoonDone' /\ WindowRuns'
    BY <2>1, CalmTypes DEF CalmInv, DoomedSoonDone, WindowRuns
  <2>3. StartedBeforeProbe'
    BY <2>1, CalmTypes DEF CalmInv, StartedBeforeProbe
  <2>4. RetriesInTime'
    BY <2>1, CalmTypes DEF CalmInv, RetriesInTime, BackInTime, Useful
  <2> QED
    BY <2>2, <2>3, <2>4
<1>5. ASSUME NEW r \in Reconcilers, SchedFinishCall(r) PROVE Timely'
  BY <1>5, CalmAtFinish
<1>6. ASSUME NEW r \in Reconcilers, SchedEnd(r) PROVE Timely'
  <2>1. /\ UNCHANGED <<mode, age, apiUp, calm>> /\ timer[r] = 1 /\ phase[r] = "running"
        /\ phase' = [phase EXCEPT ![r] = "idle"]
        /\ timer' = [timer EXCEPT ![r] = 1] /\ attempts' = [attempts EXCEPT ![r] = 0]
    BY <1>6 DEF SchedEnd, EndReconcile, SetPhase, Succeed, SetTimer, Requeue, breaker
  <2>2. DoomedSoonDone' /\ WindowRuns' /\ StartedBeforeProbe'
    BY <2>1, CalmTypes DEF CalmInv, DoomedSoonDone, WindowRuns, StartedBeforeProbe
  <2>3. RetriesInTime'
    BY <2>1, CalmTypes
    DEF CalmInv, StartedBeforeProbe, RetriesInTime, BackInTime, Useful, MaxDelay
  <2> QED
    BY <2>2, <2>3
<1>7. ASSUME NEW r \in Reconcilers, Wake(r) PROVE Timely'
  <2>1. /\ UNCHANGED <<mode, age, apiUp, calm, phase, attempts>> /\ phase[r] = "idle"
        /\ timer' = [timer EXCEPT ![r] = 0] /\ timer[r] > 0
    BY <1>7 DEF Wake, SetTimer, vars
  <2>2. DoomedSoonDone' /\ WindowRuns' /\ StartedBeforeProbe'
    BY <2>1, CalmTypes DEF CalmInv, DoomedSoonDone, WindowRuns, StartedBeforeProbe
  <2>3. RetriesInTime'
    BY <2>1, CalmTypes DEF CalmInv, RetriesInTime, BackInTime, Useful, MaxDelay
  <2> QED
    BY <2>2, <2>3
<1>8. ASSUME SchedTick PROVE Timely'
  BY <1>8, CalmAtTick
<1>9. ASSUME SchedOutage \/ SchedRecovery PROVE Timely'
  <2>1. calm' = 0 /\ UNCHANGED <<mode, age, phase, timer, attempts>>
    BY <1>9
    DEF SchedOutage, SchedRecovery, Outage, Recovery, schedule, breaker, CalmInv
  <2> QED
    BY <2>1, CalmTypes, BreakerAssumption
    DEF CalmInv, DoomedSoonDone, WindowRuns, StartedBeforeProbe, RetriesInTime, BackInTime, Useful,
        MaxDelay, Never
<1>10. ASSUME UNCHANGED schedVars PROVE Timely'
  BY <1>10
  DEF schedVars, schedule, vars, CalmInv, DoomedSoonDone, WindowRuns, StartedBeforeProbe,
      RetriesInTime, BackInTime
<1>11. Timely'
  BY <1>3, <1>4, <1>5, <1>6, <1>7, <1>8, <1>9, <1>10 DEF SchedNext, Scheduled
<1> QED
  BY <1>1, <1>2, <1>11 DEF CalmInv

\* However many objects retry, and however the calls of the outage end: once Scaleway
\* has answered for the length of the window, the longest delay and two calls, the
\* circuit is closed and no object that can succeed has failed since its last success.
THEOREM RecoveryBounded ==
  Refused = {} /\ Forbidden # Reconcilers /\ RecoveryTime >= Timeout + MaxDelay + 2
    => (SchedSpec => []RecoversInTime)
<1> SUFFICES ASSUME Refused = {}, Forbidden # Reconcilers,
                    RecoveryTime >= Timeout + MaxDelay + 2
             PROVE  SchedSpec => []RecoversInTime
  OBVIOUS
<1>1. CalmInv /\ [SchedNext]_schedVars => CalmInv'
  BY CalmPreserved
<1>2. CalmInv => RecoversInTime
  <2> SUFFICES ASSUME CalmInv, apiUp, calm = RecoveryTime
               PROVE  mode = "Closed" /\ \A r \in Useful : attempts[r] = 0
    BY DEF RecoversInTime, Useful
  <2>1. ASSUME NEW r \in Useful PROVE ~BackInTime(r)
    BY <2>1, BreakerAssumption, SchedulingAssumption
    DEF CalmInv, ScheduleOK, BackInTime, Useful, MaxDelay, Never
  <2>2. PICK r \in Useful : TRUE
    BY BreakerAssumption DEF Useful
  <2> QED
    BY <2>1, <2>2 DEF CalmInv, RetriesInTime
<1> QED
  BY <1>1, <1>2, InitCalm, PTL DEF SchedSpec

=============================================================================
