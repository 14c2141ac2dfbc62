# Verification of scaleway-operator

TLA+ specifications of the operator in `src/`, the TLC configurations that check
them on small instances, and TLAPS proofs that hold for every value of their
constants. Paths below are relative to the repository; line numbers refer to the
commit the specifications were written against and are listed, definition by
definition, in `PROJECT.json` (`map`).

    tlc -workers 2 -config ScalewaySecret_faults.cfg MCScalewaySecret
    tlapm ScalewaySecret_safety.tla

## 1. The system

The operator is one process with four kube-rs controllers. Each takes one kind of
custom resource (CR), and calls `reconcile_*` for an object when its watch reports
a change or when the last pass asked for another one. The reconciles of different
objects run concurrently in tokio; two reconciles of one object never do, *within a
process*.

| Part | State it keeps | Operations | Talks to |
|---|---|---|---|
| Circuit breaker (`context.rs`) | `Closed{failure_count}`, `Open{opened_at}`, `HalfOpen`, under a mutex | `is_circuit_open`, `record_scaleway_failure`, `record_scaleway_success` | every reconcile, once at its start; `call_scaleway` after each call |
| Retry counters (`context.rs`) | `key -> u32`, under a mutex | `increment_retry_count`, `reset_retry_count` | `error_policy`, the `reconcile_*` wrappers |
| Error classes (`error.rs`) | none | `is_permanent_error`, `recheck_interval` | `error_policy`, `call_scaleway`, the deletions |
| ScalewaySecret reconciler (`reconcilers.rs`) | the CR's status and finalizer on the API server | one reconcile: checks, read of the source, creation, push, revocation, deletion | API server, Secret Manager, breaker |
| Secret Manager client (`scaleway.rs`) | none; the service holds secrets and versions | find by tags, create secret, create / disable / access version, delete | Scaleway |
| Instance, LoadBalancer reconcilers | status, finalizer; gauges | find by name, create, read back, delete | API server, Scaleway, breaker, metrics |
| RDB reconciler | status, finalizer | the same, plus a password read from a synchronised ScalewaySecret, and drift events | ScalewaySecret status, Secret Manager, Scaleway |
| Metrics (`metrics.rs`) | gauges by state, counters | updated beside the status writes | Prometheus |
| Readiness (`server.rs`, `main.rs`) | `last_reconcile_at` | heartbeat, end of each reconcile, `/readyz` | kubelet |
| NamespaceRole, project annotation, credentials Secret, source Secret | Kubernetes objects of users and admins | read by the reconcilers; **watched by none** | |

### What is hard

* **Stale snapshots.** A reconcile reads the CR from a cache that lags behind the
  API server, and its own status writes come back through that cache. Status writes
  are merge patches of the whole status without a `resourceVersion`: they overwrite.
* **Lost answers and crashes.** Between "Scaleway did it" and "the status says so"
  lie an await, an HTTP answer and a patch.
* **Concurrency on the breaker.** It is read once, at the start; calls in flight
  report to it much later.
* **Waking up.** A transient error is retried, a permanent one waits for a watch
  event, and some permanent ones are rechecked: a wrong class strands an object.
* **Rolling updates.** The chart has no update strategy and the operator no leader
  election: two pods overlap at every upgrade.
* **Order.** Finalizer before anything in Scaleway; id anchored in the status before
  a version; version disabled before `Revoked` is announced; secret deleted before
  the finalizer goes.

### What makes each part correct

| Part | Properties |
|---|---|
| Circuit breaker | count below the threshold; an open circuit ends only by a probe after the full window; closes only on a success; recovers after outages |
| Retry counters and delays | delays of at most 300 s; everything works again within a bounded time after an outage |
| ScalewaySecret | one secret per CR; at most one enabled version, the last; no value pushed twice without a failure; nothing pushed without consent; a truthful `Synced` and `Revoked`; finalizer covers the secret's life; converges; deletions end; a withdrawn consent is applied; all of it as its readers see it (`SecretSync`) |
| Instance, LoadBalancer | one server per CR across stale snapshots, lost answers and restarts; finalizer before the server; a `Synced` that names the running server; converges; deletions end; gauges that recover from a restart (section 6: they do not) |
| RDB | one database per CR; finalizer before it and until it is gone; data destroyed only on a Delete policy that the CR had while it was being deleted, and not by a pass that has seen the edit to Retain; every drift reported or its report logged as failed, and not for ever; created in the end, however late its ScalewaySecret and whatever is disabled between the read of its status and that of its version; deletions end |
| Readiness | not ready only when the process makes no progress (section 6: it does not look) |

`PROJECT.json` lists the hazards behind these, one by one, at their lines.

## 2. The modules

| Module | Models | Lines of TLA+ |
|---|---|---|
| `OperatorError` | the error variants, which are permanent or rechecked, and whether `error_policy` schedules another reconcile | 37 |
| `SecretManager` | the secrets and versions a CR has in Scaleway, and the effect of the calls on them | 56 |
| `CircuitBreaker` | the breaker and concurrent reconciles that use it, through outages; no clock for the reconciles | 199 |
| `Scheduling` | the same with the retry counters, the delays and one clock; refines `CircuitBreaker` | 160 |
| `SecretSync` | what a ScalewaySecret promises to its readers: abstract, six actions | 81 |
| `ScalewaySecret` | the reconciler of one CR, step by step, with its cache, its users and a second pod; uses `OperatorError` and `SecretManager`, refines `SecretSync` | 711 |
| `CloudServer` | the reconcilers of Instance and LoadBalancer, with their gauges; uses `OperatorError` | 494 |
| `Rdb` | the RDB reconciler, composed with the `SecretSync` of its password | 653 |
| `MCScalewaySecret`, `MCCloudServer`, `MCRdb` | values of the constants for TLC | 79 |
| `CircuitBreaker_proofs`, `Scheduling_proofs`, `SecretManager_proofs`, `ScalewaySecret_proofs`, `ScalewaySecret_safety`, `ScalewaySecret_sync`, `CloudServer_proofs`, `Rdb_proofs` | theorems and lemmas | |

How they compose: `ScalewaySecret` and `Rdb` extend `OperatorError` and `SecretManager`,
`CloudServer` extends `OperatorError`. `Rdb` runs beside an instance of `SecretSync`, the
ScalewaySecret of its password; `ScalewaySecret` refines `SecretSync`, `Scheduling` refines
`CircuitBreaker`. The product of two detailed reconcilers is beyond TLC: `Rdb` is checked
against all that `SecretSync` allows within its bounds, and `secret_faults` checks that the
detailed reconciler does nothing else.

Definitions whose name says what a plausible mistake would be
(`RecordSuccessClosingOpen`, `CachedCrAssumedCurrent`, `NothingToAdopt`, ...) are
mutated forms of the definition that follows them. They are used by no
specification; substituted for it, they break the property `PROJECT.json` pairs
them with.

### CircuitBreaker

`mode`, `failures` and `age` are the three variants of `CircuitBreakerState`; `age`
counts ticks since `opened_at` and stops at `Timeout`, since the code only compares
it. `Become` sets the fields a variant does not have to 0. `phase[r]` is what
reconcile `r` does: `StartReconcile` is the one look at the breaker (with its side
effect Open -> HalfOpen), `StartCall` and `FinishCall` the two ends of a
`call_scaleway`, so any number of other steps fit between them. A call sent during an
outage is `"doomed"`: it fails, perhaps by the client's timeout and after the API came
back. Constants say which reconciles ignore the circuit (deletions, opt-in
revocations), are refused with a 4xx (a `ScalewayError`, counted as a failure) or end in
a permanent error (not counted at all).

### Scheduling

One tick is 30 s. Every delay of the code that matters is a multiple of it: the 60 s of
the open circuit, the 30 s of `Action::requeue`, the backoff of 30 * 2^(n-1) s up to 300 s,
the 30 s timeout of the HTTP client. The requeues after 5 and 10 s that follow a creation
count as one tick.

| Variable | In the code |
|---|---|
| `timer[r]` | the delay the controller waits before it reconciles r again; `Never` is `Action::await_change`; during a call, the ticks since it was sent |
| `attempts[r]` | `retry_counts`, up to 5: the delay is the same from there on |
| `calm` | history: ticks since the Scaleway API came back |
| `wakes` | bound: watch events that start a reconcile early |

`SchedStart`, `SchedStartCall`, `SchedFinishCall` and `SchedEnd` are the actions of
`CircuitBreaker` plus what `error_policy_inner` (`RetryLater`, `AwaitChange`) or the
success path (`Succeed`, which resets the counter) does with the delay. `SchedTick` lets
time pass only when nothing is due, as reconciles take no time next to 30 s. A reconcile
sends one call, which is what following an existing resource takes.

### SecretSync

`store` is Secret Manager's side, `announce` the CR as others see it: its life, what its
status claims (`Synced`, `Revoked` or nothing), the ids it names and the value that a
`Synced` stands by. Its six actions say what an observer may see: one secret at a time;
pushes only to the secret the status names; a `Synced` that names an enabled version
holding that value; a `Revoked` that names no enabled version; no deletion before the
CR's; a CR that never comes back. The refinement mapping is `ScalewaySecret!Abstract`.

### ScalewaySecret

A reconcile is cut at each `await`: `pc[p]` names the call that comes next, the
action does the call and everything up to the following one. `job[p]` holds its local
variables, the snapshot `job[p].cr` first.

| Variable | In the code |
|---|---|
| `live` | the CR on the API server: spec, generation, finalizer, deletion, status |
| `feed[p]` | `Head`: the object in pod p's cache; the rest: watch events under way |
| `current[p]` | whether the snapshot of the running reconcile has the live `resourceVersion`: what `is_cached_cr_current` finds when it compares the two |
| `source`, `ns` | source Secret (consent, keys, `resourceVersion`); NamespaceRole, project annotation, credentials Secret and RBAC |
| `scw` | secrets with the CR's tags; the id is the index, the revision the index of the version |
| `due[p]` | the controller will call reconcile again: a watch event, a requeue or a backoff |
| `ops`, `faults` | bounds: operations of users and admins; failed or lost calls, crashes, openings of the circuit |

| Action | In the code |
|---|---|
| `Start`, `Checks`, `ReadRole` | the beginning of `reconcile_scaleway_secret_inner` |
| `ReadSource`, `OptInMissing` | `read_k8s_secret_source`, one GET for consent, value and version |
| `DecideNextAction`, `Act` | the pure decision and the branch it selects |
| `RevokeCreds`, `Disabling`, `WriteRevoked` | `handle_opt_in_revocation` |
| `WriteError` | every write of an Error status, followed by the return of its error |
| `Guard` | `is_cached_cr_current` before a creation or a push |
| `ReadProject`, `ReadCreds`, `Find`, `Create`, `WritePreliminary`, `CreateVersion`, `WriteSynced` | creation; a push shares the last steps |
| `DeleteCreds`, `Delete`, `RemoveFinalizer` | deletion |
| `Deliver`, `Crash` | the controller: an event reaches the cache; the process dies and lists again |
| `EditSpec`, `DeleteCR`, `EditSource`, `EditNamespace` | users and admins |

Conventions:

* `None` is 0: ids, revisions and generations start at 1.
* Every call can fail; a call that changes something can also fail *after* its effect
  (`Patch`, `ScalewayCall`). Both use up the fault budget. So does the open circuit
  that `Start` may find: it stands for failures of other resources.
* A write that changes nothing moves no `resourceVersion` and raises no event. Error
  messages are their cause, so the same cause writes the same status: this is what
  ends the sequence of status writes that wake the reconciler.
* `Deliver` makes a reconcile due for any change, status included; the controllers
  set no predicate. There is no periodic resync in the watcher, and none in the model.
* A payload is the resourceVersion and generation it was read under, and whether the
  consent held: what the properties tell apart.

Outside the model: a CR created again under the same name, a secret deleted in the
Scaleway console, finalizers of other controllers, and statuses written before
`observed_generation` existed (the code's branch for them is in
`AlreadySyncedStatus`, the state is not initial).

### CloudServer

Instance and LoadBalancer share their control flow, so one module models both;
`kind`, chosen in `Init`, says which reconciler runs. It is cut at each `await`
like ScalewaySecret, with one pod.

| Variable | In the code |
|---|---|
| `live`, `feed`, `pc`, `job`, `due` | as in ScalewaySecret; a snapshot is outdated when `feed` holds more than its head |
| `ns` | NamespaceRole, project annotation, access to the project, credentials Secret |
| `cloud` | the servers created for the CR; the id is the index, `"pending"` stands for every state that is not yet final |
| `gauge` | `instances_total` or `load_balancers_total` by state, in the process |
| `ops`, `faults`, `stale` | bounds: operations of users, admins and the console; faults; reconciles that start on an outdated snapshot |

| Action | In the code |
|---|---|
| `Start`, `ReadRole`, `ReadProject` | the beginning of `reconcile_*_inner` up to `decide_next_action` (`DecideNextAction`), and the validation of the zone or region |
| `AddFinalizer` | the finalizer, then the next pass |
| `ReadCreds`, `VerifyProjectAccess`, `Find`, `Create`, `WriteCreated` | `execute_create_instance`, `execute_create_load_balancer` |
| `Get`, `WriteSynced`, `WriteGone` | the `SyncInstance` and `SyncLoadBalancer` branches: read the server back, or forget one that answers 404 |
| `WriteError`, `WriteFailure` | Error statuses; only the second one's own failure replaces the error it reports |
| `DeleteCreds`, `Delete`, `WriteBlocked`, `WriteAudit`, `RemoveFinalizer` | `handle_deletion`, `handle_lb_deletion` |
| `Deliver`, `Crash` | the controller |
| `DeleteCR`, `EditNamespace` | users and admins |
| `BecomeReady`, `Disappear` | Scaleway: a server starts up; someone deletes it in the console |

`kind` makes a difference in four places: an Instance reads the namespace's
credentials for all it does, a LoadBalancer only in its deletion; a known
LoadBalancer is not validated again; only a LoadBalancer may be locked (409, 423:
`WriteBlocked`); only a LoadBalancer records in its status that it was left behind
(`WriteAudit`). An Instance is found by its name and a LoadBalancer by its tags;
with one CR both mean the same servers.

Nothing here is checked against the live `resourceVersion` before a creation. What
stands between an old snapshot and a second server is the search that precedes every
creation, and that is what the properties and the proofs are about.

Outside the model: edits of the spec, which these reconcilers never push (but an
edited zone makes the next GET look in the wrong place), two CRs that name one
server, and a namespace that moves to another project.

### Rdb

Cut at each `await` like the others, with one pod.

| Variable | In the code |
|---|---|
| `live`, `feed`, `current`, `pc`, `job`, `due` | as in ScalewaySecret |
| `ns` | NamespaceRole, project annotation, credentials Secret |
| `store`, `announce` | the ScalewaySecret of the password (`SecretSync`) |
| `dbs` | the databases created for the CR, with engine, node type and state; the id is the index |
| `reported`, `logged` | history: the drifts an Event was published for; those of which a publication failed and was logged |
| `asked` | history: the CR was being deleted with `deletion_policy: Delete`, at some moment |
| `ops`, `faults`, `stale` | bounds, as in CloudServer |

| Action | In the code |
|---|---|
| `Start`, `ReadRole`, `ReadProject`, `Act` | `reconcile_rdb_inner` up to `decide_next_action_rdb` (`DecideNextAction`) |
| `AddFinalizer` | the finalizer, then the next pass |
| `Guard`, `CreateCreds`, `Find`, `ReadSecret`, `Access`, `Create`, `WriteCreated` | the creation: the stale-cache guard, adoption by tags, `read_rdb_admin_password` in its two calls, the creation and the write of its id |
| `SyncCreds`, `Get`, `PublishDrift`, `WriteSynced`, `WriteGone` | the `SyncInstance` branch: read back, drift Event (`ShouldEmit`; its failure is only logged), status; or forget a database that answers 404 |
| `WriteError` | Error statuses; `Pending` while it waits for the ScalewaySecret |
| `DeleteCreds`, `Delete`, `WriteRefused`, `RemoveFinalizer` | deletion, `deletion_policy` and refusals included |
| `Deliver`, `Crash` | the controller, which watches RDB resources only |
| `EditSpec`, `DeleteCR`, `EditNamespace` | users and admins |
| `BecomeReady`, `ChangeInConsole`, `Disappear` | Scaleway and its console |
| `SourceStep` | a step of the ScalewaySecret: up to its first version by itself, later steps as operations of its users |

One drift stands for all: the node type is what an Event and `status.drift` are about,
the engine what becomes `ConfigDrift`. Drifts of HA and of the volume follow the same
lines as the node type's.

## 3. The runs

Each finishes within four minutes with two workers. Sizes are distinct states.

| Run | Instance | Shows |
|---|---|---|
| `scheduling` (0.6M) | 3 objects (one ordinary, one of permanent errors, one that ignores the circuit), threshold 5, one outage, one early wake | the breaker's safety, that it closes for good after an outage, and within how long: 14 ticks, 7 minutes, is the exact bound (13 are not enough); refinement of `CircuitBreaker` |
| `secret_faults` (2.4M) | 1 pod, 3 user operations, 2 faults, consent comes and goes | type, nine safety properties of the reconciler, and the refinement of `SecretSync`; `NoDuplicateVersion` is about the behaviours without faults |
| `secret_liveness` (0.9M) | 1 pod, every kind of spec and source, credentials that come and go, 2 operations, 1 fault | convergence, the withdrawal of consent, deletions complete |
| `secret_overlap` (1.0M) | 2 pods, 1 operation | finalizer first while two pods overlap |
| `server` (0.5M) | Instance and LoadBalancer, every kind of namespace, 2 operations, 1 fault, 1 outdated start | one server, finalizer first, a truthful `Synced`, convergence, deletions complete |
| `rdb_faults` (2.5M) | valid specs and a bad region, every defect of a namespace, 2 operations (edits of a CR being deleted among them), 1 fault, 1 outdated start, any behaviour of the ScalewaySecret | one database, finalizer first and kept, `Retain` honoured, drifts reported or their failure logged, a truthful `Synced` |
| `rdb_liveness` (0.6M) | the same with reserved tags, credentials that come and go instead of the other defects, no outdated start | convergence, deletions complete, drift Events stop |

Five runs end in a counterexample, each of one statement found in the repository;
section 6 lists them.

**Bounds.** One CR is enough: reconciles of different CRs share only the breaker,
which `CircuitBreaker` and `Scheduling` model with several users and the reconcilers as
an arbitrary answer of their first step. Operations (`MaxOps`) are those of users,
admins and the console; three of them in the secret runs include the longest cycle (edit,
withdraw, grant again), two elsewhere a loss in the console followed by a deletion, or a
push of the password followed by its revocation. Two faults include a lost creation followed
by a lost status write; one fault and one outdated start (`MaxStale`) include a lost
creation followed by a pass that does not know of it. `server` with two outdated starts
(1.6M states) and `scheduling` with two outages (3.7M) pass too. Specs are edited before and
during a deletion, which an API server allows and which the `deletion_policy` of an RDB is
about. The defects of a namespace come two to a namespace in `rdb_faults` (`AnyNamespace`):
a pass meets the second one alone when the edit falls between two of its reads. The runs
have one project, so the branch for several matches of a search by tags is not reached with
one pod; a spec without `kubernetes_secret` (`NoKey`) is in the model and the proofs but not
in the runs, where a key that the source lacks takes the same path. Symmetry of the pods is
used in `secret_overlap` only, which checks an invariant.

`CHECK_DEADLOCK FALSE` is set for ScalewaySecret, CloudServer and Rdb because they do
stop: once the CR is gone, or after a permanent error that nobody repairs, nothing is
scheduled. `scheduling` checks deadlock.

**Fairness.** In the reconcilers: weak fairness of `Reconcile`, since tokio runs what is
ready, calls end (with an answer or a timeout) and `due` stands for a delay that
elapses; and of `Deliver`, since the API server delivers its events. Users, admins,
faults, crashes and the ScalewaySecret an RDB waits for owe nothing. CloudServer and Rdb
add weak fairness of `BecomeReady`: what Scaleway accepted starts up in the end.
Scheduling: weak fairness of `Progress` (whatever is due happens, then time passes) and of
the end of an outage.

**Hypotheses of convergence.** Nothing watches namespaces, so a CR that failed for good in
an unusable one is not woken by its repair. `Converges` and `OptOutIsApplied` therefore
suppose `[]NamespaceUsable` (in Rdb `[]Usable`), instead of a namespace that is usable from
some point on. Deletions need no such hypothesis. Rdb's `Converges` also supposes that its
ScalewaySecret ends up readable (`<>[]SecretUsable`), at whatever moment.

## 4. What is proved

For every number of reconciles and pods, every set of specs, sources, namespaces and
every bound. The assumptions type the constants (`BreakerAssumption`,
`SchedulingAssumption`, `SecretAssumption`, `ServerAssumption`, `RdbAssumption`); one more,
`PowersOfTwo`, is the closed fact that 2^0 .. 2^9 are naturals, for which the provers have
no rule. TLC evaluates all of them in the runs.

| Theorem | States |
|---|---|
| `CircuitBreaker_proofs!TypeCorrect` | `[]TypeOK` |
| `CircuitBreaker_proofs!ThresholdNeverReached` | `[]FailuresBelowThreshold` |
| `CircuitBreaker_proofs!OpenEndsOnlyInProbe` | `OpenEndsInProbe`; needs `age <= Timeout` from the type invariant |
| `CircuitBreaker_proofs!OpenWindowNeverExtended` | `OpenWindowNotExtended` |
| `CircuitBreaker_proofs!ClosedBySuccessOnly` | `ClosesOnSuccess` |
| `Scheduling_proofs!SchedulingImplementsBreaker` | `SchedSpec => Spec`: the five theorems above hold of the operator on its clock |
| `Scheduling_proofs!DelaysBounded` | `[]ScheduleOK` |
| `Scheduling_proofs!RecoveryBounded` | `[]RecoversInTime`, when `RecoveryTime` is at least the window, the longest delay and two calls, no deletion is refused for ever (section 6) and some object can succeed |
| `ScalewaySecret_proofs!TypeCorrect` | `[]TypeOK` |
| `ScalewaySecret_proofs!OneVersionEnabled` | `[]OnlyLastEnabled`: with any number of pods, lost answers and crashes |
| `ScalewaySecret_safety!FinalizerFirst` | `[]FinalizerBeforeSecret`: any number of pods |
| `ScalewaySecret_safety!ConsentFirst` | `[]OnlyGrantedPayload`: any number of pods |
| `ScalewaySecret_safety!RevocationKept` | `RevokedVersionDisabled`: any number of pods |
| `ScalewaySecret_safety!NoSecondSecret` | `[]AtMostOneSecret` for one pod and one project; with two pods it is false (section 6) |
| `ScalewaySecret_safety!FinalizerHolds` | `[]FinalizerKeptUntilDeleted` for one pod and namespaces that keep their credentials |
| `ScalewaySecret_sync!AnchoredVersions` | `VersionOnAnchoredSecret` for one pod |
| `ScalewaySecret_sync!SyncedTellsTruth` | `SyncedIsTrue` for one pod |
| `ScalewaySecret_sync!Implementation` | `ImplementsSecretSync` for one pod and one project: the detailed reconciler is the abstract one that `Rdb` runs against |
| `ScalewaySecret_sync!ValuesPushedOnce` | `[]NoDuplicateVersion` for one pod and namespaces that always let the operator write (section 6) |
| `CloudServer_proofs!TypeCorrect` | `[]TypeOK` |
| `CloudServer_proofs!OneServer` | `[]AtMostOneServer`: with any number of outdated starts, lost answers and restarts |
| `CloudServer_proofs!FinalizerFirst` | `[]FinalizerBeforeServer` |
| `CloudServer_proofs!SyncedNamesIt` | `SyncedNamesServer` |
| `Rdb_proofs!TypeCorrect` | `[]TypeOK` |
| `Rdb_proofs!OneDatabase` | `[]AtMostOneDatabase` |
| `Rdb_proofs!FinalizerFirst` | `[]FinalizerBeforeDatabase` |
| `Rdb_proofs!KeptUntilGone` | `[]KeptUntilDeleted` |
| `Rdb_proofs!DriftsReported` | `[]DriftReportedFirst` |
| `Rdb_proofs!RetainObeyed` | `RetainHonoured` |
| `Rdb_proofs!SyncedNamesIt` | `SyncedNamesDatabase` |

**ScalewaySecret, the versions.** `ScalewaySecret_proofs` rests on

    IInv == TypeOK /\ ProjectKnown /\ OnlyLastEnabled

`ProjectKnown` (a reconcile about to search or create has a project of the
namespace) is what makes `Create` keep `scw` typed: `job.project` may also be
`NoProject`, and only the path through `ReadProject` excludes it.
`OnlyLastEnabled` is inductive over `TypeOK`: `SecretManager_proofs` shows, call by
call, that `NewVersion` with `disable_previous`, `DisableVersion` and `DeleteSecret`
preserve it, and every other step leaves `scw` alone. No assumption on what the
reconciler knows is needed, which is why the property survives stale snapshots and two
pods: the service disables *its* previous version, not the one the status names.

**ScalewaySecret, across steps.** `ScalewaySecret_safety` adds what a step knows:

    SafeInv == /\ IInv /\ SnapshotsBehind /\ StepKnows /\ DisabledKnown
               /\ FinalizerBeforeSecret /\ OnlyGrantedPayload

A creation keeps `FinalizerBeforeSecret` because its snapshot has the finalizer
(`StepKnows`) and no snapshot is ahead of the live CR (`SnapshotsBehind`): a finalizer,
once there, only goes from a CR being deleted, which then is gone. A push keeps
`OnlyGrantedPayload` because between the read of the consent and the push only the job
carries both (`StepKnows`). `DisabledKnown` says that a revocation about to be written has
disabled the version its snapshot names; it survives whatever other pods do, since secrets
do not come back to life and no call enables a version again (`Aged`, proved of every
step). For one pod, `NothingToFind` (a creation follows a search that found nothing, and
nothing appeared since) gives `AtMostOneSecret`.

**ScalewaySecret, between the CR, the source and Secret Manager.** With one pod,
`ScalewaySecret_sync` adds

    SyncInv == /\ SafeInv /\ Counted
               /\ \A p \in Pods : /\ SnapshotsFaithful(p) /\ Ordered(p)
                                  /\ CurrentIsLive(p) /\ JobKnows(p)

`SyncedIsTrue` needs to know why an `AlreadySynced` reconcile may write Synced without
asking Scaleway. `SnapshotsFaithful` says so: every copy of the CR (the live one, those in
the cache and under way, the reconcile's) either admits to be out of date (`Stale`: its
resourceVersion or generation is not the current one) or names an enabled version that
holds what it records. This survives a push only if every copy is already `Stale` when the
push happens, which is what the guard buys: `CurrentIsLive` ties a reconcile past
`is_cached_cr_current` to the live CR, and `JobKnows` keeps every copy `Stale` from there to
the write of the new status. `Ordered` (generations and the deletion only grow along the
feed) carries this through later deliveries; `Counted` bounds resourceVersions and
generations by the operations of users, which types the payloads of the refinement.
The refinement then takes each step to a step of `SecretSync`: a creation to
`CreateSecret` (`NothingToFind`), a push to `Push` (the status is anchored), a written
status to `Announce` (it tells the truth) or to nothing, edits and deletions of the CR to
`Depart` or to nothing. With two pods the guard of one proves nothing about the writes of the
other, and the refinement is false (section 6).

**ScalewaySecret, a value is pushed once.** `ValuesPushedOnce` adds to `SyncInv`, as long as
nothing has failed,

    OnceInv == faults = 0 =>
                   /\ DupFree
                   /\ \A p \in Pods : /\ Past(p) /\ SameSpec(p) /\ HeldIsPushable
                                      /\ JobTells(p) /\ Tracked(p)

`DupFree` is the property; the rest says why a push adds nothing that is held. If a version
holds the current value under the current generation, then the status records it, or the
reconcile is about to write that it does (`Tracked`). So a reconcile whose snapshot is the
live CR, which is what the guard lets through, has decided to push only what is not held
(`JobTells`), and no later step makes it held. The hard part is that `Tracked` survives: every
write puts back the tracking fields of an old snapshot, so none but the write of the push and
that of an unchanged status may happen while the current value is held. A snapshot behind the
last push is never of an older spec (`Past`, `SameSpec`) and what was pushed still can be
(`HeldIsPushable`), so the reconcile meets none of the errors whose status would lose it. A
failed call or a namespace that turns read-only for a while is such an error, which is why the
theorem excludes both. TLC checked `OnceInv` on one pod with every spec and source of the runs before it was
proved.

**CloudServer.** Its four theorems share

    IInv == /\ TypeOK /\ SnapshotsBehind /\ StepKnows /\ NothingToFind /\ FollowsTheOne
            /\ AtMostOneServer /\ FinalizerBeforeServer

Neither safety property is inductive alone. A creation keeps `AtMostOneServer` only if
nothing is alive when it happens: `NothingToFind` says so of the step `"create"`,
which only an empty search enters and during which only this reconcile
could create. A creation keeps `FinalizerBeforeServer` only if the live CR has its
finalizer, while the reconcile has only seen the snapshot's. `SnapshotsBehind` (a
snapshot that has the finalizer, or is being deleted, is not ahead of the live CR) and
`StepKnows` (the steps after the decision work from a snapshot with the finalizer, those
of the deletion from one being deleted) close the gap: the finalizer, once set, is
only taken off a CR being deleted, which then no longer exists. `FollowsTheOne` (a status
read back is about the only server alive) gives `SyncedNamesServer`. TLC checked `IInv`
before it was proved.

**Rdb.** Its theorems share

    IInv == /\ TypeOK /\ SourceKnown /\ SnapshotsBehind /\ AsksKnown /\ CurrentIsLive
            /\ DriftsKnown /\ StepKnows /\ NothingToFind /\ FollowsTheOne
            /\ AtMostOneDatabase /\ FinalizerBeforeDatabase /\ KeptUntilDeleted

The argument for one database and for the finalizer is CloudServer's. `RetainHonoured`
cannot speak of the last spec, which may be edited while the deletion is being retried. It
rests on `StepKnows` (the steps that destroy come from a snapshot being deleted whose policy
is Delete), on `AsksKnown` (such a snapshot was the CR once, so its owner asked) and on
`CurrentIsLive` (a snapshot that nothing has changed since is the CR as it is, so an edit to
Retain that the pass has seen is honoured). `DriftsKnown` follows a drift from the Event, or
the log of its failure, through the job to the status and back through the snapshots; `FollowsTheOne` (a status read back is about the only database alive) gives
`SyncedNamesDatabase`; `SourceKnown` types the ids that the ScalewaySecret shows.

**Scheduling, the time to recover.** `RecoveryBounded` needs no liveness: it counts.

    CalmInv == /\ TypeOK /\ FailuresBelowThreshold /\ ScheduleOK /\ (~apiUp => calm = 0)
               /\ DoomedSoonDone /\ WindowRuns /\ StartedBeforeProbe /\ RetriesInTime

`calm` is the time since Scaleway answers again. Each conjunct bounds it by what is still to
come: a call sent during the outage ends within its timeout (`DoomedSoonDone`), so an open
circuit was opened early enough that its window runs out (`WindowRuns`); a reconcile that is
turned away started before that (`StartedBeforeProbe`); whatever has yet to succeed is then
scheduled within the longest delay (`RetriesInTime`). What can never be late cannot fail
late: once `calm` reaches `RecoveryTime` every term is exhausted. The constants of
`scheduling` meet the hypothesis with equality, and TLC finds the property violated one tick
below it.

**Only model-checked.** All liveness: fairness is outside the prover's reach. Every invariant
and every action property of the passing runs, and both refinements, are theorems.

## 5. What is not modelled

* **Readiness.** `/readyz` compares `last_reconcile_at` with the clock, and a task of its
  own sets it every 30 s whatever the controllers do: the answer depends on that task
  alone and there is no protocol to check. Section 6 says what that means.
* **Metrics** other than the gauges of instances and load balancers: counters and
  histograms carry no state that the operator reads.
* **Zones and names.** The zone of an Instance can be edited although no reconcile pushes
  edits; an Instance is adopted by its name, which two CRs may share. The outcome is plain
  from the code and nothing in the repository says what it should be.
* **Second lives.** A CR created again under the same name, a secret deleted in the
  Scaleway console, statuses from before `observed_generation`.
* **Wording and I/O.** Tags, JSON, base64, messages, the other handlers of the HTTP
  server; `validate_region` is a boolean of the spec. Of the custom resource definitions the
  models keep the fields that reconcilers read or write and the immutability of regions.
* **Chart, CI and scripts** are packaging; the overlap of two pods comes from the chart.

## 6. Where code and documents disagree

| Run | Statement | What happens |
|---|---|---|
| `secret_revoked_stale` | `reconcilers.rs:1525`: never announce as disabled a version that is not | revocation from a stale snapshot disables an older version; every later pass returns early |
| `secret_orphan` | `ARCHITECTURE.md:97`: the secret is deleted before the finalizer goes | a deletion seen in a snapshot without `scaleway_id` leaves the secret in Scaleway |
| `server_gauge` | `metrics.rs:116`: after a restart the gauge corrects itself | a server that changes state across the restart leaves the gauge of its old state at -1 for ever |
| `server_creds` | `ARCHITECTURE.md:98`, `reconcilers.rs:784`: the finalizer goes without a deletion if the credentials are absent | it goes on any error: one failed GET of an existing Secret leaves the server running, unmanaged |
| `rdb_password` | `error.rs:170`: a `ConfigError` is corrected in the CR or the namespace, and an event relaunches the reconcile | a password that is not UTF-8 is a `ConfigError` too; it is corrected in the ScalewaySecret's source, and nothing wakes the RDB |

Known without a run of their own:

* `README.md:292` and `ARCHITECTURE.md:163` say that a drift appears in the status and in an
  Event, once per appearance. A failed publication is swallowed (`reconcilers.rs:2939`), the
  status is written all the same (`:2742`), and no later pass publishes it; the comment of
  `publish_rdb_drift_event` accepts this. `DriftReportedFirst` without `logged` is false.
* `README.md:295` says that with `deletion_policy: Retain` the database stays in Scaleway. The
  deletion takes the policy from the cached CR (`reconcilers.rs:2639`) without
  `is_cached_cr_current`: a pass that starts after the edit to Retain, before the cache has
  it, still destroys. `RetainHonoured` without `current =>` is false.
* `ARCHITECTURE.md:196` calls permanent what a retry cannot help, but a failed GET of the
  namespace is a `ConfigError` (`reconcilers.rs:297`). If the write of the Error status
  fails in the same outage, nothing wakes the CR. It takes two faults at once; the liveness
  runs allow one.
* Nothing watches namespaces, so the edit that `error.rs:170` counts on relaunches nothing
  by itself.
* Two pods of a rolling update (`values.yaml:3` sees no need for leader election) can both
  search, find nothing and create a secret.
* The documents speak of one probe through a half-open circuit
  (`docs/solutions/architecture-patterns/circuit-breaker-global-scaleway-api-kube-operator-2026-05-14.md:71,132`)
  and, in between, accept a herd of them (`:126`). The code has the herd; `RecoversInTime`
  bounds what it costs.
* An object whose deletion Scaleway always refuses with a 4xx ignores the circuit, fails,
  and reopens a half-open circuit over and over: other objects can be held up for as long
  as it lasts. `Refused` is empty in `scheduling` for this reason.
* The heartbeat makes `/readyz` answer 200 with every controller stuck, whereas
  `README.md:491` says "si le controller loop est actif".

Two behaviours are as designed but easily misread. A status write puts back the whole
status of the snapshot, tracking fields included, so an Error written from a stale
snapshot makes the same value be pushed once more (`record_error_in_status`). It takes
no failure: a role edited to Viewer and back between a push and the delivery of its
status is enough, which is why `secret_faults` checks `NoDuplicateVersion` in a namespace
that stays usable. The
breaker is read once: a reconcile under way when it opens makes its remaining calls, and
deletions and revocations do not look at it.

The properties of the passing runs say what does hold next to these. `RevokedVersionDisabled`
is about the version the status names; `FinalizerKeptUntilDeleted` about the secret
the reconcile knows; `DriftReportedFirst` excepts the publications that failed and were
logged; `RetainHonoured` holds a pass to the policy it has seen; `SyncedIsTrue`,
`SyncedNamesServer` and `SyncedNamesDatabase` have no exception; the values of
`rdb_liveness` are readable. `AtMostOneSecret`, `AtMostOneServer` and `AtMostOneDatabase`
suppose that Scaleway lists what it has created: an adoption is no better than its search.

## 7. Plan

Done: every reconciler, the breaker, its clock and the abstract ScalewaySecret, with the type
invariant of each module and the safety properties of section 4 proved. Left, in order:

1. Two CRs that name one server, and edited zones, once the repository says what should
   happen.
2. A CR created again under the same name while its predecessor's secret is left behind.
