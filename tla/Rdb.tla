-------------------------------- MODULE Rdb --------------------------------
(***************************************************************************)
(* The reconciler of one RDB custom resource (CR): it creates a managed    *)
(* database in Scaleway, follows it and reports how it drifts from the     *)
(* spec (reconcilers.rs).  The admin password comes from a ScalewaySecret  *)
(* that its own reconciler keeps in step; here it appears as SecretSync,   *)
(* which ScalewaySecret implements.                                        *)
(*                                                                         *)
(* As in ScalewaySecret, a reconcile is split at each await, works on a    *)
(* cached snapshot of the CR, and replaces the whole status when it writes *)
(* it.                                                                     *)
(***************************************************************************)
EXTENDS OperatorError, SecretManager, FiniteSets

CONSTANTS
    Engines, Nodes,  \* what Scaleway offers: engines with their version, node types
    Specs,           \* specs the user may give the CR
    Namespaces,      \* configurations an admin may give the namespace
    Values,          \* what the ScalewaySecret may hold
    Readable,        \* those that are valid UTF-8
    MaxOps,          \* bound: operations of users, admins and the console
    MaxFaults,       \* bound: failed or lost calls, crashes, circuit openings
    MaxStale         \* bound: reconciles that start from an outdated snapshot

Spec0 == [regionOk : BOOLEAN, reserved : BOOLEAN, retain : BOOLEAN,
          engine : Engines, node : Nodes]
Namespace0 ==
    [role : {"Editor", "Viewer", "absent"}, project : BOOLEAN, creds : BOOLEAN]

ASSUME RdbAssumption ==
    /\ Specs \subseteq Spec0 /\ Specs # {}
    /\ Namespaces \subseteq Namespace0
    /\ Readable \subseteq Values
    /\ MaxOps \in Nat /\ MaxFaults \in Nat /\ MaxStale \in Nat

VARIABLES
    live,      \* the CR on the API server
    feed,      \* the snapshot in the cache, then those not delivered yet
    current,   \* the snapshot being reconciled has the live resourceVersion
    asked,     \* history: the CR was being deleted under deletion_policy Delete
    ns,        \* role, project annotation and credentials of the namespace
    store,     \* the secrets of the ScalewaySecret in Secret Manager
    announce,  \* the ScalewaySecret as others see it
    dbs,       \* the databases created for the CR; a database's id is its index
    reported,  \* history: the drifts for which an Event was published
    logged,    \* history: those of which a publication failed
    pc, job,   \* the next call of the reconcile, and its local state
    due,       \* a reconcile of the CR is scheduled
    ops, faults, stale

kube == <<live, feed, current, asked>>
told == <<reported, logged>>
secret == <<store, announce>>
world == <<ns, secret, ops>>
vars == <<live, feed, current, asked, ns, store, announce, dbs, reported, logged,
          pc, job, due, ops, faults, stale>>

Source == INSTANCE SecretSync

DatabaseStates == {"provisioning", "ready"}
SyncStates == {"Pending", "Syncing", "Synced", "ConfigDrift", "Error", "Deleting"}
Messages ==
    {"none", "region", "reserved", "role", "readOnly", "project", "creds", "KubeError",
     "ScalewayError", "several", "secret", "notUtf8", "refused", "engine"}
Pairs(S) == {p \in SUBSET (S \X S) : Cardinality(p) <= 1}

\* engine, node and state are what the last GET returned; drift the gap on the
\* node type between spec and database, gap the same for the engine, which only
\* the error message carries.
Status ==
    [sid : Nat, state : DatabaseStates \cup {"none"}, engine : Engines \cup {"none"},
     node : Nodes \cup {"none"}, drift : Pairs(Nodes), gap : Pairs(Engines),
     sync : SyncStates, msg : Messages]
CR == [exists : BOOLEAN, spec : Specs, finalizer : BOOLEAN, deleting : BOOLEAN,
       status : Status]
Database == [alive : BOOLEAN, state : DatabaseStates, engine : Engines, node : Nodes]
Steps ==
    {"idle", "role", "project", "addFinalizer", "guard", "createCreds", "find", "secret",
     "access", "create", "writeCreated", "writeError", "syncCreds", "get", "event",
     "writeSynced", "writeGone", "deleteCreds", "delete", "writeRefused",
     "removeFinalizer"}
Job == [cr : CR, writes : BOOLEAN, adopted : BOOLEAN, sid : Nat, ver : Nat,
        status : Status, err : Errors \cup {"none"}, msg : Messages]

\* RdbStatus::default()
NewStatus ==
    [sid |-> None, state |-> "none", engine |-> "none", node |-> "none", drift |-> {},
     gap |-> {}, sync |-> "Pending", msg |-> "none"]
NewCR(sp) ==
    [exists |-> TRUE, spec |-> sp, finalizer |-> FALSE, deleting |-> FALSE,
     status |-> NewStatus]
JobFor(cr) ==
    [cr |-> cr, writes |-> FALSE, adopted |-> FALSE, sid |-> cr.status.sid, ver |-> None,
     status |-> cr.status, err |-> "none", msg |-> "none"]
NoJob == JobFor(NewCR(CHOOSE sp \in Specs : TRUE))

\* What the ScalewaySecret may announce next.  To the RDB reconciler, Revoked and
\* statuses that claim nothing look the same.
Announcements ==
    {a \in [life : {announce.life}, claim : {"nothing", "Synced"}, sid : DOMAIN store,
            ver : 0..(MaxOps + 1), value : Values] :
        a.claim = "nothing" => a.ver = None /\ a.value = announce.value}

Init ==
    /\ live \in {NewCR(sp) : sp \in Specs}
    /\ feed = <<live>> /\ current = TRUE /\ asked = FALSE
    /\ ns \in Namespaces
    /\ announce \in [life : {"present"}, claim : {"nothing"}, sid : {None},
                     ver : {None}, value : {CHOOSE v \in Values : TRUE}]
    /\ Source!Init
    /\ dbs = <<>> /\ reported = {} /\ logged = {}
    /\ pc = "idle" /\ job = NoJob /\ due = TRUE
    /\ ops = 0 /\ faults = 0 /\ stale = 0

-----------------------------------------------------------------------------
(* Control flow, the API server and Scaleway. *)

Fault == faults < MaxFaults /\ faults' = faults + 1
NoFault == UNCHANGED faults

Goto(step, j) == pc' = step /\ job' = j /\ UNCHANGED due
Return(again) == pc' = "idle" /\ job' = NoJob /\ due' = (due \/ again)
Fail(err) == Return(Requeues(err))

\* Write an Error status, then return err.
FailWithStatus(j, err, msg) == Goto("writeError", [j EXCEPT !.err = err, !.msg = msg])

AsksDestruction(cr) == cr.deleting /\ ~cr.spec.retain

\* A write that changes nothing produces neither a resourceVersion nor an event.
Store(new) ==
    /\ live' = new
    /\ feed' = IF new = live THEN feed ELSE Append(feed, new)
    /\ current' = (current /\ new = live)
    /\ asked' = (asked \/ AsksDestruction(new))

\* A merge patch, applied to whatever the API server holds; its answer may be lost.
Patch(new, ok) ==
    \/ ok /\ live.exists /\ NoFault /\ Store(new)
    \/ ~ok /\ live.exists /\ Fault /\ (Store(new) \/ UNCHANGED kube)
    \/ ~ok /\ ~live.exists /\ NoFault /\ UNCHANGED kube

PatchStatus(status, ok) == Patch([live EXCEPT !.status = status], ok)

CredsRead(err) ==
    \/ err = "none" /\ ns.creds /\ NoFault
    \/ err = "ConfigError" /\ ~ns.creds /\ NoFault
    \/ err = "KubeError" /\ Fault

DatabaseIsAlive(s) == s \in DOMAIN dbs /\ dbs[s].alive

\* A call that changes Scaleway fails before or after its effect.
ScalewayCall(new, ok) ==
    \/ ok /\ NoFault /\ dbs' = new
    \/ ~ok /\ Fault /\ dbs' \in {dbs, new}

-----------------------------------------------------------------------------
(* Decisions and statuses. *)

\* A deletion reaches Scaleway unless deletion_policy is Retain.
DeletesIgnoringPolicy(cr) == cr.status.sid # None
DeletesInstance(cr) == cr.status.sid # None /\ ~cr.spec.retain

FinalizerAssumed(cr) == FALSE
LacksFinalizer(cr) == ~cr.finalizer

\* decide_next_action_rdb; Start has looked at the circuit before the role and the
\* project are read.
DecideNextAction(j) ==
    IF j.cr.deleting
    THEN IF DeletesInstance(j.cr) THEN "DeleteInstance" ELSE "RemoveFinalizer"
    ELSE IF LacksFinalizer(j.cr) THEN "AddFinalizer"
    ELSE IF j.cr.status.sid # None THEN "SyncInstance"
    ELSE IF ~j.writes THEN "BlockReadOnlyRole"
    ELSE "CreateInstance"

Gap(wanted, actual) == IF wanted = actual THEN {} ELSE {<<wanted, actual>>}

SyncedStatus(st, spec, db) ==
    LET gap == Gap(spec.engine, db.engine) IN
    [sid |-> st.sid, state |-> db.state, engine |-> db.engine, node |-> db.node,
     drift |-> Gap(spec.node, db.node), gap |-> gap,
     sync |-> IF gap # {} THEN "ConfigDrift"
              ELSE IF db.state = "ready" THEN "Synced" ELSE "Syncing",
     msg |-> IF gap # {} THEN "engine" ELSE "none"]

CreatedStatus(j) ==
    [j.cr.status EXCEPT !.sid = j.sid, !.sync = "Syncing", !.msg = "none", !.gap = {},
                        !.state = IF j.adopted THEN @ ELSE "provisioning"]

\* Waiting for the ScalewaySecret is not an error of the database.
ErrorStatus(j) ==
    [j.cr.status EXCEPT !.msg = j.msg, !.gap = {},
                        !.sync = IF j.err = "ScalewaySecretNotReady"
                                 THEN "Pending" ELSE "Error"]

RefusedStatusMisspelt(j) ==
    [j.cr.status EXCEPT !.sync = "Deletion", !.msg = "refused", !.gap = {}]
RefusedStatus(j) ==
    [j.cr.status EXCEPT !.sync = "Deleting", !.msg = "refused", !.gap = {}]

\* A drift is reported when it appears or changes.
EmitsEveryTime(previous, now) == now # {}
EmitsWhenItEnds(previous, now) == previous # {} /\ now # previous
ShouldEmit(previous, now) == now # {} /\ now # previous

-----------------------------------------------------------------------------
(* The steps of a reconcile. *)

\* The first call of what was decided.
Act(j) ==
    LET decision == DecideNextAction(j) IN
    \/ decision = "AddFinalizer" /\ Goto("addFinalizer", j)
    \/ decision = "BlockReadOnlyRole" /\ FailWithStatus(j, "ConfigError", "readOnly")
    \/ decision = "CreateInstance" /\ Goto("guard", j)
    \/ decision = "SyncInstance" /\ Goto("syncCreds", j)
    \/ decision = "DeleteInstance" /\ Goto("deleteCreds", j)
    \/ decision = "RemoveFinalizer" /\ Goto("removeFinalizer", j)

\* The snapshot, the circuit breaker, which other resources may have opened, and
\* the validations that call nothing; the region's applies to deletions too.
Start ==
    /\ pc = "idle" /\ due /\ Head(feed).exists
    /\ current' = (Len(feed) = 1)
    /\ IF current' THEN UNCHANGED stale ELSE stale < MaxStale /\ stale' = stale + 1
    /\ LET cr == Head(feed)
           j == JobFor(cr)
           Go(step, job0) == pc' = step /\ job' = job0 /\ due' = FALSE
           Invalid(msg) ==
               Go("writeError", [j EXCEPT !.err = "ConfigError", !.msg = msg])
       IN  \/ ~cr.spec.regionOk /\ NoFault /\ Invalid("region")
           \/ /\ cr.spec.regionOk /\ cr.deleting /\ NoFault
              /\ Go(IF DecideNextAction(j) = "DeleteInstance"
                    THEN "deleteCreds" ELSE "removeFinalizer", j)
           \/ /\ cr.spec.regionOk /\ ~cr.deleting /\ cr.spec.reserved /\ NoFault
              /\ Invalid("reserved")
           \/ /\ cr.spec.regionOk /\ ~cr.deleting /\ ~cr.spec.reserved
              /\ \/ Fault /\ Requeues("CircuitBreakerOpen") /\ UNCHANGED <<pc, job, due>>
                 \/ NoFault /\ Go("role", j)
    /\ UNCHANGED <<live, feed, asked, world, dbs, told>>

ReadRole ==
    /\ pc = "role"
    /\ \/ Fault /\ FailWithStatus(job, "KubeError", "KubeError")
       \/ NoFault /\ ns.role = "absent" /\ FailWithStatus(job, "ConfigError", "role")
       \/ /\ NoFault /\ ns.role # "absent"
          /\ Goto("project", [job EXCEPT !.writes = ns.role = "Editor"])
    /\ UNCHANGED <<kube, world, dbs, told, stale>>

\* Any failure to read the namespace is reported as a ConfigError, as is a project
\* id that is no UUID.
ReadProject ==
    /\ pc = "project"
    /\ \/ Fault /\ FailWithStatus(job, "ConfigError", "project")
       \/ NoFault /\ ~ns.project /\ FailWithStatus(job, "ConfigError", "project")
       \/ NoFault /\ ns.project /\ Act(job)
    /\ UNCHANGED <<kube, world, dbs, told, stale>>

AddFinalizer ==
    /\ pc = "addFinalizer"
    /\ \E ok \in BOOLEAN : Patch([live EXCEPT !.finalizer = TRUE], ok)
    /\ Return(TRUE)
    /\ UNCHANGED <<world, dbs, told, stale>>

\* is_cached_cr_current: nothing is adopted or created from a stale snapshot.
CachedCrIsCurrent == current

Guard ==
    /\ pc = "guard"
    /\ \/ Fault /\ Fail("KubeError")
       \/ NoFault /\ ~live.exists /\ Fail("KubeError")
       \/ NoFault /\ live.exists /\ ~CachedCrIsCurrent /\ Return(TRUE)
       \/ NoFault /\ live.exists /\ CachedCrIsCurrent /\ Goto("createCreds", job)
    /\ UNCHANGED <<kube, world, dbs, told, stale>>

ReadCreds(from, to) ==
    /\ pc = from
    /\ \E err \in {"none", "ConfigError", "KubeError"} :
           /\ CredsRead(err)
           /\ IF err = "none"
              THEN Goto(to, job)
              ELSE FailWithStatus(job, err, IF err = "KubeError" THEN err ELSE "creds")
    /\ UNCHANGED <<kube, world, dbs, told, stale>>

CreateCreds == ReadCreds("createCreds", "find")
SyncCreds == ReadCreds("syncCreds", "get")

\* Adoption by tags: one match is adopted, several are an error.
NothingToAdopt == {}
DatabasesToAdopt == {d \in DOMAIN dbs : dbs[d].alive}

Find ==
    /\ pc = "find"
    /\ \/ Fault /\ FailWithStatus(job, "ScalewayError", "ScalewayError")
       \/ /\ NoFault /\ Cardinality(DatabasesToAdopt) > 1
          /\ FailWithStatus(job, "ConfigError", "several")
       \/ /\ NoFault /\ Cardinality(DatabasesToAdopt) = 1
          /\ \E d \in DatabasesToAdopt :
                 Goto("writeCreated", [job EXCEPT !.sid = d, !.adopted = TRUE])
       \/ NoFault /\ DatabasesToAdopt = {} /\ Goto("secret", job)
    /\ UNCHANGED <<kube, world, dbs, told, stale>>

\* The id of the secret and the version to read, from the status of the
\* ScalewaySecret; job.sid carries the former up to the creation.
SecretIsReady == announce.life # "gone" /\ announce.claim = "Synced"

ReadSecret ==
    /\ pc = "secret"
    /\ \/ Fault /\ FailWithStatus(job, "KubeError", "KubeError")
       \/ /\ NoFault /\ ~SecretIsReady
          /\ FailWithStatus(job, "ScalewaySecretNotReady", "secret")
       \/ /\ NoFault /\ SecretIsReady
          /\ Goto("access", [job EXCEPT !.sid = announce.sid, !.ver = announce.ver])
    /\ UNCHANGED <<kube, world, dbs, told, stale>>

\* A push or a revocation may have disabled the version in the meantime, a deletion
\* taken the secret away.
Access ==
    /\ pc = "access"
    /\ LET readable == HasVersion(store, job.sid, job.ver)
                       /\ job.ver \in EnabledVersions(store, job.sid)
       IN  \/ Fault /\ FailWithStatus(job, "ScalewayError", "ScalewayError")
           \/ /\ NoFault /\ ~readable
              /\ FailWithStatus(job, "ScalewayError", "ScalewayError")
           \/ /\ NoFault /\ readable
              /\ IF store[job.sid].versions[job.ver].payload \in Readable
                 THEN Goto("create", job)
                 ELSE FailWithStatus(job, "ConfigError", "notUtf8")
    /\ UNCHANGED <<kube, world, dbs, told, stale>>

NewDatabase(spec) ==
    [alive |-> TRUE, state |-> "provisioning", engine |-> spec.engine, node |-> spec.node]

Create ==
    /\ pc = "create"
    /\ \E ok \in BOOLEAN :
           /\ ScalewayCall(Append(dbs, NewDatabase(job.cr.spec)), ok)
           /\ IF ok
              THEN Goto("writeCreated", [job EXCEPT !.sid = Len(dbs) + 1])
              ELSE FailWithStatus(job, "ScalewayError", "ScalewayError")
    /\ UNCHANGED <<kube, world, told, stale>>

WriteCreated ==
    /\ pc = "writeCreated"
    /\ \E ok \in BOOLEAN :
           /\ PatchStatus(CreatedStatus(job), ok)
           /\ IF ok THEN Return(TRUE) ELSE Fail("KubeError")
    /\ UNCHANGED <<world, dbs, told, stale>>

\* The failure of this write is ignored.
WriteError ==
    /\ pc = "writeError"
    /\ \E ok \in BOOLEAN : PatchStatus(ErrorStatus(job), ok)
    /\ Fail(job.err)
    /\ UNCHANGED <<world, dbs, told, stale>>

\* What is read back is compared with the spec, and written if the status changes.
WriteIfChanged(j) ==
    IF j.status = j.cr.status THEN Return(TRUE) ELSE Goto("writeSynced", j)

Get ==
    /\ pc = "get"
    /\ \/ Fault /\ FailWithStatus(job, "ScalewayError", "ScalewayError")
       \/ NoFault /\ ~DatabaseIsAlive(job.sid) /\ Goto("writeGone", job)
       \/ /\ NoFault /\ DatabaseIsAlive(job.sid)
          /\ LET j == [job EXCEPT !.status =
                           SyncedStatus(job.cr.status, job.cr.spec, dbs[job.sid])]
             IN  IF ShouldEmit(job.cr.status.drift, j.status.drift)
                 THEN Goto("event", j) ELSE WriteIfChanged(j)
    /\ UNCHANGED <<kube, world, dbs, told, stale>>

\* A failed publication, whether or not the Event was created, is only logged: the
\* drift is written to the status all the same.
PublishDrift ==
    /\ pc = "event"
    /\ LET drift == {job.status.drift}
       IN  \/ NoFault /\ reported' = reported \cup drift /\ UNCHANGED logged
           \/ /\ Fault /\ reported' \in {reported, reported \cup drift}
              /\ logged' = logged \cup drift
    /\ WriteIfChanged(job)
    /\ UNCHANGED <<kube, world, dbs, stale>>

WriteSynced ==
    /\ pc = "writeSynced"
    /\ \E ok \in BOOLEAN :
           /\ PatchStatus(job.status, ok)
           /\ IF ok THEN Return(TRUE) ELSE Fail("KubeError")
    /\ UNCHANGED <<world, dbs, told, stale>>

\* The database is gone: forget it; a later reconcile creates another, empty.
GoneStatusKeepingId(j) == [NewStatus EXCEPT !.sid = j.sid]
GoneStatus(j) == NewStatus

WriteGone ==
    /\ pc = "writeGone"
    /\ \E ok \in BOOLEAN : PatchStatus(GoneStatus(job), ok)
    /\ Return(TRUE)
    /\ UNCHANGED <<world, dbs, told, stale>>

\* Deletion.  Without credentials the database is left behind in Scaleway; an API
\* server that fails is asked again.
DeleteCredsLenient ==
    /\ pc = "deleteCreds"
    /\ \E err \in {"none", "ConfigError", "KubeError"} :
           /\ CredsRead(err)
           /\ Goto(IF err = "none" THEN "delete" ELSE "removeFinalizer",
                   [job EXCEPT !.err = err])
    /\ UNCHANGED <<kube, world, dbs, told, stale>>
DeleteCreds ==
    /\ pc = "deleteCreds"
    /\ \E err \in {"none", "ConfigError", "KubeError"} :
           /\ CredsRead(err)
           /\ \/ err = "none" /\ Goto("delete", job)
              \/ err # "none" /\ ~IsPermanent(err) /\ Fail(err)
              \/ /\ err # "none" /\ IsPermanent(err)
                 /\ Goto("removeFinalizer", [job EXCEPT !.err = err])
    /\ UNCHANGED <<kube, world, dbs, told, stale>>

\* A database already gone (404) counts as deleted.  Scaleway may refuse (4xx), in
\* particular while it provisions.
DeleteForgettingRefused ==
    /\ pc = "delete"
    /\ \/ \E ok \in BOOLEAN :
              /\ ScalewayCall(IF DatabaseIsAlive(job.sid)
                              THEN [dbs EXCEPT ![job.sid].alive = FALSE] ELSE dbs, ok)
              /\ IF ok THEN Goto("removeFinalizer", job) ELSE Fail("ScalewayError")
       \/ /\ DatabaseIsAlive(job.sid) /\ UNCHANGED dbs
          /\ dbs[job.sid].state = "provisioning" /\ NoFault
          /\ Fail("ConfigError")
    /\ UNCHANGED <<kube, world, told, stale>>
Delete ==
    /\ pc = "delete"
    /\ \/ \E ok \in BOOLEAN :
              /\ ScalewayCall(IF DatabaseIsAlive(job.sid)
                              THEN [dbs EXCEPT ![job.sid].alive = FALSE] ELSE dbs, ok)
              /\ IF ok THEN Goto("removeFinalizer", job) ELSE Fail("ScalewayError")
       \/ /\ DatabaseIsAlive(job.sid) /\ UNCHANGED dbs
          /\ \/ dbs[job.sid].state = "provisioning" /\ NoFault
             \/ dbs[job.sid].state # "provisioning" /\ Fault
          /\ Goto("writeRefused", job)
    /\ UNCHANGED <<kube, world, told, stale>>

\* The finalizer stays and the deletion is tried again, without a growing delay.
WriteRefused ==
    /\ pc = "writeRefused"
    /\ \E ok \in BOOLEAN : PatchStatus(RefusedStatus(job), ok)
    /\ Return(TRUE)
    /\ UNCHANGED <<world, dbs, told, stale>>

RemoveFinalizer ==
    /\ pc = "removeFinalizer"
    /\ \E ok \in BOOLEAN :
           /\ Patch([live EXCEPT !.finalizer = FALSE, !.exists = ~live.deleting], ok)
           /\ Return(~ok)
    /\ UNCHANGED <<world, dbs, told, stale>>

-----------------------------------------------------------------------------
(* The controller, the users, the ScalewaySecret and Scaleway. *)

\* The controller watches the RDB resources only.
Deliver ==
    /\ Len(feed) > 1
    /\ feed' = Tail(feed)
    /\ due' = feed[2].exists
    /\ UNCHANGED <<live, current, asked, world, dbs, told, pc, job, faults, stale>>

Crash ==
    /\ pc # "idle" /\ Fault
    /\ pc' = "idle" /\ job' = NoJob
    /\ feed' = <<live>> /\ due' = live.exists
    /\ UNCHANGED <<live, current, asked, world, dbs, told, stale>>

WorldOp == ops < MaxOps /\ ops' = ops + 1

\* spec.region is immutable (a CEL rule of the CRD); the rest, deletion_policy among
\* it, can be edited while the deletion is under way, too.
EditSpec ==
    /\ WorldOp /\ live.exists
    /\ \E sp \in Specs :
           /\ sp # live.spec /\ sp.regionOk = live.spec.regionOk
           /\ Store([live EXCEPT !.spec = sp])
    /\ UNCHANGED <<ns, secret, dbs, told, pc, job, due, faults, stale>>

DeleteCR ==
    /\ WorldOp /\ live.exists /\ ~live.deleting
    /\ Store([live EXCEPT !.deleting = TRUE, !.exists = live.finalizer])
    /\ UNCHANGED <<ns, secret, dbs, told, pc, job, due, faults, stale>>

EditNamespace ==
    /\ WorldOp
    /\ ns' \in Namespaces \ {ns}
    /\ UNCHANGED <<kube, secret, dbs, told, pc, job, due, faults, stale>>

Untouched == <<kube, ns, told, pc, job, due, faults, stale>>

\* A database becomes ready by itself; users change or delete it in the console.
BecomeReady ==
    /\ \E d \in DOMAIN dbs :
           /\ DatabaseIsAlive(d) /\ dbs[d].state = "provisioning"
           /\ dbs' = [dbs EXCEPT ![d].state = "ready"]
    /\ UNCHANGED <<Untouched, secret, ops>>

ChangeInConsole ==
    /\ WorldOp
    /\ \E d \in DOMAIN dbs, e \in Engines, n \in Nodes :
           /\ DatabaseIsAlive(d)
           /\ <<e, n>> # <<dbs[d].engine, dbs[d].node>>
           /\ dbs' = [dbs EXCEPT ![d].engine = e, ![d].node = n]
    /\ UNCHANGED <<Untouched, secret>>

Disappear ==
    /\ WorldOp
    /\ \E d \in DOMAIN dbs :
           DatabaseIsAlive(d) /\ dbs' = [dbs EXCEPT ![d].alive = FALSE]
    /\ UNCHANGED <<Untouched, secret>>

\* A step of the ScalewaySecret: by itself until its first version is there, then
\* following what its users do to its source or to it.
Versions == IF store = <<>> THEN 0 ELSE Len(store[1].versions)

SecretFollows ==
    \/ store = <<>> /\ Source!CreateSecret
    \/ Versions = 0 /\ Source!Push
    \/ Source!Remove
    \/ announce' \in Announcements /\ Source!Announce

SecretIsChanged ==
    \/ Versions > 0 /\ Source!Push
    \/ Source!Withdraw /\ store' # store
    \/ announce' = [announce EXCEPT !.life = "gone"] /\ Source!Depart

SourceStep ==
    /\ \/ SecretFollows /\ UNCHANGED ops
       \/ SecretIsChanged /\ WorldOp
    /\ UNCHANGED <<Untouched, dbs>>

Reconcile ==
    \/ Start \/ ReadRole \/ ReadProject \/ AddFinalizer \/ Guard
    \/ CreateCreds \/ Find \/ ReadSecret \/ Access \/ Create \/ WriteCreated
    \/ WriteError \/ SyncCreds \/ Get \/ PublishDrift \/ WriteSynced \/ WriteGone
    \/ DeleteCreds \/ Delete \/ WriteRefused \/ RemoveFinalizer

Next ==
    \/ Reconcile \/ Deliver \/ Crash
    \/ EditSpec \/ DeleteCR \/ EditNamespace
    \/ BecomeReady \/ ChangeInConsole \/ Disappear \/ SourceStep

Spec == Init /\ [][Next]_vars

\* The process runs its reconciles, the API server delivers its events, and a
\* database becomes ready; neither users nor the ScalewaySecret owe anything.
FairSpec == Spec /\ WF_vars(Reconcile) /\ WF_vars(Deliver) /\ WF_vars(BecomeReady)

-----------------------------------------------------------------------------
(* Properties. *)

KubeOK == /\ live \in CR /\ feed \in Seq(CR) /\ feed # <<>>
          /\ current \in BOOLEAN /\ asked \in BOOLEAN
JobOK == pc \in Steps /\ job \in Job /\ due \in BOOLEAN
WorldOK ==
    /\ ns \in Namespaces /\ dbs \in Seq(Database)
    /\ reported \subseteq Pairs(Nodes) /\ logged \subseteq Pairs(Nodes)
    /\ ops \in 0..MaxOps /\ faults \in 0..MaxFaults /\ stale \in 0..MaxStale

\* Statuses, snapshots and databases stay within the values the code can hold: among
\* others, sync_state is one of its six strings.
TypeOK == KubeOK /\ JobOK /\ WorldOK

\* "le tour suivant retrouve l'instance par ses tags au lieu d'en créer une seconde"
\* (ARCHITECTURE.md): neither a lost answer, nor a lost status, nor a restart makes
\* the operator run two databases for one CR, as long as Scaleway lists what it has
\* created.
AtMostOneDatabase ==
    \A c, d \in DOMAIN dbs : DatabaseIsAlive(c) /\ DatabaseIsAlive(d) => c = d

\* A CR that has a database has the finalizer that protects it, from whatever
\* snapshot the reconcile that created it worked.
FinalizerBeforeDatabase ==
    live.exists /\ (\E d \in DOMAIN dbs : DatabaseIsAlive(d)) => live.finalizer

\* The finalizer of a CR that does not retain its database, as far as the reconcile
\* knows, only goes once the known database is gone, or when its namespace had no
\* credentials: a failure of the API server, or a refusal of Scaleway, puts it off
\* (DeleteInstance).
KeptUntilDeleted ==
    pc = "removeFinalizer" /\ job.sid # None /\ ~job.cr.spec.retain
        => ~DatabaseIsAlive(job.sid) \/ job.err = "ConfigError"

\* Destroyed by a call of the operator, not in the console.
Destroys(d) == DatabaseIsAlive(d) /\ ~dbs'[d].alive /\ ops' = ops

\* The operator destroys data only if its owner asked for it: at some moment of the
\* deletion the spec said Delete, and if nothing changed the CR since the snapshot was
\* taken it still does.  The policy is the snapshot's (DeleteInstance), so an edit to
\* Retain that comes while Scaleway refuses the deletion is honoured by the first pass
\* that sees it.  A pass on an older snapshot may still destroy after the edit: the cache
\* is not compared with the API server first.
RetainHonoured ==
    [][\A d \in DOMAIN dbs :
          Destroys(d) => asked /\ (current => ~live.spec.retain)]_vars

\* A drift that the status shows was published as an Event, or the call that should
\* have published it failed and was logged: a crash, a lost status write or an outdated
\* snapshot may repeat the Event, and nothing but its own failure loses it
\* (SyncInstance, publish_rdb_drift_event).
DriftReportedFirst ==
    live.status.drift # {} => live.status.drift \in reported \cup logged

\* A status that becomes Synced names the database that runs, never one that was
\* replaced after it disappeared.
SyncedNamesDatabase ==
    [][live'.status # live.status /\ live'.status.sync = "Synced"
           => \A d \in DOMAIN dbs : DatabaseIsAlive(d) => d = live'.status.sid]_vars

\* should_emit_drift_event: a drift that lasts is not reported again at every
\* requeue.
EventsStop == <>[](pc # "event")

\* A namespace that lets the operator work, and a ScalewaySecret in step.
Usable == ns.role = "Editor" /\ ns.project /\ ns.creds
SecretUsable ==
    /\ SecretIsReady /\ HasVersion(store, announce.sid, announce.ver)
    /\ announce.ver \in EnabledVersions(store, announce.sid)
    /\ store[announce.sid].versions[announce.ver].payload \in Readable

\* The status tells of the database, as it is and against the spec as it is.
Provisioned ==
    LET st == live.status IN
    /\ DatabaseIsAlive(st.sid) /\ dbs[st.sid].state = "ready"
    /\ st = SyncedStatus(st, live.spec, dbs[st.sid])

\* However late the ScalewaySecret gets in step, and whatever its pushes and its
\* revocations do between the read of its status and that of its version, the CR
\* ends up with a database and a status that shows its drift, whichever call failed.
\* Two failures at once are another matter.
Converges ==
    []Usable /\ <>[]SecretUsable =>
        <>[](live.exists /\ ~live.deleting /\ live.spec.regionOk /\ ~live.spec.reserved
                 => Provisioned)

\* A deletion, once asked for, completes: a refusal while Scaleway provisions is
\* tried again, and the policy may be edited meanwhile.
DeletionCompletes == (live.exists /\ live.deleting) ~> ~live.exists

-----------------------------------------------------------------------------
(* What comments and documents say and the code does not do. *)

\* error.rs, on ConfigError: "Corrigées en éditant le CR ou le namespace : un
\* événement relance la réconciliation".  A password that is not UTF-8 is corrected
\* in the source of the ScalewaySecret, which raises no event of the RDB.
CorrectedPasswordIsSeen == Converges

=============================================================================
