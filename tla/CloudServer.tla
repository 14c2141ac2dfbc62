---------------------------- MODULE CloudServer ----------------------------
(***************************************************************************)
(* The reconcilers of Instance and LoadBalancer (reconcilers.rs): each     *)
(* keeps one server in Scaleway for one custom resource (CR).  They share  *)
(* their control flow; `kind` says which of the two runs, and the few      *)
(* places where they differ name it.                                       *)
(*                                                                         *)
(* As in ScalewaySecret, a reconcile is split at each await and works on a *)
(* cached snapshot of the CR.  Unlike it, nothing checks that the snapshot *)
(* is current before a creation: adoption stands between a stale snapshot  *)
(* and a second server.  The gauges of metrics.rs live in the process.     *)
(***************************************************************************)
EXTENDS OperatorError, Integers, Sequences

CONSTANTS
    Namespaces,  \* configurations an admin may give the namespace
    MaxOps,      \* bound: operations of users, admins and Scaleway
    MaxFaults,   \* bound: failed or lost calls, crashes, circuit openings
    MaxStale     \* bound: reconciles that start from an outdated snapshot

Kinds == {"Instance", "LoadBalancer"}
Namespace0 ==
    [role : {"Editor", "Viewer", "absent"}, project : BOOLEAN, access : BOOLEAN,
     creds : BOOLEAN]

ASSUME ServerAssumption ==
    /\ Namespaces \subseteq Namespace0
    /\ MaxOps \in Nat /\ MaxFaults \in Nat /\ MaxStale \in Nat

VARIABLES
    kind,    \* which reconciler: never changes
    live,    \* the CR on the API server
    feed,    \* the snapshot in the cache, then those not delivered yet
    ns,      \* role, project annotation, access to the project, credentials
    cloud,   \* the servers created for the CR; a server's id is its index
    gauge,   \* instances_total or load_balancers_total, by state
    pc, job, \* the next call of the running reconcile, and its local state
    due,     \* a reconcile of the CR is scheduled
    ops, faults, stale

kube == <<live, feed>>
world == <<kind, ns, ops>>
vars == <<kind, live, feed, ns, cloud, gauge, pc, job, due, ops, faults, stale>>

None == 0
ServerStates == {"pending", "ready"}
\* "none" is the default of the status: "unknown" for an Instance, "" for a LB.
States == ServerStates \cup {"none"}
SyncStates ==
    {"Waiting", "Syncing", "Synced", "Error", "TerminationBlocked",
     "FinalizerRemovedWithoutScalewayDelete"}
Messages ==
    {"none", "role", "readOnly", "project", "creds", "locked", "KubeError",
     "ScalewayError"}
Status ==
    [sid : Nat, state : States, project : BOOLEAN, sync : SyncStates, msg : Messages]
CR == [exists : BOOLEAN, valid : BOOLEAN, finalizer : BOOLEAN, deleting : BOOLEAN,
       status : Status]
Server == [alive : BOOLEAN, state : ServerStates]
Job == [cr : CR, writes : BOOLEAN, sid : Nat, state : States, err : Errors \cup {"none"}, msg : Messages]
Steps ==
    {"idle", "role", "project", "creds", "verify", "find", "create", "writeCreated",
     "get", "writeSynced", "writeGone", "writeError", "writeFailure",
     "addFinalizer", "deleteCreds", "delete", "writeBlocked", "writeAudit",
     "removeFinalizer"}

\* The sync_state of a CR that waits for its server: "Syncing" for an Instance,
\* "Pending" for a LoadBalancer.
NewStatus ==
    [sid |-> None, state |-> "none", project |-> FALSE, sync |-> "Waiting",
     msg |-> "none"]
NewCR(valid) ==
    [exists |-> TRUE, valid |-> valid, finalizer |-> FALSE, deleting |-> FALSE,
     status |-> NewStatus]
JobFor(cr) ==
    [cr |-> cr, writes |-> FALSE, sid |-> cr.status.sid, state |-> cr.status.state,
     err |-> "none", msg |-> "none"]
NoJob == JobFor(NewCR(TRUE))

Init ==
    /\ kind \in Kinds
    /\ live \in {NewCR(valid) : valid \in BOOLEAN}
    /\ feed = <<live>>
    /\ ns \in Namespaces
    /\ cloud = <<>>
    /\ gauge = [s \in States |-> 0]
    /\ pc = "idle" /\ job = NoJob /\ due = TRUE
    /\ ops = 0 /\ faults = 0 /\ stale = 0

-----------------------------------------------------------------------------
(* Control flow, the API server and Scaleway. *)

Fault == faults < MaxFaults /\ faults' = faults + 1
NoFault == UNCHANGED faults

Goto(step, j) == pc' = step /\ job' = j /\ UNCHANGED due

Return(again) == pc' = "idle" /\ job' = NoJob /\ due' = (due \/ again)

Fail(err) == Return(Requeues(err))

\* Write an Error status, then return err.
FailWithStatus(j, err, msg) == Goto("writeError", [j EXCEPT !.err = err, !.msg = msg])

\* A write that changes nothing raises no event.
Store(new) ==
    /\ live' = new
    /\ feed' = IF new = live THEN feed ELSE Append(feed, new)

\* A merge patch, applied to whatever the API server holds; its answer may be lost.
Patch(new, ok) ==
    \/ ok /\ live.exists /\ NoFault /\ Store(new)
    \/ ~ok /\ live.exists /\ Fault /\ (Store(new) \/ UNCHANGED kube)
    \/ ~ok /\ ~live.exists /\ NoFault /\ UNCHANGED kube

PatchStatus(status, ok) == Patch([live EXCEPT !.status = status], ok)

CredsRead(err) ==
    \/ err = "none" /\ ns.creds /\ NoFault
    \/ err = "ConfigError" /\ ~ns.creds /\ NoFault
    \/ err = "KubeError" /\ Fault

IsAlive(s) == s \in DOMAIN cloud /\ cloud[s].alive

\* A call that changes Scaleway fails before or after its effect.
ScalewayCall(new, ok) ==
    \/ ok /\ NoFault /\ cloud' = new
    \/ ~ok /\ Fault /\ cloud' \in {cloud, new}

\* inc_instances, dec_instances and their twins for load balancers.
Inc(g, s) == [g EXCEPT ![s] = @ + 1]
Dec(g, s) == [g EXCEPT ![s] = @ - 1]

-----------------------------------------------------------------------------
(* The statuses, built from the snapshot's. *)

ErrorStatus(j) == [j.cr.status EXCEPT !.sync = "Error", !.msg = j.msg]
CreatedStatus(j) ==
    [sid |-> j.sid, state |-> "pending", project |-> TRUE, sync |-> "Syncing",
     msg |-> "none"]
SyncedStatus(j) ==
    [j.cr.status EXCEPT !.state = j.state, !.project = TRUE, !.sync = "Synced",
                        !.msg = "none"]
GoneStatus == NewStatus
BlockedStatusMisspelt(j) ==
    [j.cr.status EXCEPT !.sync = "TerminationLocked", !.msg = "locked"]
BlockedStatus(j) ==
    [j.cr.status EXCEPT !.sync = "TerminationBlocked", !.msg = "locked"]
AuditStatus(j) ==
    [j.cr.status EXCEPT !.sync = "FinalizerRemovedWithoutScalewayDelete",
                        !.msg = "creds"]

-----------------------------------------------------------------------------
(* The steps of a reconcile. *)

\* The snapshot and the circuit breaker, which other resources may have opened.
\* A deletion goes on whatever the circuit is; it needs no role and no project.
Start ==
    /\ pc = "idle" /\ due /\ Head(feed).exists
    /\ IF Len(feed) > 1
       THEN stale < MaxStale /\ stale' = stale + 1
       ELSE UNCHANGED stale
    /\ LET cr == Head(feed) IN
       \/ /\ cr.deleting /\ NoFault
          /\ pc' = IF cr.status.sid # None THEN "deleteCreds" ELSE "removeFinalizer"
          /\ job' = JobFor(cr) /\ due' = FALSE
       \/ /\ ~cr.deleting /\ NoFault
          /\ pc' = "role" /\ job' = JobFor(cr) /\ due' = FALSE
       \/ /\ ~cr.deleting /\ Fault
          /\ Requeues("CircuitBreakerOpen") /\ UNCHANGED <<pc, job, due>>
    /\ UNCHANGED <<kube, world, cloud, gauge>>

ReadRole ==
    /\ pc = "role"
    /\ \/ Fault /\ FailWithStatus(job, "KubeError", "KubeError")
       \/ NoFault /\ ns.role = "absent" /\ FailWithStatus(job, "ConfigError", "role")
       \/ /\ NoFault /\ ns.role # "absent"
          /\ Goto("project", [job EXCEPT !.writes = ns.role = "Editor"])
    /\ UNCHANGED <<kube, world, cloud, gauge, stale>>

\* decide_next_action once the snapshot is known not to be deleted.  An Instance
\* reads the namespace's credentials for all it does; a LoadBalancer only uses
\* the operator's own until its deletion.
DecideWithoutFinalizer(j) ==
    IF j.cr.status.sid # None THEN "Sync"
    ELSE IF ~j.writes THEN "BlockReadOnlyRole"
    ELSE IF ~j.cr.status.project THEN "VerifyProjectAccess"
    ELSE "Create"
DecideNextAction(j) ==
    IF ~j.cr.finalizer THEN "AddFinalizer"
    ELSE IF j.cr.status.sid # None THEN "Sync"
    ELSE IF ~j.writes THEN "BlockReadOnlyRole"
    ELSE IF ~j.cr.status.project THEN "VerifyProjectAccess"
    ELSE "Create"

\* The first call of what was decided, once the credentials are there.
FirstCall(cr) ==
    IF cr.status.sid # None THEN "get" ELSE IF cr.status.project THEN "find" ELSE "verify"

\* Any failure to read the namespace is reported as a ConfigError.  A LoadBalancer
\* that is known is not validated again.
ReadProject ==
    /\ pc = "project"
    /\ LET cr == job.cr
           decision == DecideNextAction(job)
       IN  \/ Fault /\ FailWithStatus(job, "ConfigError", "project")
           \/ NoFault /\ ~ns.project /\ FailWithStatus(job, "ConfigError", "project")
           \/ /\ NoFault /\ ns.project
              /\ \/ decision = "AddFinalizer" /\ Goto("addFinalizer", job)
                 \/ /\ decision = "BlockReadOnlyRole"
                    /\ FailWithStatus(job, "ConfigError", "readOnly")
                 \/ /\ decision \in {"Sync", "VerifyProjectAccess", "Create"}
                    /\ ~cr.valid /\ ~(kind = "LoadBalancer" /\ decision = "Sync")
                    /\ Fail("InvalidZone")
                 \/ /\ decision \in {"Sync", "VerifyProjectAccess", "Create"}
                    /\ cr.valid \/ (kind = "LoadBalancer" /\ decision = "Sync")
                    /\ Goto(IF kind = "Instance" THEN "creds" ELSE FirstCall(cr), job)
    /\ UNCHANGED <<kube, world, cloud, gauge, stale>>

AddFinalizer ==
    /\ pc = "addFinalizer"
    /\ \E ok \in BOOLEAN : Patch([live EXCEPT !.finalizer = TRUE], ok)
    /\ Return(TRUE)
    /\ UNCHANGED <<world, cloud, gauge, stale>>

ReadCreds ==
    /\ pc = "creds"
    /\ \E err \in {"none", "ConfigError", "KubeError"} :
           /\ CredsRead(err)
           /\ IF err = "none"
              THEN Goto(FirstCall(job.cr), job)
              ELSE FailWithStatus(job, err, IF err = "KubeError" THEN err ELSE "creds")
    /\ UNCHANGED <<kube, world, cloud, gauge, stale>>

\* A refusal is a permanent error; no status says so.
VerifyProjectAccess ==
    /\ pc = "verify"
    /\ \/ Fault /\ Fail("ScalewayError")
       \/ NoFault /\ ~ns.access /\ Fail("ProjectAccessDenied")
       \/ NoFault /\ ns.access /\ Goto("find", job)
    /\ UNCHANGED <<kube, world, cloud, gauge, stale>>

\* Adoption: an Instance is found by its name, a LoadBalancer by its tags.
NothingToAdopt == {}
ServersToAdopt == {s \in DOMAIN cloud : cloud[s].alive}

Find ==
    /\ pc = "find"
    /\ \/ Fault /\ Fail("ScalewayError") /\ UNCHANGED gauge
       \/ NoFault /\ ServersToAdopt = {} /\ Goto("create", job) /\ UNCHANGED gauge
       \/ /\ NoFault
          /\ \E s \in ServersToAdopt : Goto("writeCreated", [job EXCEPT !.sid = s])
          /\ gauge' = Inc(gauge, "pending")
    /\ UNCHANGED <<kube, world, cloud, stale>>

Create ==
    /\ pc = "create"
    /\ \E ok \in BOOLEAN :
           /\ ScalewayCall(Append(cloud, [alive |-> TRUE, state |-> "pending"]), ok)
           /\ IF ok
              THEN /\ Goto("writeCreated", [job EXCEPT !.sid = Len(cloud) + 1])
                   /\ gauge' = Inc(gauge, "pending")
              ELSE /\ Goto("writeFailure", [job EXCEPT !.err = "ScalewayError",
                                                       !.msg = "ScalewayError"])
                   /\ UNCHANGED gauge
    /\ UNCHANGED <<kube, world, stale>>

WriteCreated ==
    /\ pc = "writeCreated"
    /\ \E ok \in BOOLEAN :
           /\ PatchStatus(CreatedStatus(job), ok)
           /\ IF ok THEN Return(TRUE) ELSE Fail("KubeError")
    /\ UNCHANGED <<world, cloud, gauge, stale>>

\* Read the known server back, and move the gauge from the snapshot's state to
\* the one read.
GetKeepingDeadId ==
    /\ pc = "get"
    /\ \/ /\ Fault
          /\ Goto("writeFailure", [job EXCEPT !.err = "ScalewayError",
                                              !.msg = "ScalewayError"])
          /\ UNCHANGED gauge
       \/ /\ NoFault /\ job.sid \in DOMAIN cloud
          /\ Goto("writeSynced", [job EXCEPT !.state = cloud[job.sid].state])
          /\ gauge' = Inc(Dec(gauge, job.cr.status.state), cloud[job.sid].state)
    /\ UNCHANGED <<kube, world, cloud, stale>>
Get ==
    /\ pc = "get"
    /\ \/ /\ Fault
          /\ Goto("writeFailure", [job EXCEPT !.err = "ScalewayError",
                                              !.msg = "ScalewayError"])
          /\ UNCHANGED gauge
       \/ /\ NoFault /\ IsAlive(job.sid)
          /\ Goto("writeSynced", [job EXCEPT !.state = cloud[job.sid].state])
          /\ gauge' = Inc(Dec(gauge, job.cr.status.state), cloud[job.sid].state)
       \/ /\ NoFault /\ ~IsAlive(job.sid)
          /\ Goto("writeGone", job)
          /\ gauge' = Dec(gauge, job.cr.status.state)
    /\ UNCHANGED <<kube, world, cloud, stale>>

WriteSynced ==
    /\ pc = "writeSynced"
    /\ \E ok \in BOOLEAN :
           /\ PatchStatus(SyncedStatus(job), ok)
           /\ IF ok THEN Return(TRUE) ELSE Fail("KubeError")
    /\ UNCHANGED <<world, cloud, gauge, stale>>

\* The server is gone: forget it; a later reconcile adopts or creates another.
WriteGone ==
    /\ pc = "writeGone"
    /\ \E ok \in BOOLEAN : PatchStatus(GoneStatus, ok)
    /\ Return(TRUE)
    /\ UNCHANGED <<world, cloud, gauge, stale>>

\* The failure of this write is ignored ...
WriteError ==
    /\ pc = "writeError"
    /\ \E ok \in BOOLEAN : PatchStatus(ErrorStatus(job), ok)
    /\ Fail(job.err)
    /\ UNCHANGED <<world, cloud, gauge, stale>>

\* ... that of this one returned instead of the error.
WriteFailure ==
    /\ pc = "writeFailure"
    /\ \E ok \in BOOLEAN :
           /\ PatchStatus(ErrorStatus(job), ok)
           /\ Fail(IF ok THEN job.err ELSE "KubeError")
    /\ UNCHANGED <<world, cloud, gauge, stale>>

\* Deletion.  Without credentials, for whatever reason, the server is left behind;
\* a LoadBalancer says so in its status.
DeleteCreds ==
    /\ pc = "deleteCreds"
    /\ \E err \in {"none", "ConfigError", "KubeError"} :
           /\ CredsRead(err)
           /\ Goto(IF err = "none" THEN "delete"
                   ELSE IF kind = "LoadBalancer" THEN "writeAudit"
                   ELSE "removeFinalizer", job)
    /\ UNCHANGED <<kube, world, cloud, gauge, stale>>

\* A server already gone (404) counts as deleted; a LoadBalancer may be locked.
DeleteFailingOn404 ==
    /\ pc = "delete"
    /\ \/ \E ok \in BOOLEAN :
              /\ IsAlive(job.sid)
              /\ ScalewayCall([cloud EXCEPT ![job.sid].alive = FALSE], ok)
              /\ IF ok THEN Goto("removeFinalizer", job) ELSE Fail("ScalewayError")
       \/ ~IsAlive(job.sid) /\ NoFault /\ Fail("ScalewayError") /\ UNCHANGED cloud
    /\ UNCHANGED <<kube, world, gauge, stale>>
Delete ==
    /\ pc = "delete"
    /\ \/ \E ok \in BOOLEAN :
              /\ ScalewayCall(IF IsAlive(job.sid)
                              THEN [cloud EXCEPT ![job.sid].alive = FALSE]
                              ELSE cloud, ok)
              /\ IF ok THEN Goto("removeFinalizer", job) ELSE Fail("ScalewayError")
       \/ /\ kind = "LoadBalancer" /\ IsAlive(job.sid) /\ Fault
          /\ Goto("writeBlocked", job) /\ UNCHANGED cloud
    /\ UNCHANGED <<kube, world, gauge, stale>>

WriteBlocked ==
    /\ pc = "writeBlocked"
    /\ \E ok \in BOOLEAN : PatchStatus(BlockedStatus(job), ok)
    /\ Fail("ScalewayError")
    /\ UNCHANGED <<world, cloud, gauge, stale>>

WriteAudit ==
    /\ pc = "writeAudit"
    /\ \E ok \in BOOLEAN : PatchStatus(AuditStatus(job), ok)
    /\ Goto("removeFinalizer", job)
    /\ UNCHANGED <<world, cloud, gauge, stale>>

RemoveFinalizer ==
    /\ pc = "removeFinalizer"
    /\ \E ok \in BOOLEAN :
           /\ Patch([live EXCEPT !.finalizer = FALSE, !.exists = ~live.deleting], ok)
           /\ Return(~ok)
           /\ gauge' = IF ok THEN Dec(gauge, job.cr.status.state) ELSE gauge
    /\ UNCHANGED <<world, cloud, stale>>

-----------------------------------------------------------------------------
(* The controller, the users, and Scaleway. *)

Deliver ==
    /\ Len(feed) > 1
    /\ feed' = Tail(feed)
    /\ due' = feed[2].exists
    /\ UNCHANGED <<live, world, cloud, gauge, pc, job, faults, stale>>

\* The new process lists the CR; its gauges start from nothing.
Crash ==
    /\ Fault
    /\ pc' = "idle" /\ job' = NoJob
    /\ feed' = <<live>>
    /\ due' = live.exists
    /\ gauge' = [s \in States |-> 0]
    /\ UNCHANGED <<live, world, cloud, stale>>

WorldOp == ops < MaxOps /\ ops' = ops + 1

DeleteCR ==
    /\ WorldOp /\ live.exists /\ ~live.deleting
    /\ Store([live EXCEPT !.deleting = TRUE, !.exists = live.finalizer])
    /\ UNCHANGED <<kind, ns, cloud, gauge, pc, job, due, faults, stale>>

EditNamespace ==
    /\ WorldOp
    /\ ns' \in Namespaces \ {ns}
    /\ UNCHANGED <<kind, kube, cloud, gauge, pc, job, due, faults, stale>>

\* A server becomes ready by itself, and may be deleted in the console.
BecomeReady ==
    /\ \E s \in DOMAIN cloud :
           /\ cloud[s] = [alive |-> TRUE, state |-> "pending"]
           /\ cloud' = [cloud EXCEPT ![s].state = "ready"]
    /\ UNCHANGED <<kind, kube, ns, gauge, pc, job, due, ops, faults, stale>>

Disappear ==
    /\ WorldOp
    /\ \E s \in DOMAIN cloud :
           cloud[s].alive /\ cloud' = [cloud EXCEPT ![s].alive = FALSE]
    /\ UNCHANGED <<kind, kube, ns, gauge, pc, job, due, faults, stale>>

Reconcile ==
    \/ Start \/ ReadRole \/ ReadProject \/ AddFinalizer \/ ReadCreds
    \/ VerifyProjectAccess \/ Find \/ Create \/ WriteCreated
    \/ Get \/ WriteSynced \/ WriteGone \/ WriteError \/ WriteFailure
    \/ DeleteCreds \/ Delete \/ WriteBlocked \/ WriteAudit \/ RemoveFinalizer

Next ==
    \/ Reconcile \/ Deliver \/ Crash
    \/ DeleteCR \/ EditNamespace \/ BecomeReady \/ Disappear

Spec == Init /\ [][Next]_vars

\* The process runs its reconciles, the API server delivers its events, and a
\* server becomes ready.
FairSpec == Spec /\ WF_vars(Reconcile) /\ WF_vars(Deliver) /\ WF_vars(BecomeReady)

-----------------------------------------------------------------------------
(* Properties. *)

KubeOK == live \in CR /\ feed \in Seq(CR) /\ feed # <<>>
JobOK == pc \in Steps /\ job \in Job /\ due \in BOOLEAN
CloudOK == cloud \in Seq(Server) /\ gauge \in [States -> Int]
TypeOK ==
    /\ KubeOK /\ JobOK /\ CloudOK
    /\ kind \in Kinds /\ ns \in Namespaces
    /\ ops \in 0..MaxOps /\ faults \in 0..MaxFaults /\ stale \in 0..MaxStale

\* Neither a stale snapshot, nor a lost answer, nor a restart makes the operator
\* run two servers for one CR, as long as Scaleway lists what it has created
\* (execute_create_instance and its twin adopt what they find before they create).
AtMostOneServer == \A s, t \in DOMAIN cloud : IsAlive(s) /\ IsAlive(t) => s = t

\* A CR that has a server has the finalizer that protects it.
FinalizerBeforeServer ==
    live.exists /\ (\E s \in DOMAIN cloud : IsAlive(s)) => live.finalizer

\* A status that becomes Synced names the server that runs, never one that was
\* replaced after it disappeared, however old the snapshot it is built from.
SyncedNamesServer ==
    [][live'.status # live.status /\ live'.status.sync = "Synced"
           => \A s \in DOMAIN cloud : IsAlive(s) => s = live'.status.sid]_vars

\* A namespace that lets the operator work.
Usable == ns.role = "Editor" /\ ns.project /\ ns.access /\ ns.creds

\* In such a namespace, once users leave it alone, a CR has a server, ready, and a
\* status that says so, whichever call failed, and after the loss of the server.  Two
\* failures at once are another matter.
Provisioned ==
    /\ live.status.sync = "Synced" /\ live.status.state = "ready"
    /\ IsAlive(live.status.sid)
Converges ==
    []Usable => <>[](live.exists /\ ~live.deleting /\ live.valid => Provisioned)

\* A deletion, once asked for, completes: no failed call blocks it for ever.
DeletionCompletes == (live.exists /\ live.deleting) ~> ~live.exists

-----------------------------------------------------------------------------
(* What comments say and the code does not do. *)

\* metrics.rs: a gauge that a restart made negative "self-corrects on the next
\* reconcile cycle".  Every later cycle takes off and adds the same.
GaugeSelfCorrects == <>[](\A s \in States : gauge[s] >= 0)

\* ARCHITECTURE.md: the finalizer goes without a deletion in Scaleway if the
\* credentials are absent, "comme pour Instance et LoadBalancer".  These two do it
\* on any error, one of the API server included.
KeptUntilDeleted ==
    pc = "removeFinalizer" /\ job.sid # None /\ ns.creds => ~IsAlive(job.sid)

=============================================================================
