-------------------------- MODULE ScalewaySecret --------------------------
(***************************************************************************)
(* The reconciler of one ScalewaySecret custom resource (CR): it copies a  *)
(* key of a Kubernetes Secret to Scaleway Secret Manager.                  *)
(*                                                                         *)
(* A reconcile is split at each await of reconcile_scaleway_secret_inner:  *)
(* pc names the call it is about to make.  It works on the snapshot of the *)
(* CR that the controller's watch has delivered, which lags behind the API *)
(* server; its status writes replace the whole status.                     *)
(*                                                                         *)
(* One pod is the normal deployment.  Two are what a rolling update makes: *)
(* the chart sets no strategy and the operator elects no leader.           *)
(***************************************************************************)
EXTENDS OperatorError, SecretManager, FiniteSets

CONSTANTS
    Pods,        \* operator processes
    Specs,       \* specs the user may give the CR
    Sources,     \* contents the source Secret may take
    Namespaces,  \* configurations an admin may give the namespace
    Keys,        \* keys of the source Secret
    NoKey,       \* the spec has no kubernetes_secret source
    MaxOps,      \* bound: operations of users and admins
    MaxFaults    \* bound: failed or lost API calls, crashes, circuit openings

Spec0 == [regionOk : BOOLEAN, reserved : BOOLEAN, key : Keys \cup {NoKey}]
Source0 == [exists : BOOLEAN, optIn : BOOLEAN, keys : SUBSET Keys]
WriteRoles == {"Editor", "Admin", "OrganizationOwner"}
Roles == WriteRoles \cup {"Viewer", "absent"}
NoProject == "absent"
Namespace0 ==
    [role : Roles, project : Projects \cup {NoProject}, creds : BOOLEAN, rbac : BOOLEAN]

ASSUME SecretAssumption ==
    /\ Specs \subseteq Spec0 /\ Specs # {}
    /\ Sources \subseteq Source0
    /\ Namespaces \subseteq Namespace0
    /\ NoKey \notin Keys
    /\ NoProject \notin Projects
    /\ MaxOps \in Nat /\ MaxFaults \in Nat

VARIABLES
    live,     \* the CR on the API server
    feed,     \* per pod: the snapshot in its cache, then those not delivered yet
    current,  \* per pod: the snapshot it reconciles has the live resourceVersion
    source,   \* the source Secret, with its resourceVersion
    ns,       \* role, project annotation, credentials, RBAC of the namespace
    scw,      \* the CR's secrets in Scaleway Secret Manager
    pc, job,  \* per pod: the next call of its reconcile, and its local state
    due,      \* per pod: a reconcile of the CR is scheduled
    ops, faults

kube == <<live, feed, current>>
users == <<source, ns, ops>>
vars == <<live, feed, current, source, ns, scw, pc, job, due, ops, faults>>

States == {"Syncing", "Synced", "Error", "Revoked"}
Messages ==
    {"none", "source", "revoked", "region", "reserved", "role", "readOnly",
     "noSource", "project", "creds", "KubeError", "ScalewayError"}
Status ==
    [sid : Nat, ver : Nat, rv : Nat, ogen : Nat, state : States, msg : Messages]
CR == [exists : BOOLEAN, gen : Nat, spec : Specs, finalizer : BOOLEAN,
       deleting : BOOLEAN, status : Status]
Steps ==
    {"idle", "checks", "role", "source", "revokeCreds", "disable", "writeRevoked",
     "writeError", "addFinalizer", "guard", "project", "creds", "find", "create",
     "writePreliminary", "version", "writeSynced", "writeAlreadySynced",
     "deleteCreds", "delete", "removeFinalizer"}
Job == [cr : CR, circuit : BOOLEAN, rv : Nat, granted : BOOLEAN,
        project : Projects \cup {NoProject}, sid : Nat, ver : Nat,
        err : Errors \cup {"none"}, msg : Messages]

\* ScalewaySecretStatus::default()
NewStatus ==
    [sid |-> None, ver |-> None, rv |-> None, ogen |-> None,
     state |-> "Syncing", msg |-> "none"]

NewCR(sp) ==
    [exists |-> TRUE, gen |-> 1, spec |-> sp, finalizer |-> FALSE,
     deleting |-> FALSE, status |-> NewStatus]

JobFor(cr, open) ==
    [cr |-> cr, circuit |-> open, rv |-> None, granted |-> FALSE,
     project |-> NoProject, sid |-> cr.status.sid, ver |-> None,
     err |-> "none", msg |-> "none"]

NoJob == JobFor(NewCR(CHOOSE sp \in Specs : TRUE), FALSE)

\* The CR has just been created; the controller has listed it.
Init ==
    /\ \E sp \in Specs : live = NewCR(sp)
    /\ feed = [p \in Pods |-> <<live>>]
    /\ current = [p \in Pods |-> TRUE]
    /\ \E s \in Sources :
           source = [exists |-> s.exists, optIn |-> s.optIn, keys |-> s.keys, rv |-> 1]
    /\ ns \in Namespaces
    /\ scw = <<>>
    /\ pc = [p \in Pods |-> "idle"]
    /\ job = [p \in Pods |-> NoJob]
    /\ due = [p \in Pods |-> TRUE]
    /\ ops = 0
    /\ faults = 0

-----------------------------------------------------------------------------
(* Control flow of a reconcile. *)

Fault == faults < MaxFaults /\ faults' = faults + 1
NoFault == UNCHANGED faults

Goto(p, step, j) ==
    /\ pc' = [pc EXCEPT ![p] = step]
    /\ job' = [job EXCEPT ![p] = j]
    /\ UNCHANGED due

\* The reconcile returns; `again` says whether its Action, or error_policy,
\* schedules another one without waiting for a watch event.
Return(p, again) ==
    /\ pc' = [pc EXCEPT ![p] = "idle"]
    /\ job' = [job EXCEPT ![p] = NoJob]
    /\ due' = [due EXCEPT ![p] = @ \/ again]

Fail(p, err) == Return(p, Requeues(err))

\* Write an Error status, then return err.
FailWithStatus(p, j, err, msg) ==
    Goto(p, "writeError", [j EXCEPT !.err = err, !.msg = msg])

-----------------------------------------------------------------------------
(* The API server. *)

\* A write that changes nothing produces neither a resourceVersion nor an event.
Store(new) ==
    /\ live' = new
    /\ feed' = IF new = live THEN feed ELSE [p \in Pods |-> Append(feed[p], new)]
    /\ current' = [p \in Pods |-> current[p] /\ new = live]

\* A merge patch carries no resourceVersion: it is applied to whatever the API
\* server holds.  The answer may be lost.
Patch(new, ok) ==
    \/ ok /\ live.exists /\ NoFault /\ Store(new)
    \/ ~ok /\ live.exists /\ Fault /\ (Store(new) \/ UNCHANGED kube)
    \/ ~ok /\ ~live.exists /\ NoFault /\ UNCHANGED kube

PatchStatus(status, ok) == Patch([live EXCEPT !.status = status], ok)

\* get_namespace_client: a missing Secret is a permanent error, any other
\* failure a transient one.
CredsRead(err) ==
    \/ err = "none" /\ ns.creds /\ NoFault
    \/ err = "ConfigError" /\ ~ns.creds /\ NoFault
    \/ err = "KubeError" /\ Fault

\* A call that changes Scaleway: refused, or failed before or after its effect.
ScalewayCall(possible, new, ok) ==
    \/ ok /\ possible /\ NoFault /\ scw' = new
    \/ ~ok /\ possible /\ Fault /\ scw' \in {scw, new}
    \/ ~ok /\ ~possible /\ NoFault /\ UNCHANGED scw

-----------------------------------------------------------------------------
(* The decision layer. *)

\* The statuses built from the snapshot's.
ErrorStatus(j) ==
    [j.cr.status EXCEPT !.sid = j.sid, !.state = "Error", !.msg = j.msg]
RevokedStatusMisspelt(j) ==
    [j.cr.status EXCEPT !.state = "revoked", !.msg = "revoked", !.rv = None]
RevokedStatus(j) ==
    [j.cr.status EXCEPT !.state = "Revoked", !.msg = "revoked", !.rv = None]
PreliminaryStatus(j) ==
    [j.cr.status EXCEPT !.sid = j.sid, !.state = "Syncing", !.msg = "none",
                        !.ver = None, !.rv = None]
SyncedStatus(j) ==
    [sid |-> j.sid, ver |-> j.ver, rv |-> j.rv, ogen |-> j.cr.gen,
     state |-> "Synced", msg |-> "none"]
AlreadySyncedStatus(j) ==
    [j.cr.status EXCEPT !.state = "Synced", !.msg = "none",
                        !.ogen = IF @ = None THEN j.cr.gen ELSE @]

\* The source changed, or the spec did, since the last synchronisation.
NeedsPushIgnoringSpec(j) == j.rv # j.cr.status.rv
NeedsPush(j) ==
    \/ j.rv # j.cr.status.rv
    \/ j.cr.status.ogen # None /\ j.cr.status.ogen # j.cr.gen

\* j.rv is None when the source was not read or does not exist.
DecideWithoutFinalizer(j, keyPresent) ==
    IF j.cr.deleting
    THEN IF j.cr.status.sid # None THEN "DeleteSecret" ELSE "RemoveFinalizer"
    ELSE IF j.circuit THEN "SkipCircuitOpen"
    ELSE IF j.cr.spec.key = NoKey THEN "ErrorSourceNotConfigured"
    ELSE IF j.rv = None THEN "ErrorKsSecretNotFound"
    ELSE IF ~keyPresent THEN "ErrorKsKeyNotFound"
    ELSE IF j.cr.status.sid = None THEN "CreateAndSyncSecret"
    ELSE IF NeedsPush(j) THEN "PushNewVersion"
    ELSE "AlreadySynced"
DecideNextAction(j, keyPresent) ==
    IF j.cr.deleting
    THEN IF j.cr.status.sid # None THEN "DeleteSecret" ELSE "RemoveFinalizer"
    ELSE IF j.circuit THEN "SkipCircuitOpen"
    ELSE IF ~j.cr.finalizer THEN "AddFinalizer"
    ELSE IF j.cr.spec.key = NoKey THEN "ErrorSourceNotConfigured"
    ELSE IF j.rv = None THEN "ErrorKsSecretNotFound"
    ELSE IF ~keyPresent THEN "ErrorKsKeyNotFound"
    ELSE IF j.cr.status.sid = None THEN "CreateAndSyncSecret"
    ELSE IF NeedsPush(j) THEN "PushNewVersion"
    ELSE "AlreadySynced"

\* Each decision up to its first call.
Act(p, j, keyPresent) ==
    LET decision == DecideNextAction(j, keyPresent) IN
    \/ decision = "SkipCircuitOpen" /\ Fail(p, "CircuitBreakerOpen")
    \/ decision = "AddFinalizer" /\ Goto(p, "addFinalizer", j)
    \/ /\ decision = "ErrorSourceNotConfigured"
       /\ FailWithStatus(p, j, "SecretSourceNotConfigured", "noSource")
    \/ /\ decision = "ErrorKsSecretNotFound"
       /\ FailWithStatus(p, j, "SecretNotFound", "source")
    \/ /\ decision = "ErrorKsKeyNotFound"
       /\ FailWithStatus(p, j, "SecretKeyNotFound", "source")
    \/ /\ decision \in {"CreateAndSyncSecret", "PushNewVersion"}
       /\ Goto(p, "guard", j)
    \/ /\ decision = "AlreadySynced"
       /\ IF AlreadySyncedStatus(j) = j.cr.status
          THEN Return(p, TRUE)
          ELSE Goto(p, "writeAlreadySynced", j)
    \/ decision = "DeleteSecret" /\ Goto(p, "deleteCreds", j)
    \/ decision = "RemoveFinalizer" /\ Goto(p, "removeFinalizer", j)

-----------------------------------------------------------------------------
(* The steps of a reconcile, in the order of the code. *)

\* The controller hands over the cached CR and the reconcile reads the circuit
\* breaker, which failures of any resource may have opened.
Start(p) ==
    /\ pc[p] = "idle" /\ due[p] /\ Head(feed[p]).exists
    /\ \E open \in BOOLEAN :
           /\ IF open THEN Fault ELSE NoFault
           /\ job' = [job EXCEPT ![p] = JobFor(Head(feed[p]), open)]
    /\ pc' = [pc EXCEPT ![p] = "checks"]
    /\ due' = [due EXCEPT ![p] = FALSE]
    /\ current' = [current EXCEPT ![p] = Len(feed[p]) = 1]
    /\ UNCHANGED <<live, feed, users, scw>>

\* Validations that call nothing; the region's applies to deletions too.
Checks(p) ==
    /\ pc[p] = "checks"
    /\ LET j == job[p]
           cr == job[p].cr
       IN  \/ ~cr.spec.regionOk /\ FailWithStatus(p, j, "ConfigError", "region")
           \/ cr.spec.regionOk /\ cr.deleting /\ Act(p, j, FALSE)
           \/ /\ cr.spec.regionOk /\ ~cr.deleting
              /\ \/ cr.spec.reserved /\ FailWithStatus(p, j, "ConfigError", "reserved")
                 \/ ~cr.spec.reserved /\ ~j.circuit /\ Goto(p, "role", j)
                 \/ /\ ~cr.spec.reserved /\ j.circuit /\ cr.spec.key # NoKey
                    /\ Goto(p, "source", j)
                 \/ /\ ~cr.spec.reserved /\ j.circuit /\ cr.spec.key = NoKey
                    /\ Act(p, j, FALSE)
    /\ UNCHANGED <<kube, users, scw, faults>>

ReadRole(p) ==
    /\ pc[p] = "role"
    /\ LET j == job[p] IN
       \/ Fault /\ FailWithStatus(p, j, "KubeError", "KubeError")
       \/ /\ NoFault /\ ns.role = "absent"
          /\ FailWithStatus(p, j, "ConfigError", "role")
       \/ /\ NoFault /\ ns.role = "Viewer"
          /\ FailWithStatus(p, j, "ConfigError", "readOnly")
       \/ /\ NoFault /\ ns.role \in WriteRoles
          /\ IF j.cr.spec.key # NoKey THEN Goto(p, "source", j) ELSE Act(p, j, FALSE)
    /\ UNCHANGED <<kube, users, scw>>

\* The opt-in is gone: revoke what the snapshot's status knows of.
OptInMissing(p, j) ==
    \/ /\ j.cr.status.state = "Revoked"
       /\ Fail(p, "SecretOptInMissing")
    \/ /\ j.cr.status.state # "Revoked" /\ j.cr.status.sid # None
       /\ Goto(p, IF j.cr.status.ver # None THEN "revokeCreds" ELSE "writeRevoked", j)
    \/ /\ j.cr.status.state # "Revoked" /\ j.cr.status.sid = None
       /\ FailWithStatus(p, j, "SecretOptInMissing", "source")

\* Opt-in granted: the label and the allowed-cr annotation, in one GET with the
\* resourceVersion and the value.
OptInGrantedIgnored(src) == src.exists
OptInGranted(src) == src.exists /\ src.optIn

ReadSource(p) ==
    /\ pc[p] = "source"
    /\ LET j == job[p] IN
       \/ Fault /\ FailWithStatus(p, j, "KubeError", "source")
       \/ /\ NoFault /\ ~ns.rbac
          /\ FailWithStatus(p, j, "SecretAccessDenied", "source")
       \/ NoFault /\ ns.rbac /\ ~source.exists /\ Act(p, j, FALSE)
       \/ NoFault /\ ns.rbac /\ source.exists /\ ~OptInGranted(source) /\ OptInMissing(p, j)
       \/ /\ NoFault /\ ns.rbac /\ OptInGranted(source)
          /\ Act(p, [j EXCEPT !.rv = source.rv, !.granted = source.optIn],
                 j.cr.spec.key \in source.keys)
    /\ UNCHANGED <<kube, users, scw>>

\* handle_opt_in_revocation: disable the version the snapshot names, and only
\* then announce it.
RevokeCreds(p) ==
    /\ pc[p] = "revokeCreds"
    /\ \E err \in {"none", "ConfigError", "KubeError"} :
           /\ CredsRead(err)
           /\ IF err = "none" THEN Goto(p, "disable", job[p]) ELSE Fail(p, err)
    /\ UNCHANGED <<kube, users, scw>>

DisableAnnouncedAnyway(p) ==
    /\ pc[p] = "disable"
    /\ LET st == job[p].cr.status IN
       \E ok \in BOOLEAN :
           /\ ScalewayCall(HasVersion(scw, st.sid, st.ver),
                           DisableVersion(scw, st.sid, st.ver), ok)
           /\ Goto(p, "writeRevoked", job[p])
    /\ UNCHANGED <<kube, users>>
Disabling(p) ==
    /\ pc[p] = "disable"
    /\ LET st == job[p].cr.status IN
       \E ok \in BOOLEAN :
           /\ ScalewayCall(HasVersion(scw, st.sid, st.ver),
                           DisableVersion(scw, st.sid, st.ver), ok)
           /\ IF ok THEN Goto(p, "writeRevoked", job[p]) ELSE Fail(p, "ScalewayError")
    /\ UNCHANGED <<kube, users>>

WriteRevoked(p) ==
    /\ pc[p] = "writeRevoked"
    /\ \E ok \in BOOLEAN :
           /\ PatchStatus(RevokedStatus(job[p]), ok)
           /\ Fail(p, IF ok THEN "SecretOptInMissing" ELSE "KubeError")
    /\ UNCHANGED <<users, scw>>

\* The failure of an error status write is ignored.
WriteError(p) ==
    /\ pc[p] = "writeError"
    /\ \E ok \in BOOLEAN : PatchStatus(ErrorStatus(job[p]), ok)
    /\ Fail(p, job[p].err)
    /\ UNCHANGED <<users, scw>>

AddFinalizer(p) ==
    /\ pc[p] = "addFinalizer"
    /\ \E ok \in BOOLEAN : Patch([live EXCEPT !.finalizer = TRUE], ok)
    /\ Return(p, TRUE)
    /\ UNCHANGED <<users, scw>>

\* is_cached_cr_current: nothing is created or pushed from a stale snapshot.
CachedCrAssumedCurrent(p) == TRUE
CachedCrIsCurrent(p) == current[p]

Guard(p) ==
    /\ pc[p] = "guard"
    /\ \/ Fault /\ Fail(p, "KubeError")
       \/ NoFault /\ ~live.exists /\ Fail(p, "KubeError")
       \/ NoFault /\ live.exists /\ ~CachedCrIsCurrent(p) /\ Return(p, TRUE)
       \/ /\ NoFault /\ live.exists /\ CachedCrIsCurrent(p)
          /\ Goto(p, IF job[p].cr.status.sid = None THEN "project" ELSE "creds", job[p])
    /\ UNCHANGED <<kube, users, scw>>

\* Any failure to read the namespace is reported as a ConfigError.
ReadProject(p) ==
    /\ pc[p] = "project"
    /\ LET j == job[p] IN
       \/ Fault /\ FailWithStatus(p, j, "ConfigError", "project")
       \/ /\ NoFault /\ ns.project = NoProject
          /\ FailWithStatus(p, j, "ConfigError", "project")
       \/ /\ NoFault /\ ns.project # NoProject
          /\ Goto(p, "creds", [j EXCEPT !.project = ns.project])
    /\ UNCHANGED <<kube, users, scw>>

ReadCreds(p) ==
    /\ pc[p] = "creds"
    /\ LET j == job[p] IN
       \E err \in {"none", "ConfigError", "KubeError"} :
           /\ CredsRead(err)
           /\ IF err = "none"
              THEN Goto(p, IF j.cr.status.sid = None THEN "find" ELSE "version", j)
              ELSE FailWithStatus(p, j, err, IF err = "KubeError" THEN err ELSE "creds")
    /\ UNCHANGED <<kube, users, scw>>

\* Adopt a secret that carries the CR's tags, or go on to create one.
NothingToAdopt(project) == {}
SecretsToAdopt(project) == FoundByTags(scw, project)

Find(p) ==
    /\ pc[p] = "find"
    /\ LET j == job[p] IN
       \/ Fault /\ FailWithStatus(p, j, "ScalewayError", "ScalewayError")
       \/ /\ NoFault /\ SecretsToAdopt(j.project) = {}
          /\ Goto(p, "create", j)
       \/ /\ NoFault
          /\ \E s \in SecretsToAdopt(j.project) :
                 Goto(p, "writePreliminary", [j EXCEPT !.sid = s])
    /\ UNCHANGED <<kube, users, scw>>

Create(p) ==
    /\ pc[p] = "create"
    /\ LET j == job[p] IN
       \E ok \in BOOLEAN :
           /\ ScalewayCall(TRUE, NewSecret(scw, j.project), ok)
           /\ IF ok
              THEN Goto(p, "writePreliminary", [j EXCEPT !.sid = Len(scw) + 1])
              ELSE FailWithStatus(p, j, "ScalewayError", "ScalewayError")
    /\ UNCHANGED <<kube, users>>

\* Anchor the secret's id in the status before any version exists.
WritePreliminaryUnchecked(p) ==
    /\ pc[p] = "writePreliminary"
    /\ \E ok \in BOOLEAN : PatchStatus(PreliminaryStatus(job[p]), ok)
    /\ Goto(p, "version", job[p])
    /\ UNCHANGED <<users, scw>>
WritePreliminary(p) ==
    /\ pc[p] = "writePreliminary"
    /\ \E ok \in BOOLEAN :
           /\ PatchStatus(PreliminaryStatus(job[p]), ok)
           /\ IF ok THEN Goto(p, "version", job[p]) ELSE Fail(p, "KubeError")
    /\ UNCHANGED <<users, scw>>

\* What is pushed: the value of the single read that checked the opt-in.
PayloadReread(j) == [rv |-> source.rv, gen |-> j.cr.gen, granted |-> source.optIn]
PayloadOf(j) == [rv |-> j.rv, gen |-> j.cr.gen, granted |-> j.granted]

CreateVersion(p) ==
    /\ pc[p] = "version"
    /\ LET j == job[p] IN
       \E ok \in BOOLEAN :
           /\ ScalewayCall(IsAlive(scw, j.sid), NewVersion(scw, j.sid, PayloadOf(j)), ok)
           /\ IF ok
              THEN Goto(p, "writeSynced", [j EXCEPT !.ver = Len(scw[j.sid].versions) + 1])
              ELSE FailWithStatus(p, j, "ScalewayError", "ScalewayError")
    /\ UNCHANGED <<kube, users>>

WriteSynced(p) ==
    /\ pc[p] = "writeSynced"
    /\ \E ok \in BOOLEAN : PatchStatus(SyncedStatus(job[p]), ok)
    /\ Return(p, TRUE)
    /\ UNCHANGED <<users, scw>>

WriteAlreadySynced(p) ==
    /\ pc[p] = "writeAlreadySynced"
    /\ \E ok \in BOOLEAN : PatchStatus(AlreadySyncedStatus(job[p]), ok)
    /\ Return(p, TRUE)
    /\ UNCHANGED <<users, scw>>

\* Deletion.  Without credentials the secret is left behind in Scaleway; an API
\* server that fails is asked again.
DeleteCredsLenient(p) ==
    /\ pc[p] = "deleteCreds"
    /\ \E err \in {"none", "ConfigError", "KubeError"} :
           /\ CredsRead(err)
           /\ Goto(p, IF err = "none" THEN "delete" ELSE "removeFinalizer", job[p])
    /\ UNCHANGED <<kube, users, scw>>
DeleteCreds(p) ==
    /\ pc[p] = "deleteCreds"
    /\ \E err \in {"none", "ConfigError", "KubeError"} :
           /\ CredsRead(err)
           /\ \/ err = "none" /\ Goto(p, "delete", job[p])
              \/ err # "none" /\ ~IsPermanent(err) /\ Fail(p, err)
              \/ err # "none" /\ IsPermanent(err) /\ Goto(p, "removeFinalizer", job[p])
    /\ UNCHANGED <<kube, users, scw>>

\* A secret that is already gone (404) counts as deleted.
Delete(p) ==
    /\ pc[p] = "delete"
    /\ LET s == job[p].cr.status.sid IN
       \E ok \in BOOLEAN :
           /\ ScalewayCall(TRUE, IF IsAlive(scw, s) THEN DeleteSecret(scw, s) ELSE scw, ok)
           /\ IF ok THEN Goto(p, "removeFinalizer", job[p]) ELSE Fail(p, "ScalewayError")
    /\ UNCHANGED <<kube, users>>

\* The API server removes a deleted CR with its last finalizer.
RemoveFinalizer(p) ==
    /\ pc[p] = "removeFinalizer"
    /\ \E ok \in BOOLEAN :
           /\ Patch([live EXCEPT !.finalizer = FALSE, !.exists = ~live.deleting], ok)
           /\ Return(p, ~ok)
    /\ UNCHANGED <<users, scw>>

-----------------------------------------------------------------------------
(* The controller, the users and the admins. *)

\* The watch delivers the next event: the cache moves on, a reconcile is due.
Deliver(p) ==
    /\ Len(feed[p]) > 1
    /\ feed' = [feed EXCEPT ![p] = Tail(@)]
    /\ due' = [due EXCEPT ![p] = feed[p][2].exists]
    /\ UNCHANGED <<live, current, users, scw, pc, job, faults>>

\* The process dies at any point; the new one lists the CR and reconciles it.
Crash(p) ==
    /\ pc[p] # "idle"
    /\ Fault
    /\ pc' = [pc EXCEPT ![p] = "idle"]
    /\ job' = [job EXCEPT ![p] = NoJob]
    /\ feed' = [feed EXCEPT ![p] = <<live>>]
    /\ due' = [due EXCEPT ![p] = live.exists]
    /\ UNCHANGED <<live, current, users, scw>>

UserOp == ops < MaxOps /\ ops' = ops + 1

\* spec.region is immutable (a CEL rule of the CRD); the rest can be edited during a
\* deletion, too.
EditSpec ==
    /\ UserOp /\ live.exists
    /\ \E sp \in Specs :
           /\ sp # live.spec /\ sp.regionOk = live.spec.regionOk
           /\ Store([live EXCEPT !.spec = sp, !.gen = @ + 1])
    /\ UNCHANGED <<source, ns, scw, pc, job, due, faults>>

DeleteCR ==
    /\ UserOp /\ live.exists /\ ~live.deleting
    /\ Store([live EXCEPT !.deleting = TRUE, !.gen = @ + 1, !.exists = live.finalizer])
    /\ UNCHANGED <<source, ns, scw, pc, job, due, faults>>

\* Any change of the source Secret, its value included, moves its resourceVersion.
EditSource ==
    /\ UserOp
    /\ \E s \in Sources :
           source' = [exists |-> s.exists, optIn |-> s.optIn, keys |-> s.keys,
                      rv |-> source.rv + 1]
    /\ UNCHANGED <<kube, ns, scw, pc, job, due, faults>>

EditNamespace ==
    /\ UserOp
    /\ ns' \in Namespaces \ {ns}
    /\ UNCHANGED <<kube, source, scw, pc, job, due, faults>>

Reconcile(p) ==
    \/ Start(p) \/ Checks(p) \/ ReadRole(p) \/ ReadSource(p)
    \/ RevokeCreds(p) \/ Disabling(p) \/ WriteRevoked(p) \/ WriteError(p)
    \/ AddFinalizer(p) \/ Guard(p) \/ ReadProject(p) \/ ReadCreds(p)
    \/ Find(p) \/ Create(p) \/ WritePreliminary(p) \/ CreateVersion(p)
    \/ WriteSynced(p) \/ WriteAlreadySynced(p)
    \/ DeleteCreds(p) \/ Delete(p) \/ RemoveFinalizer(p)

Next ==
    \/ \E p \in Pods : Reconcile(p) \/ Deliver(p) \/ Crash(p)
    \/ EditSpec \/ DeleteCR \/ EditSource \/ EditNamespace

Spec == Init /\ [][Next]_vars

\* The process runs its reconciles and the API server delivers its events; users
\* owe nothing.
Fairness == \A p \in Pods : WF_vars(Reconcile(p)) /\ WF_vars(Deliver(p))

FairSpec == Spec /\ Fairness

-----------------------------------------------------------------------------
(* Properties. *)

KubeOK ==
    /\ live \in CR
    /\ feed \in [Pods -> Seq(CR)] /\ \A p \in Pods : feed[p] # <<>>
    /\ current \in [Pods -> BOOLEAN]

UsersOK ==
    /\ source \in [exists : BOOLEAN, optIn : BOOLEAN, keys : SUBSET Keys, rv : Nat]
    /\ ns \in Namespaces
    /\ ops \in 0..MaxOps

PodsOK ==
    /\ pc \in [Pods -> Steps]
    /\ job \in [Pods -> Job]
    /\ due \in [Pods -> BOOLEAN]

FaultsOK == faults \in 0..MaxFaults

\* Statuses, snapshots and jobs stay within the values the code can hold: among
\* others, sync_state is one of its four strings and every step is a known one.
TypeOK == KubeOK /\ UsersOK /\ PodsOK /\ FaultsOK /\ scw \in Seq(Secret)

\* "il ne reste jamais qu'une version active" (PushNewVersion, issue #117): of a
\* secret's versions at most the last is enabled, whatever status writes, answers
\* or processes were lost on the way, and whichever pods push to it.
OnlyLastEnabled ==
    \A s \in DOMAIN scw : EnabledVersions(scw, s) \subseteq {Len(scw[s].versions)}

\* Adoption by tags: a lost creation answer, a lost status or a restart never
\* makes the operator create a second secret (CreateAndSyncSecret).
AtMostOneSecret ==
    \A s, t \in DOMAIN scw : IsAlive(scw, s) /\ IsAlive(scw, t) => s = t

\* A CR that has a secret in Scaleway has the finalizer that keeps it from
\* vanishing before that secret is deleted, even when the reconcile that
\* created it worked on an old snapshot.
FinalizerBeforeSecret ==
    live.exists /\ (\E s \in DOMAIN scw : IsAlive(scw, s)) => live.finalizer

\* Reserve-intent (issue #117): when a version is created, the API server holds
\* the id of its secret in the status of the CR.
VersionOnAnchoredSecret ==
    [][\A s \in DOMAIN scw :
          Len(scw'[s].versions) > Len(scw[s].versions)
              => live.exists /\ live.status.sid = s]_vars

\* A status that becomes Synced tells the truth: its version is enabled and was
\* read at the resourceVersion, and under the generation, that it records.
SyncedIsTrue ==
    [][LET st == live'.status IN
       st # live.status /\ st.state = "Synced"
           => /\ HasVersion(scw, st.sid, st.ver)
              /\ st.ver \in EnabledVersions(scw, st.sid)
              /\ scw[st.sid].versions[st.ver].payload.rv = st.rv
              /\ scw[st.sid].versions[st.ver].payload.gen = st.ogen]_vars

\* Revoked is only announced when the version the status names is disabled: a
\* failed disabling is retried first (handle_opt_in_revocation).
RevokedVersionDisabled ==
    [][LET st == live'.status IN
       st # live.status /\ st.state = "Revoked" /\ st.ver # None /\ IsAlive(scw, st.sid)
           => st.ver \notin EnabledVersions(scw, st.sid)]_vars

\* The finalizer is not taken off while the secret known to the reconcile is
\* alive, as long as the namespace has its credentials: failures of Scaleway or
\* of the API server put it off (DeleteSecret).
FinalizerKeptUntilDeleted ==
    \A p \in Pods :
        pc[p] = "removeFinalizer" /\ job[p].cr.status.sid # None
            => ~IsAlive(scw, job[p].cr.status.sid)

\* The CR as SecretSync sees it: Synced stands by the payload whose resourceVersion
\* and generation the status records.
Abstract ==
    INSTANCE SecretSync WITH
        store <- scw,
        announce <-
            [life |-> IF ~live.exists THEN "gone"
                      ELSE IF live.deleting THEN "deleting" ELSE "present",
             claim |-> IF live.status.state \in {"Synced", "Revoked"}
                       THEN live.status.state ELSE "nothing",
             sid |-> live.status.sid,
             ver |-> live.status.ver,
             value |-> [rv |-> live.status.rv, gen |-> live.status.ogen, granted |-> TRUE]],
        Values <- [rv : 1..(MaxOps + 1), gen : 1..(MaxOps + 1), granted : {TRUE}]

\* Through failures, lost answers, restarts and a late cache, the reconciler keeps
\* every promise of SecretSync, on which the RDB reconciler relies: in particular
\* a secret is only deleted once the CR is, and pushes go to the secret it names.
ImplementsSecretSync == Abstract!Spec

\* Every value pushed was read together with an opt-in that granted it: no
\* window between check and read (read_k8s_secret_source).
OnlyGrantedPayload ==
    \A s \in DOMAIN scw : \A r \in DOMAIN scw[s].versions :
        scw[s].versions[r].payload.granted

\* As long as nothing fails the same value is pushed once, however late the cache
\* is: "un status [...] pas encore vu par le cache ferait pousser une seconde
\* version identique" is what is_cached_cr_current prevents (ARCHITECTURE.md).  It
\* takes a namespace that stays writable: the error of one that turns read-only for a
\* while is a status too, which may put back an older one.
NoDuplicateVersion ==
    faults = 0 =>
        \A s \in DOMAIN scw : \A q, r \in DOMAIN scw[s].versions :
            scw[s].versions[q].payload = scw[s].versions[r].payload => q = r

\* A namespace that lets the operator work.
NamespaceUsable ==
    ns.role \in WriteRoles /\ ns.project # NoProject /\ ns.creds /\ ns.rbac

\* The CR and its source ask for a synchronisation and allow it.
Syncable ==
    /\ live.exists /\ ~live.deleting
    /\ live.spec.regionOk /\ ~live.spec.reserved
    /\ OptInGranted(source) /\ live.spec.key \in source.keys

\* The status is Synced at the current source and spec, and the version it names
\* holds them.
InSync ==
    LET st == live.status IN
    /\ st.state = "Synced" /\ st.rv = source.rv /\ st.ogen = live.gen
    /\ HasVersion(scw, st.sid, st.ver)
    /\ scw[st.sid].versions[st.ver] =
           [payload |-> [rv |-> st.rv, gen |-> st.ogen, granted |-> TRUE], enabled |-> TRUE]

\* Once users leave a CR that can be synchronised alone, in a namespace that lets the
\* operator work all along (nothing watches it), it gets synchronised and stays so,
\* whichever call failed (README: "correction -> requeue"); two failures at once are
\* another matter (a read and the write of its error, error_policy).
Converges == []NamespaceUsable => <>[](Syncable => InSync)

\* A deletion, once asked for, completes (finalizer removed).
DeletionCompletes == (live.exists /\ live.deleting) ~> ~live.exists

\* A withdrawn opt-in ends up announced, and the version the status names
\* disabled: revocations that failed are retried (handle_opt_in_revocation).
OptOutWithdraws ==
    /\ live.exists /\ ~live.deleting /\ ~live.spec.reserved
    /\ live.spec.key # NoKey /\ source.exists /\ ~source.optIn
    /\ live.status.sid # None
OptOutIsApplied ==
    []NamespaceUsable =>
        <>[](OptOutWithdraws =>
                /\ live.status.state = "Revoked"
                /\ live.status.ver # None
                      => live.status.ver \notin EnabledVersions(scw, live.status.sid))

-----------------------------------------------------------------------------
(* What docs and comments say and the code does not do. *)

\* reconcilers.rs, handle_opt_in_revocation: "sans jamais annoncer une version
\* désactivée qui ne l'est pas".
RevokedMeansDisabled ==
    [][LET st == live'.status IN
       st # live.status /\ st.state = "Revoked" /\ IsAlive(scw, st.sid)
           => EnabledVersions(scw, st.sid) = {}]_vars

\* ARCHITECTURE.md: "À la suppression du CR, le secret Scaleway est supprimé
\* avant le retrait du finalizer" (when the credentials are there).
SecretDeletedBeforeCR ==
    [][live.exists /\ ~live'.exists => \A s \in DOMAIN scw : ~IsAlive(scw, s)]_vars

=============================================================================
