----------------------- MODULE ScalewaySecret_proofs -----------------------
(***************************************************************************)
(* Proofs about ScalewaySecret, for any set of pods, any specs, sources    *)
(* and namespaces, and any number of user operations and faults.           *)
(***************************************************************************)
EXTENDS ScalewaySecret, SecretManager_proofs

-----------------------------------------------------------------------------
(* Types of the values the steps build. *)

LEMMA NewCRType ==
  ASSUME NEW sp \in Specs
  PROVE  NewCR(sp) \in CR
  BY DEF NewCR, CR, NewStatus, Status, States, Messages, None

LEMMA JobForType ==
  ASSUME NEW cr \in CR, NEW open \in BOOLEAN
  PROVE  JobFor(cr, open) \in Job
  BY DEF JobFor, Job, CR, Status, Errors, Messages, None

LEMMA NoJobType == NoJob \in Job
<1>1. PICK sp \in Specs : TRUE
  BY SecretAssumption
<1>2. (CHOOSE q \in Specs : TRUE) \in Specs
  BY <1>1
<1> QED
  BY <1>2, NewCRType, JobForType DEF NoJob

\* Every status that a reconcile writes is one.
LEMMA StatusTypes ==
  ASSUME NEW j \in Job
  PROVE  /\ ErrorStatus(j) \in Status
         /\ RevokedStatus(j) \in Status
         /\ PreliminaryStatus(j) \in Status
         /\ SyncedStatus(j) \in Status
         /\ AlreadySyncedStatus(j) \in Status
<1>1. j.cr \in CR /\ j.sid \in Nat /\ j.ver \in Nat /\ j.rv \in Nat /\ j.msg \in Messages
  BY DEF Job
<1>2. j.cr.status \in Status /\ j.cr.gen \in Nat
  BY <1>1 DEF CR
<1>3. ErrorStatus(j) \in Status
  BY <1>1, <1>2 DEF ErrorStatus, Status, States
<1>4. RevokedStatus(j) \in Status
  BY <1>2 DEF RevokedStatus, Status, States, Messages, None
<1>5. PreliminaryStatus(j) \in Status
  BY <1>1, <1>2 DEF PreliminaryStatus, Status, States, Messages, None
<1>6. SyncedStatus(j) \in Status
  BY <1>1, <1>2 DEF SyncedStatus, Status, States, Messages
<1>7. AlreadySyncedStatus(j) \in Status
  BY <1>2 DEF AlreadySyncedStatus, Status, States, Messages
<1> QED
  BY <1>3, <1>4, <1>5, <1>6, <1>7

LEMMA PayloadType ==
  ASSUME NEW j \in Job
  PROVE  PayloadOf(j) \in Payload
  BY DEF PayloadOf, Payload, Job, CR

-----------------------------------------------------------------------------
(* Types kept by the control flow of a reconcile. *)

\* A reconcile that searches for a secret, or creates one, knows the project:
\* without this, what it creates need not be a secret of a project.
ProjectNeeded(step, j) ==
    step \in {"find", "create"} \/ (step = "creds" /\ j.cr.status.sid = None)

ProjectKnown ==
    \A p \in Pods : ProjectNeeded(pc[p], job[p]) => job[p].project \in Projects

PodsInv == PodsOK /\ ProjectKnown

LEMMA GotoType ==
  ASSUME PodsInv, NEW p \in Pods, NEW step \in Steps, NEW j \in Job, Goto(p, step, j),
         ProjectNeeded(step, j) => j.project \in Projects
  PROVE  PodsInv'
<1>1. PodsOK'
  BY DEF PodsInv, PodsOK, Goto
<1>2. ProjectKnown'
  BY DEF PodsInv, PodsOK, ProjectKnown, Goto
<1> QED
  BY <1>1, <1>2 DEF PodsInv

LEMMA ReturnType ==
  ASSUME PodsInv, NEW p \in Pods, NEW again \in BOOLEAN, Return(p, again)
  PROVE  PodsInv'
<1>1. due' \in [Pods -> BOOLEAN]
  BY DEF PodsInv, PodsOK, Return
<1>2. pc' \in [Pods -> Steps] /\ job' \in [Pods -> Job]
  BY NoJobType DEF PodsInv, PodsOK, Return, Steps
<1>3. ProjectKnown'
  BY DEF PodsInv, PodsOK, ProjectKnown, ProjectNeeded, Return
<1> QED
  BY <1>1, <1>2, <1>3 DEF PodsInv, PodsOK

LEMMA FailType ==
  ASSUME PodsInv, NEW p \in Pods, NEW err, Fail(p, err)
  PROVE  PodsInv'
<1>1. Requeues(err) \in BOOLEAN
  BY DEF Requeues, HasRecheckInterval, IsPermanent
<1> QED
  BY <1>1, ReturnType DEF Fail

LEMMA FailWithStatusType ==
  ASSUME PodsInv, NEW p \in Pods, NEW j \in Job, NEW err \in Errors, NEW msg \in Messages,
         FailWithStatus(p, j, err, msg)
  PROVE  PodsInv'
<1>1. [j EXCEPT !.err = err, !.msg = msg] \in Job
  BY DEF Job
<1> QED
  BY <1>1, GotoType DEF FailWithStatus, Steps, ProjectNeeded

LEMMA ActType ==
  ASSUME PodsInv, NEW p \in Pods, NEW j \in Job, NEW keyPresent, Act(p, j, keyPresent)
  PROVE  PodsInv'
<1> DEFINE d == DecideNextAction(j, keyPresent)
<1>1. CASE d = "SkipCircuitOpen" /\ Fail(p, "CircuitBreakerOpen")
  BY <1>1, FailType
<1>2. CASE d = "AddFinalizer" /\ Goto(p, "addFinalizer", j)
  BY <1>2, GotoType DEF Steps, ProjectNeeded
<1>3. CASE d = "ErrorSourceNotConfigured"
             /\ FailWithStatus(p, j, "SecretSourceNotConfigured", "noSource")
  BY <1>3, FailWithStatusType DEF Errors, PermanentErrors, Messages
<1>4. CASE d = "ErrorKsSecretNotFound" /\ FailWithStatus(p, j, "SecretNotFound", "source")
  BY <1>4, FailWithStatusType DEF Errors, Messages
<1>5. CASE d = "ErrorKsKeyNotFound" /\ FailWithStatus(p, j, "SecretKeyNotFound", "source")
  BY <1>5, FailWithStatusType DEF Errors, PermanentErrors, Messages
<1>6. CASE d \in {"CreateAndSyncSecret", "PushNewVersion"} /\ Goto(p, "guard", j)
  BY <1>6, GotoType DEF Steps, ProjectNeeded
<1>7. CASE /\ d = "AlreadySynced"
           /\ IF AlreadySyncedStatus(j) = j.cr.status
              THEN Return(p, TRUE)
              ELSE Goto(p, "writeAlreadySynced", j)
  BY <1>7, ReturnType, GotoType DEF Steps, ProjectNeeded
<1>8. CASE d = "DeleteSecret" /\ Goto(p, "deleteCreds", j)
  BY <1>8, GotoType DEF Steps, ProjectNeeded
<1>9. CASE d = "RemoveFinalizer" /\ Goto(p, "removeFinalizer", j)
  BY <1>9, GotoType DEF Steps, ProjectNeeded
<1> HIDE DEF d
<1> QED
  BY <1>1, <1>2, <1>3, <1>4, <1>5, <1>6, <1>7, <1>8, <1>9 DEF Act, d

-----------------------------------------------------------------------------
(* Types kept by the calls. *)

LEMMA FaultType ==
  ASSUME FaultsOK, Fault \/ NoFault
  PROVE  FaultsOK'
  BY SecretAssumption DEF FaultsOK, Fault, NoFault

LEMMA StoreType ==
  ASSUME KubeOK, NEW new \in CR, Store(new)
  PROVE  KubeOK'
<1>1. live' \in CR
  BY DEF Store
<1>2. \A p \in Pods : Append(feed[p], new) \in Seq(CR) /\ Append(feed[p], new) # <<>>
  BY AppendProperties DEF KubeOK
<1>3. feed' \in [Pods -> Seq(CR)] /\ \A p \in Pods : feed'[p] # <<>>
  BY <1>2 DEF KubeOK, Store
<1>4. current' \in [Pods -> BOOLEAN]
  BY Zenon DEF Store
<1> QED
  BY <1>1, <1>3, <1>4 DEF KubeOK

LEMMA UnchangedKube ==
  ASSUME KubeOK, UNCHANGED kube
  PROVE  KubeOK'
  BY DEF KubeOK, kube

LEMMA PatchType ==
  ASSUME KubeOK, FaultsOK, NEW new \in CR, NEW ok, Patch(new, ok)
  PROVE  KubeOK' /\ FaultsOK'
<1>1. Store(new) \/ UNCHANGED kube
  BY DEF Patch
<1>2. Fault \/ NoFault
  BY DEF Patch
<1> QED
  BY <1>1, <1>2, StoreType, UnchangedKube, FaultType

LEMMA PatchStatusType ==
  ASSUME KubeOK, FaultsOK, NEW status \in Status, NEW ok, PatchStatus(status, ok)
  PROVE  KubeOK' /\ FaultsOK'
<1>1. [live EXCEPT !.status = status] \in CR
  BY DEF KubeOK, CR
<1> QED
  BY <1>1, PatchType DEF PatchStatus

LEMMA CredsReadType ==
  ASSUME FaultsOK, NEW err, CredsRead(err)
  PROVE  FaultsOK' /\ (err # "none" => err \in Errors)
  BY FaultType DEF CredsRead, Errors, PermanentErrors

\* A call to Scaleway leaves Secret Manager as it was or as the call makes it,
\* the latter only if the call was possible.
LEMMA ScalewayCallOutcome ==
  ASSUME NEW possible, NEW new, NEW ok, ScalewayCall(possible, new, ok)
  PROVE  scw' = scw \/ (possible /\ scw' = new)
  BY DEF ScalewayCall

LEMMA ScalewayCallFaults ==
  ASSUME FaultsOK, NEW possible, NEW new, NEW ok, ScalewayCall(possible, new, ok)
  PROVE  FaultsOK'
  BY FaultType DEF ScalewayCall

-----------------------------------------------------------------------------
(* The type invariant. *)

LEMMA InitTypeOK == Init => TypeOK
<1> SUFFICES ASSUME Init PROVE TypeOK
  OBVIOUS
<1>1. PICK sp \in Specs : live = NewCR(sp)
  BY DEF Init
<1>2. live \in CR
  BY <1>1, NewCRType
<1>3. <<live>> \in Seq(CR) /\ <<live>> # <<>>
  BY <1>2
<1>4. KubeOK
  BY <1>2, <1>3, Zenon DEF Init, KubeOK
<1>5. UsersOK
  BY SecretAssumption DEF Init, UsersOK, Source0
<1>6. PodsOK
  BY NoJobType, Zenon DEF Init, PodsOK, Steps
<1>7. FaultsOK
  BY SecretAssumption DEF Init, FaultsOK
<1>8. scw \in Seq(Secret)
  BY EmptySeq DEF Init
<1> QED
  BY <1>4, <1>5, <1>6, <1>7, <1>8 DEF TypeOK

LEMMA UnchangedUsers ==
  ASSUME UsersOK, UNCHANGED users
  PROVE  UsersOK'
  BY DEF UsersOK, users

\* The steps that read, decide and move on without a write.
LEMMA ReadingStepsType ==
  ASSUME PodsInv, FaultsOK, UsersOK, scw \in Seq(Secret), NEW p \in Pods,
         \/ Checks(p) \/ ReadRole(p) \/ ReadSource(p) \/ RevokeCreds(p)
         \/ Guard(p) \/ ReadProject(p) \/ ReadCreds(p) \/ Find(p) \/ DeleteCreds(p)
  PROVE  PodsInv' /\ FaultsOK'
<1> DEFINE j == job[p]
<1>1. j \in Job
  BY DEF PodsInv, PodsOK
<1> USE <1>1
<1>2. FaultsOK'
  <2>1. CASE Checks(p)
    BY <2>1 DEF Checks, FaultsOK
  <2>2. CASE \/ ReadRole(p) \/ ReadSource(p) \/ Guard(p) \/ ReadProject(p) \/ Find(p)
    BY <2>2, FaultType DEF ReadRole, ReadSource, Guard, ReadProject, Find
  <2>3. CASE RevokeCreds(p) \/ ReadCreds(p) \/ DeleteCreds(p)
    BY <2>3, CredsReadType DEF RevokeCreds, ReadCreds, DeleteCreds
  <2> QED
    BY <2>1, <2>2, <2>3
<1> SUFFICES PodsInv'
  BY <1>2
<1>3. CASE Checks(p)
  <2>1. CASE FailWithStatus(p, j, "ConfigError", "region")
    BY <2>1, FailWithStatusType DEF Errors, PermanentErrors, Messages
  <2>2. CASE Act(p, j, FALSE)
    BY <2>2, ActType
  <2>3. CASE FailWithStatus(p, j, "ConfigError", "reserved")
    BY <2>3, FailWithStatusType DEF Errors, PermanentErrors, Messages
  <2>4. CASE Goto(p, "role", j) \/ Goto(p, "source", j)
    BY <2>4, GotoType DEF Steps, ProjectNeeded
  <2> QED
    BY <1>3, <2>1, <2>2, <2>3, <2>4 DEF Checks
<1>4. CASE ReadRole(p)
  <2>1. CASE \/ FailWithStatus(p, j, "KubeError", "KubeError")
             \/ FailWithStatus(p, j, "ConfigError", "role")
             \/ FailWithStatus(p, j, "ConfigError", "readOnly")
    BY <2>1, FailWithStatusType DEF Errors, PermanentErrors, Messages
  <2>2. CASE Goto(p, "source", j)
    BY <2>2, GotoType DEF Steps, ProjectNeeded
  <2>3. CASE Act(p, j, FALSE)
    BY <2>3, ActType
  <2> QED
    BY <1>4, <2>1, <2>2, <2>3 DEF ReadRole
<1>5. CASE ReadSource(p)
  <2>1. CASE \/ FailWithStatus(p, j, "KubeError", "source")
             \/ FailWithStatus(p, j, "SecretAccessDenied", "source")
    BY <2>1, FailWithStatusType DEF Errors, PermanentErrors, Messages
  <2>2. CASE Act(p, j, FALSE)
    BY <2>2, ActType
  <2>3. CASE OptInMissing(p, j)
    <3>1. CASE Fail(p, "SecretOptInMissing")
      BY <3>1, FailType
    <3>2. CASE Goto(p, IF j.cr.status.ver # None THEN "revokeCreds" ELSE "writeRevoked", j)
      BY <3>2, GotoType DEF Steps, ProjectNeeded
    <3>3. CASE FailWithStatus(p, j, "SecretOptInMissing", "source")
      BY <3>3, FailWithStatusType DEF Errors, PermanentErrors, Messages
    <3> QED
      BY <2>3, <3>1, <3>2, <3>3 DEF OptInMissing
  <2>4. CASE Act(p, [j EXCEPT !.rv = source.rv, !.granted = source.optIn],
                 j.cr.spec.key \in source.keys)
    <3>1. [j EXCEPT !.rv = source.rv, !.granted = source.optIn] \in Job
      BY DEF UsersOK, Job
    <3> QED
      BY <2>4, <3>1, ActType
  <2> QED
    BY <1>5, <2>1, <2>2, <2>3, <2>4 DEF ReadSource
<1>6. CASE RevokeCreds(p)
  <2>1. PICK err \in {"none", "ConfigError", "KubeError"} :
          /\ CredsRead(err)
          /\ IF err = "none" THEN Goto(p, "disable", j) ELSE Fail(p, err)
    BY <1>6 DEF RevokeCreds
  <2> QED
    BY <2>1, GotoType, FailType DEF Steps, ProjectNeeded
<1>7. CASE Guard(p)
  <2>1. CASE Fail(p, "KubeError")
    BY <2>1, FailType
  <2>2. CASE Return(p, TRUE)
    BY <2>2, ReturnType
  <2>3. CASE Goto(p, IF j.cr.status.sid = None THEN "project" ELSE "creds", j)
    BY <2>3, GotoType DEF Steps, ProjectNeeded
  <2> QED
    BY <1>7, <2>1, <2>2, <2>3 DEF Guard
<1>8. CASE ReadProject(p)
  <2>1. CASE FailWithStatus(p, j, "ConfigError", "project")
    BY <2>1, FailWithStatusType DEF Errors, PermanentErrors, Messages
  <2>2. CASE ns.project # NoProject /\ Goto(p, "creds", [j EXCEPT !.project = ns.project])
    <3>1. ns.project \in Projects
      BY <2>2, SecretAssumption DEF UsersOK, Namespace0
    <3>2. /\ [j EXCEPT !.project = ns.project] \in Job
          /\ [j EXCEPT !.project = ns.project].project \in Projects
      BY <3>1 DEF Job
    <3> QED
      BY <2>2, <3>2, GotoType DEF Steps, ProjectNeeded
  <2> QED
    BY <1>8, <2>1, <2>2 DEF ReadProject
<1>9. CASE ReadCreds(p)
  <2>1. PICK err \in {"none", "ConfigError", "KubeError"} :
          /\ CredsRead(err)
          /\ IF err = "none"
             THEN Goto(p, IF j.cr.status.sid = None THEN "find" ELSE "version", j)
             ELSE FailWithStatus(p, j, err, IF err = "KubeError" THEN err ELSE "creds")
    BY <1>9 DEF ReadCreds
  <2>2. err # "none" => err \in Errors
    BY <2>1, CredsReadType
  <2>3. CASE err = "none"
    <3>1. j.cr.status.sid = None => j.project \in Projects
      BY <1>9 DEF ReadCreds, PodsInv, ProjectKnown, ProjectNeeded
    <3> QED
      BY <2>1, <2>3, <3>1, GotoType DEF Steps, ProjectNeeded
  <2>4. CASE err # "none"
    BY <2>1, <2>2, <2>4, FailWithStatusType DEF Messages
  <2> QED
    BY <2>3, <2>4
<1>10. CASE Find(p)
  <2>1. CASE FailWithStatus(p, j, "ScalewayError", "ScalewayError")
    BY <2>1, FailWithStatusType DEF Errors, Messages
  <2>2. CASE Goto(p, "create", j)
    <3>1. j.project \in Projects
      BY <1>10 DEF Find, PodsInv, ProjectKnown, ProjectNeeded
    <3> QED
      BY <2>2, <3>1, GotoType DEF Steps, ProjectNeeded
  <2>3. ASSUME NEW s \in SecretsToAdopt(j.project),
               Goto(p, "writePreliminary", [j EXCEPT !.sid = s])
        PROVE  PodsInv'
    <3>1. s \in Nat
      BY LenProperties DEF SecretsToAdopt, FoundByTags
    <3>2. [j EXCEPT !.sid = s] \in Job
      BY <3>1 DEF Job
    <3> QED
      BY <2>3, <3>2, GotoType DEF Steps, ProjectNeeded
  <2> QED
    BY <1>10, <2>1, <2>2, <2>3 DEF Find
<1>11. CASE DeleteCreds(p)
  <2>1. PICK err \in {"none", "ConfigError", "KubeError"} :
          /\ CredsRead(err)
          /\ \/ err = "none" /\ Goto(p, "delete", j)
             \/ err # "none" /\ ~IsPermanent(err) /\ Fail(p, err)
             \/ err # "none" /\ IsPermanent(err) /\ Goto(p, "removeFinalizer", j)
    BY <1>11 DEF DeleteCreds
  <2> QED
    BY <2>1, GotoType, FailType DEF Steps, ProjectNeeded
<1> QED
  BY <1>3, <1>4, <1>5, <1>6, <1>7, <1>8, <1>9, <1>10, <1>11

\* The steps that write to the API server.
LEMMA WritingStepsType ==
  ASSUME KubeOK, PodsInv, FaultsOK, NEW p \in Pods,
         \/ WriteRevoked(p) \/ WriteError(p) \/ AddFinalizer(p) \/ WritePreliminary(p)
         \/ WriteSynced(p) \/ WriteAlreadySynced(p) \/ RemoveFinalizer(p)
  PROVE  KubeOK' /\ PodsInv' /\ FaultsOK'
<1>1. job[p] \in Job
  BY DEF PodsInv, PodsOK
<1>2. KubeOK' /\ FaultsOK'
  <2>1. CASE WriteRevoked(p)
    BY <1>1, <2>1, StatusTypes, PatchStatusType DEF WriteRevoked
  <2>2. CASE WriteError(p)
    BY <1>1, <2>2, StatusTypes, PatchStatusType DEF WriteError
  <2>3. CASE WritePreliminary(p)
    BY <1>1, <2>3, StatusTypes, PatchStatusType DEF WritePreliminary
  <2>4. CASE WriteSynced(p)
    BY <1>1, <2>4, StatusTypes, PatchStatusType DEF WriteSynced
  <2>5. CASE WriteAlreadySynced(p)
    BY <1>1, <2>5, StatusTypes, PatchStatusType DEF WriteAlreadySynced
  <2>6. CASE AddFinalizer(p)
    <3>1. [live EXCEPT !.finalizer = TRUE] \in CR
      BY DEF KubeOK, CR
    <3> QED
      BY <2>6, <3>1, PatchType DEF AddFinalizer
  <2>7. CASE RemoveFinalizer(p)
    <3>1. [live EXCEPT !.finalizer = FALSE, !.exists = ~live.deleting] \in CR
      BY DEF KubeOK, CR
    <3> QED
      BY <2>7, <3>1, PatchType DEF RemoveFinalizer
  <2> QED
    BY <2>1, <2>2, <2>3, <2>4, <2>5, <2>6, <2>7
<1>3. PodsInv'
  <2>1. CASE WriteRevoked(p) \/ WriteError(p)
    BY <2>1, FailType DEF WriteRevoked, WriteError
  <2>2. CASE WritePreliminary(p)
    BY <1>1, <2>2, GotoType, FailType DEF WritePreliminary, Steps, ProjectNeeded
  <2>3. CASE AddFinalizer(p) \/ WriteSynced(p) \/ WriteAlreadySynced(p)
    BY <2>3, ReturnType DEF AddFinalizer, WriteSynced, WriteAlreadySynced
  <2>4. CASE RemoveFinalizer(p)
    BY <2>4, ReturnType DEF RemoveFinalizer
  <2> QED
    BY <2>1, <2>2, <2>3, <2>4
<1> QED
  BY <1>2, <1>3

\* The steps that change Scaleway: they keep the types, and leave at most the
\* last version of each secret enabled.
LEMMA ScalewayStepsType ==
  ASSUME scw \in Seq(Secret), PodsInv, FaultsOK, NEW p \in Pods,
         Disabling(p) \/ Create(p) \/ CreateVersion(p) \/ Delete(p)
  PROVE  /\ scw' \in Seq(Secret) /\ (OnlyLast(scw) => OnlyLast(scw'))
         /\ PodsInv' /\ FaultsOK'
<1> DEFINE j == job[p]
           Kept == scw' \in Seq(Secret) /\ (OnlyLast(scw) => OnlyLast(scw'))
<1>1. j \in Job
  BY DEF PodsInv, PodsOK
<1> USE <1>1
<1>2. FaultsOK'
  BY ScalewayCallFaults DEF Disabling, Create, CreateVersion, Delete
<1>3. CASE Disabling(p)
  <2> DEFINE st == j.cr.status
  <2>1. PICK ok \in BOOLEAN :
          /\ ScalewayCall(HasVersion(scw, st.sid, st.ver),
                          DisableVersion(scw, st.sid, st.ver), ok)
          /\ IF ok THEN Goto(p, "writeRevoked", j) ELSE Fail(p, "ScalewayError")
    BY <1>3 DEF Disabling
  <2>2. Kept
    BY <2>1, ScalewayCallOutcome, DisableVersionSafe
  <2>3. PodsInv'
    BY <2>1, GotoType, FailType DEF Steps, ProjectNeeded
  <2> QED
    BY <1>2, <2>2, <2>3
<1>4. CASE Create(p)
  <2>1. PICK ok \in BOOLEAN :
          /\ ScalewayCall(TRUE, NewSecret(scw, j.project), ok)
          /\ IF ok
             THEN Goto(p, "writePreliminary", [j EXCEPT !.sid = Len(scw) + 1])
             ELSE FailWithStatus(p, j, "ScalewayError", "ScalewayError")
    BY <1>4 DEF Create
  <2>2. j.project \in Projects
    BY <1>4 DEF Create, PodsInv, ProjectKnown, ProjectNeeded
  <2>3. Kept
    <3>1. scw' = scw \/ scw' = NewSecret(scw, j.project)
      BY <2>1 DEF ScalewayCall
    <3> QED
      BY <2>2, <3>1, NewSecretSafe
  <2>4. [j EXCEPT !.sid = Len(scw) + 1] \in Job
    BY LenProperties DEF Job
  <2>5. PodsInv'
    BY <2>1, <2>4, GotoType, FailWithStatusType DEF Steps, ProjectNeeded, Errors, Messages
  <2> QED
    BY <1>2, <2>3, <2>5
<1>5. CASE CreateVersion(p)
  <2>1. PICK ok \in BOOLEAN :
          /\ ScalewayCall(IsAlive(scw, j.sid), NewVersion(scw, j.sid, PayloadOf(j)), ok)
          /\ IF ok
             THEN Goto(p, "writeSynced", [j EXCEPT !.ver = Len(scw[j.sid].versions) + 1])
             ELSE FailWithStatus(p, j, "ScalewayError", "ScalewayError")
    BY <1>5 DEF CreateVersion
  <2>2. Kept
    BY <2>1, ScalewayCallOutcome, PayloadType, NewVersionSafe
  <2>3. CASE ok
    <3>1. j.sid \in DOMAIN scw
      BY <2>1, <2>3 DEF ScalewayCall, IsAlive
    <3>2. [j EXCEPT !.ver = Len(scw[j.sid].versions) + 1] \in Job
      <4>1. Len(scw[j.sid].versions) \in Nat
        BY <3>1, VersionsOfSecret, LenProperties
      <4> QED
        BY <4>1 DEF Job
    <3>3. PodsInv'
      BY <2>1, <2>3, <3>2, GotoType DEF Steps, ProjectNeeded
    <3> QED
      BY <1>2, <2>2, <3>3
  <2>4. CASE ~ok
    <3>1. PodsInv'
      BY <2>1, <2>4, FailWithStatusType DEF Errors, Messages
    <3> QED
      BY <1>2, <2>2, <3>1
  <2> QED
    BY <2>3, <2>4
<1>6. CASE Delete(p)
  <2> DEFINE s == j.cr.status.sid
  <2>1. PICK ok \in BOOLEAN :
          /\ ScalewayCall(TRUE, IF IsAlive(scw, s) THEN DeleteSecret(scw, s) ELSE scw, ok)
          /\ IF ok THEN Goto(p, "removeFinalizer", j) ELSE Fail(p, "ScalewayError")
    BY <1>6 DEF Delete
  <2>2. scw' = scw \/ (IsAlive(scw, s) /\ scw' = DeleteSecret(scw, s))
    BY <2>1, ScalewayCallOutcome
  <2>3. Kept
    BY <2>2, DeleteSecretSafe
  <2>4. PodsInv'
    BY <2>1, GotoType, FailType DEF Steps, ProjectNeeded
  <2> QED
    BY <1>2, <2>3, <2>4
<1> QED
  BY <1>3, <1>4, <1>5, <1>6

\* The controller, crashes, users and admins.
LEMMA EnvironmentType ==
  ASSUME TypeOK, ProjectKnown,
         \/ \E p \in Pods : Start(p) \/ Deliver(p) \/ Crash(p)
         \/ EditSpec \/ DeleteCR \/ EditSource \/ EditNamespace
  PROVE  TypeOK' /\ ProjectKnown' /\ UNCHANGED scw
<1>1. KubeOK /\ UsersOK /\ PodsOK /\ FaultsOK /\ scw \in Seq(Secret)
  BY DEF TypeOK
<1> USE <1>1 DEF TypeOK
<1>2. ASSUME NEW p \in Pods, Start(p) PROVE TypeOK' /\ ProjectKnown' /\ UNCHANGED scw
  <2>1. PICK open \in BOOLEAN :
          /\ IF open THEN Fault ELSE NoFault
          /\ job' = [job EXCEPT ![p] = JobFor(Head(feed[p]), open)]
    BY <1>2 DEF Start
  <2>2. Head(feed[p]) \in CR
    BY HeadTailProperties DEF KubeOK
  <2>3. JobFor(Head(feed[p]), open) \in Job
    BY <2>2, JobForType
  <2>4. FaultsOK'
    BY <2>1, FaultType
  <2>5. due' \in [Pods -> BOOLEAN]
    BY <1>2 DEF Start, PodsOK
  <2>6. PodsOK'
    BY <1>2, <2>1, <2>3, <2>5 DEF Start, PodsOK, Steps
  <2>7. current' \in [Pods -> BOOLEAN]
    <3>1. (Len(feed[p]) = 1) \in BOOLEAN
      OBVIOUS
    <3> QED
      BY <1>2, <3>1, Zenon DEF Start, KubeOK
  <2>8. KubeOK' /\ UsersOK'
    BY <1>2, <2>7, UnchangedUsers DEF Start, KubeOK
  <2>9. ProjectKnown'
    BY <1>2, <2>1 DEF Start, PodsOK, ProjectKnown, ProjectNeeded
  <2> QED
    BY <1>2, <2>4, <2>6, <2>8, <2>9 DEF Start
<1>3. ASSUME NEW p \in Pods, Deliver(p) PROVE TypeOK' /\ ProjectKnown' /\ UNCHANGED scw
  <2>1. feed[p] \in Seq(CR) /\ feed[p] # <<>> /\ Len(feed[p]) > 1
    BY <1>3 DEF Deliver, KubeOK
  <2>2. Tail(feed[p]) \in Seq(CR) /\ Tail(feed[p]) # <<>>
    <3> DEFINE n == Len(feed[p])
               m == Len(Tail(feed[p]))
    <3>1. Tail(feed[p]) \in Seq(CR) /\ m = n - 1
      BY <2>1, HeadTailProperties
    <3>2. n \in Nat /\ n > 1
      BY <2>1, LenProperties
    <3> HIDE DEF n, m
    <3>3. m # 0
      BY <3>1, <3>2
    <3> QED
      BY <3>1, <3>3, EmptySeq DEF m
  <2>3. KubeOK'
    BY <1>3, <2>2 DEF Deliver, KubeOK
  <2>4. feed[p][2] \in CR
    BY <2>1, ElementOfSeq, LenProperties
  <2>5. feed[p][2].exists \in BOOLEAN
    BY <2>4 DEF CR
  <2>6. due' \in [Pods -> BOOLEAN]
    BY <1>3, <2>5 DEF Deliver, PodsOK
  <2>7. PodsOK' /\ UsersOK' /\ FaultsOK'
    BY <1>3, <2>6, UnchangedUsers DEF Deliver, PodsOK, FaultsOK
  <2>8. ProjectKnown' /\ UNCHANGED scw
    BY <1>3 DEF Deliver, ProjectKnown
  <2> QED
    BY <2>3, <2>7, <2>8
<1>4. ASSUME NEW p \in Pods, Crash(p) PROVE TypeOK' /\ ProjectKnown' /\ UNCHANGED scw
  <2>1. <<live>> \in Seq(CR) /\ <<live>> # <<>> /\ live.exists \in BOOLEAN
    BY DEF KubeOK, CR
  <2>2. KubeOK'
    BY <1>4, <2>1 DEF Crash, KubeOK
  <2>3. due' \in [Pods -> BOOLEAN]
    BY <1>4, <2>1 DEF Crash, PodsOK
  <2>4. PodsOK'
    BY <1>4, <2>3, NoJobType DEF Crash, PodsOK, Steps
  <2>5. UsersOK' /\ FaultsOK'
    BY <1>4, UnchangedUsers, FaultType DEF Crash
  <2>6. ProjectKnown' /\ UNCHANGED scw
    BY <1>4 DEF Crash, PodsOK, ProjectKnown, ProjectNeeded
  <2> QED
    BY <2>2, <2>4, <2>5, <2>6
<1>5. UserOp => ops' \in 0..MaxOps
  BY SecretAssumption DEF UserOp, UsersOK
<1>6. CASE EditSpec
  <2>1. PICK sp \in Specs : Store([live EXCEPT !.spec = sp, !.gen = @ + 1])
    BY <1>6 DEF EditSpec
  <2>2. [live EXCEPT !.spec = sp, !.gen = @ + 1] \in CR
    <3>1. live \in CR /\ live.gen \in Nat /\ live.finalizer \in BOOLEAN
      BY DEF KubeOK, CR
    <3>2. live.gen + 1 \in Nat
      BY <3>1
    <3> QED
      BY <3>1, <3>2 DEF CR
  <2>3. KubeOK'
    BY <2>1, <2>2, StoreType
  <2> QED
    BY <1>5, <1>6, <2>3 DEF EditSpec, UsersOK, PodsOK, FaultsOK, ProjectKnown
<1>7. CASE DeleteCR
  <2>1. [live EXCEPT !.deleting = TRUE, !.gen = @ + 1, !.exists = live.finalizer] \in CR
    <3>1. live \in CR /\ live.gen \in Nat /\ live.finalizer \in BOOLEAN
      BY DEF KubeOK, CR
    <3>2. live.gen + 1 \in Nat
      BY <3>1
    <3> QED
      BY <3>1, <3>2 DEF CR
  <2>2. KubeOK'
    BY <1>7, <2>1, StoreType DEF DeleteCR
  <2> QED
    BY <1>5, <1>7, <2>2 DEF DeleteCR, UsersOK, PodsOK, FaultsOK, ProjectKnown
<1>8. CASE EditSource
  <2>1. source' \in [exists : BOOLEAN, optIn : BOOLEAN, keys : SUBSET Keys, rv : Nat]
    BY <1>8, SecretAssumption DEF EditSource, Source0, UsersOK
  <2>2. KubeOK'
    BY <1>8, UnchangedKube DEF EditSource
  <2> QED
    BY <1>5, <1>8, <2>1, <2>2 DEF EditSource, UsersOK, PodsOK, FaultsOK, ProjectKnown
<1>9. CASE EditNamespace
  <2>1. KubeOK'
    BY <1>9, UnchangedKube DEF EditNamespace
  <2> QED
    BY <1>5, <1>9, <2>1 DEF EditNamespace, UsersOK, PodsOK, FaultsOK, ProjectKnown
<1> QED
  BY <1>2, <1>3, <1>4, <1>6, <1>7, <1>8, <1>9

-----------------------------------------------------------------------------
(* The theorems. *)

\* The inductive invariant: types alone do not suffice, since a secret is only
\* one if the reconcile that created it knew its project.
IInv == TypeOK /\ ProjectKnown /\ OnlyLastEnabled

LEMMA InitIInv == Init => IInv
<1> SUFFICES ASSUME Init PROVE IInv
  OBVIOUS
<1>1. ProjectKnown
  BY DEF Init, ProjectKnown, ProjectNeeded
<1>2. OnlyLastEnabled
  BY DEF Init, OnlyLastEnabled
<1> QED
  BY <1>1, <1>2, InitTypeOK DEF IInv

LEMMA NextIInv == IInv /\ [Next]_vars => IInv'
<1> SUFFICES ASSUME IInv, [Next]_vars PROVE IInv'
  OBVIOUS
<1>1. /\ KubeOK /\ UsersOK /\ PodsOK /\ FaultsOK /\ scw \in Seq(Secret)
      /\ TypeOK /\ ProjectKnown /\ PodsInv
  BY DEF IInv, TypeOK, PodsInv
<1>2. OnlyLastEnabled <=> OnlyLast(scw)
  BY DEF OnlyLastEnabled, OnlyLast
<1>3. OnlyLastEnabled' <=> OnlyLast(scw')
  BY DEF OnlyLastEnabled, OnlyLast
<1>4. OnlyLast(scw)
  BY <1>2 DEF IInv
<1> DEFINE Good == /\ KubeOK' /\ UsersOK' /\ PodsInv' /\ FaultsOK'
                   /\ scw' \in Seq(Secret) /\ OnlyLast(scw')
<1>5. SUFFICES Good
  BY <1>3, <1>5 DEF IInv, TypeOK, PodsInv
<1>6. ASSUME NEW p \in Pods,
             \/ Checks(p) \/ ReadRole(p) \/ ReadSource(p) \/ RevokeCreds(p)
             \/ Guard(p) \/ ReadProject(p) \/ ReadCreds(p) \/ Find(p) \/ DeleteCreds(p)
      PROVE  Good
  <2>1. UNCHANGED <<kube, users, scw>>
    BY <1>6 DEF Checks, ReadRole, ReadSource, RevokeCreds, Guard, ReadProject, ReadCreds,
                Find, DeleteCreds
  <2>2. PodsInv' /\ FaultsOK'
    BY <1>1, <1>6, ReadingStepsType
  <2> QED
    BY <1>1, <1>4, <2>1, <2>2, UnchangedKube, UnchangedUsers
<1>7. ASSUME NEW p \in Pods,
             \/ WriteRevoked(p) \/ WriteError(p) \/ AddFinalizer(p) \/ WritePreliminary(p)
             \/ WriteSynced(p) \/ WriteAlreadySynced(p) \/ RemoveFinalizer(p)
      PROVE  Good
  <2>1. UNCHANGED <<users, scw>>
    BY <1>7 DEF WriteRevoked, WriteError, AddFinalizer, WritePreliminary, WriteSynced,
                WriteAlreadySynced, RemoveFinalizer
  <2>2. KubeOK' /\ PodsInv' /\ FaultsOK'
    BY <1>1, <1>7, WritingStepsType
  <2> QED
    BY <1>1, <1>4, <2>1, <2>2, UnchangedUsers
<1>8. ASSUME NEW p \in Pods, Disabling(p) \/ Create(p) \/ CreateVersion(p) \/ Delete(p)
      PROVE  Good
  <2>1. UNCHANGED <<kube, users>>
    BY <1>8 DEF Disabling, Create, CreateVersion, Delete
  <2>2. /\ scw' \in Seq(Secret) /\ OnlyLast(scw')
        /\ PodsInv' /\ FaultsOK'
    BY <1>1, <1>4, <1>8, ScalewayStepsType
  <2> QED
    BY <1>1, <2>1, <2>2, UnchangedKube, UnchangedUsers
<1>9. ASSUME \/ \E p \in Pods : Start(p) \/ Deliver(p) \/ Crash(p)
             \/ EditSpec \/ DeleteCR \/ EditSource \/ EditNamespace
      PROVE  Good
  <2>1. TypeOK' /\ ProjectKnown' /\ UNCHANGED scw
    BY <1>1, <1>9, EnvironmentType
  <2> QED
    BY <1>4, <2>1 DEF TypeOK, PodsInv
<1>10. CASE UNCHANGED vars
  BY <1>1, <1>4, <1>10
  DEF vars, KubeOK, UsersOK, PodsInv, PodsOK, ProjectKnown, FaultsOK
<1> HIDE DEF Good
<1> QED
  BY <1>6, <1>7, <1>8, <1>9, <1>10 DEF Next, Reconcile

LEMMA Invariance == Spec => []IInv
<1>1. Init => IInv
  BY InitIInv
<1>2. IInv /\ [Next]_vars => IInv'
  BY NextIInv
<1> QED
  BY <1>1, <1>2, PTL DEF Spec

\* Type correctness: among others every status the reconciler writes is in one
\* of the four states, and every secret belongs to a project of the namespace.
THEOREM TypeCorrect == Spec => []TypeOK
<1>1. IInv => TypeOK
  BY DEF IInv
<1> QED
  BY <1>1, Invariance, PTL

\* At most the last version of each Scaleway secret is enabled, for any number
\* of pods that push to it and any number of failures (CreateAndSyncSecret and
\* PushNewVersion; issue #117).
THEOREM OneVersionEnabled == Spec => []OnlyLastEnabled
<1>1. IInv => OnlyLastEnabled
  BY DEF IInv
<1> QED
  BY <1>1, Invariance, PTL

=============================================================================
