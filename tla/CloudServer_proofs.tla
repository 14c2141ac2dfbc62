------------------------ MODULE CloudServer_proofs ------------------------
(***************************************************************************)
(* Proofs about CloudServer, for either kind, any configurations of the    *)
(* namespace, and any number of operations, faults and stale snapshots.    *)
(***************************************************************************)
EXTENDS CloudServer, SequenceTheorems, TLAPS

-----------------------------------------------------------------------------
(* Types of the values the steps build. *)

LEMMA NewCRType ==
  ASSUME NEW valid \in BOOLEAN
  PROVE  NewCR(valid) \in CR
  BY DEF NewCR, CR, NewStatus, Status, States, SyncStates, Messages, None

LEMMA JobForType ==
  ASSUME NEW cr \in CR
  PROVE  JobFor(cr) \in Job /\ JobFor(cr).cr = cr
  BY DEF JobFor, Job, CR, Status, Messages

LEMMA NoJobType == NoJob \in Job
  BY NewCRType, JobForType DEF NoJob

\* Every status that a reconcile writes is one.
LEMMA StatusTypes ==
  ASSUME NEW j \in Job
  PROVE  /\ ErrorStatus(j) \in Status
         /\ CreatedStatus(j) \in Status
         /\ SyncedStatus(j) \in Status
         /\ GoneStatus \in Status
         /\ BlockedStatus(j) \in Status
         /\ AuditStatus(j) \in Status
<1>1. j.cr.status \in Status /\ j.sid \in Nat /\ j.state \in States /\ j.msg \in Messages
  BY DEF Job, CR
<1>2. ErrorStatus(j) \in Status
  BY <1>1 DEF ErrorStatus, Status, SyncStates
<1>3. CreatedStatus(j) \in Status
  BY <1>1 DEF CreatedStatus, Status, SyncStates, States, ServerStates, Messages
<1>4. SyncedStatus(j) \in Status
  BY <1>1 DEF SyncedStatus, Status, SyncStates, Messages
<1>5. GoneStatus \in Status
  BY DEF GoneStatus, NewStatus, Status, SyncStates, States, Messages, None
<1>6. BlockedStatus(j) \in Status
  BY <1>1 DEF BlockedStatus, Status, SyncStates, Messages
<1>7. AuditStatus(j) \in Status
  BY <1>1 DEF AuditStatus, Status, SyncStates, Messages
<1> QED
  BY <1>2, <1>3, <1>4, <1>5, <1>6, <1>7

\* The servers after one of them changes.
LEMMA ChangeServer ==
  ASSUME NEW c \in Seq(Server), NEW s \in DOMAIN c, NEW e \in Server
  PROVE  /\ [c EXCEPT ![s] = e] \in Seq(Server)
         /\ DOMAIN [c EXCEPT ![s] = e] = DOMAIN c
         /\ \A t \in DOMAIN c : [c EXCEPT ![s] = e][t] = IF t = s THEN e ELSE c[t]
<1>1. s \in 1..Len(c) /\ DOMAIN c = 1..Len(c)
  BY LenProperties
<1> QED
  BY <1>1, ExceptSeq, LenProperties

-----------------------------------------------------------------------------
(* Types kept by the control flow and by the calls. *)

LEMMA FaultType ==
  ASSUME faults \in 0..MaxFaults, Fault \/ NoFault
  PROVE  faults' \in 0..MaxFaults
  BY ServerAssumption DEF Fault, NoFault

LEMMA GotoType ==
  ASSUME JobOK, NEW step \in Steps, NEW j \in Job, Goto(step, j)
  PROVE  JobOK'
  BY DEF JobOK, Goto

LEMMA ReturnType ==
  ASSUME JobOK, NEW again \in BOOLEAN, Return(again)
  PROVE  JobOK'
  BY NoJobType DEF JobOK, Return, Steps

LEMMA FailType ==
  ASSUME JobOK, NEW err, Fail(err)
  PROVE  JobOK'
<1>1. Requeues(err) \in BOOLEAN
  BY DEF Requeues, HasRecheckInterval, IsPermanent
<1> QED
  BY <1>1, ReturnType DEF Fail

LEMMA FailWithStatusType ==
  ASSUME JobOK, NEW err \in Errors, NEW msg \in Messages, FailWithStatus(job, err, msg)
  PROVE  JobOK'
<1>1. [job EXCEPT !.err = err, !.msg = msg] \in Job
  BY DEF JobOK, Job
<1> QED
  BY <1>1, GotoType DEF FailWithStatus, Steps

LEMMA StoreType ==
  ASSUME KubeOK, NEW new \in CR, Store(new)
  PROVE  KubeOK'
<1>1. Append(feed, new) \in Seq(CR) /\ Append(feed, new) # <<>>
  BY AppendProperties DEF KubeOK
<1> QED
  BY <1>1 DEF KubeOK, Store

LEMMA UnchangedKube ==
  ASSUME KubeOK, UNCHANGED kube
  PROVE  KubeOK'
  BY DEF KubeOK, kube

LEMMA PatchType ==
  ASSUME KubeOK, faults \in 0..MaxFaults, NEW new \in CR, NEW ok, Patch(new, ok)
  PROVE  KubeOK' /\ faults' \in 0..MaxFaults
<1>1. Store(new) \/ UNCHANGED kube
  BY DEF Patch
<1>2. Fault \/ NoFault
  BY DEF Patch
<1> QED
  BY <1>1, <1>2, StoreType, UnchangedKube, FaultType

LEMMA PatchStatusType ==
  ASSUME KubeOK, faults \in 0..MaxFaults, NEW status \in Status, NEW ok,
         PatchStatus(status, ok)
  PROVE  KubeOK' /\ faults' \in 0..MaxFaults
<1>1. [live EXCEPT !.status = status] \in CR
  BY DEF KubeOK, CR
<1> QED
  BY <1>1, PatchType DEF PatchStatus

LEMMA CredsReadType ==
  ASSUME faults \in 0..MaxFaults, NEW err, CredsRead(err)
  PROVE  faults' \in 0..MaxFaults
  BY FaultType DEF CredsRead

LEMMA GaugeType ==
  ASSUME NEW g \in [States -> Int], NEW s \in States
  PROVE  Inc(g, s) \in [States -> Int] /\ Dec(g, s) \in [States -> Int]
  BY DEF Inc, Dec

-----------------------------------------------------------------------------
(* Types kept by the steps. *)

\* What is left to show of a step that does not touch kind, ns and ops.
LEMMA StepType ==
  ASSUME TypeOK, UNCHANGED world, KubeOK', JobOK', CloudOK',
         faults' \in 0..MaxFaults, stale' \in 0..MaxStale
  PROVE  TypeOK'
  BY DEF TypeOK, world

\* The steps that only read leave the API server and Scaleway alone.
LEMMA ReadingStepsType ==
  ASSUME TypeOK,
         \/ Start \/ ReadRole \/ ReadProject \/ ReadCreds \/ VerifyProjectAccess
         \/ Find \/ Get \/ DeleteCreds
  PROVE  TypeOK'
<1>1. /\ KubeOK /\ JobOK /\ CloudOK /\ faults \in 0..MaxFaults /\ stale \in 0..MaxStale
      /\ cloud \in Seq(Server) /\ gauge \in [States -> Int]
  BY DEF TypeOK, CloudOK
<1>2. job \in Job /\ job.cr \in CR /\ job.cr.status.state \in States
  BY <1>1 DEF JobOK, Job, CR, Status
<1>3. UNCHANGED <<kube, world, cloud>>
  BY DEF Start, ReadRole, ReadProject, ReadCreds, VerifyProjectAccess, Find, Get, DeleteCreds
<1>4. faults' \in 0..MaxFaults
  BY <1>1, FaultType, CredsReadType
  DEF Start, ReadRole, ReadProject, ReadCreds, VerifyProjectAccess, Find, Get, DeleteCreds
<1>5. SUFFICES JobOK' /\ gauge' \in [States -> Int] /\ stale' \in 0..MaxStale
  BY <1>1, <1>3, <1>4, <1>5, UnchangedKube, StepType DEF CloudOK
<1>6. CASE Start
  <2>1. Head(feed) \in CR
    BY <1>1, HeadTailProperties DEF KubeOK
  <2>2. JobOK'
    BY <1>1, <1>6, <2>1, JobForType DEF Start, JobOK, Steps
  <2>3. stale' \in 0..MaxStale
    BY <1>1, <1>6, ServerAssumption DEF Start
  <2>4. UNCHANGED gauge
    BY <1>6 DEF Start
  <2> QED
    BY <1>1, <2>2, <2>3, <2>4
<1>7. CASE ReadRole
  <2>1. [job EXCEPT !.writes = ns.role = "Editor"] \in Job
    BY <1>2 DEF Job
  <2>2. JobOK'
    BY <1>1, <1>7, <2>1, GotoType, FailWithStatusType
    DEF ReadRole, Steps, Errors, PermanentErrors, Messages
  <2> QED
    BY <1>1, <1>7, <2>2 DEF ReadRole
<1>8. CASE ReadProject
  <2>1. FirstCall(job.cr) \in Steps
    BY DEF FirstCall, Steps
  <2>2. JobOK'
    BY <1>1, <1>2, <1>8, <2>1, GotoType, FailType, FailWithStatusType
    DEF ReadProject, Steps, Errors, PermanentErrors, Messages
  <2> QED
    BY <1>1, <1>8, <2>2 DEF ReadProject
<1>9. CASE ReadCreds
  <2>1. PICK err \in {"none", "ConfigError", "KubeError"} :
           IF err = "none"
           THEN Goto(FirstCall(job.cr), job)
           ELSE FailWithStatus(job, err, IF err = "KubeError" THEN err ELSE "creds")
    BY <1>9 DEF ReadCreds
  <2>2. FirstCall(job.cr) \in Steps
    BY DEF FirstCall, Steps
  <2>3. JobOK'
    BY <1>1, <1>2, <2>1, <2>2, GotoType, FailWithStatusType
    DEF Errors, PermanentErrors, Messages
  <2> QED
    BY <1>1, <1>9, <2>3 DEF ReadCreds
<1>10. CASE VerifyProjectAccess
  <2>1. JobOK'
    BY <1>1, <1>2, <1>10, GotoType, FailType DEF VerifyProjectAccess, Steps
  <2> QED
    BY <1>1, <1>10, <2>1 DEF VerifyProjectAccess
<1>11. CASE Find
  <2>1. gauge' \in [States -> Int]
    BY <1>1, <1>11, GaugeType DEF Find, States, ServerStates
  <2>2. \A t \in ServersToAdopt : [job EXCEPT !.sid = t] \in Job
    <3>1. SUFFICES ASSUME NEW t \in ServersToAdopt
                   PROVE  [job EXCEPT !.sid = t] \in Job
      OBVIOUS
    <3>2. t \in Nat
      BY <1>1, <3>1, LenProperties DEF ServersToAdopt
    <3> QED
      BY <1>2, <3>2 DEF Job
  <2>3. JobOK'
    BY <1>1, <1>2, <1>11, <2>2, GotoType, FailType DEF Find, Steps
  <2> QED
    BY <1>1, <1>11, <2>1, <2>3 DEF Find
<1>12. CASE Get
  <2>1. IsAlive(job.sid) => cloud[job.sid].state \in States
    <3>1. SUFFICES ASSUME IsAlive(job.sid) PROVE cloud[job.sid].state \in States
      OBVIOUS
    <3>2. job.sid \in 1..Len(cloud)
      BY <1>1, <3>1, LenProperties DEF IsAlive
    <3>3. cloud[job.sid] \in Server
      BY <1>1, <3>2, ElementOfSeq
    <3> QED
      BY <3>3 DEF Server, States
  <2>2. \A t \in States : /\ Dec(gauge, job.cr.status.state) \in [States -> Int]
                          /\ Inc(Dec(gauge, job.cr.status.state), t) \in [States -> Int]
    BY <1>1, <1>2, GaugeType
  <2>3. gauge' \in [States -> Int]
    <3>1. CASE UNCHANGED gauge
      BY <1>1, <3>1
    <3>2. CASE /\ IsAlive(job.sid)
               /\ gauge' = Inc(Dec(gauge, job.cr.status.state), cloud[job.sid].state)
      BY <2>1, <2>2, <3>2
    <3>3. CASE gauge' = Dec(gauge, job.cr.status.state)
      <4>1. PICK t \in States : TRUE
        BY <1>2
      <4> QED
        BY <2>2, <3>3, <4>1
    <3> QED
      BY <1>12, <3>1, <3>2, <3>3 DEF Get
  <2>4. [job EXCEPT !.err = "ScalewayError", !.msg = "ScalewayError"] \in Job
    BY <1>2 DEF Job, Errors, Messages
  <2>5. IsAlive(job.sid) => [job EXCEPT !.state = cloud[job.sid].state] \in Job
    BY <1>2, <2>1 DEF Job
  <2>6. JobOK'
    BY <1>1, <1>2, <1>12, <2>4, <2>5, GotoType DEF Get, Steps
  <2> QED
    BY <1>1, <1>12, <2>3, <2>6 DEF Get
<1>13. CASE DeleteCreds
  <2>1. JobOK'
    BY <1>1, <1>2, <1>13, GotoType DEF DeleteCreds, Steps
  <2> QED
    BY <1>1, <1>13, <2>1 DEF DeleteCreds
<1> QED
  BY <1>6, <1>7, <1>8, <1>9, <1>10, <1>11, <1>12, <1>13

\* The steps that write the CR leave Scaleway alone.
LEMMA WritingStepsType ==
  ASSUME TypeOK,
         \/ AddFinalizer \/ WriteCreated \/ WriteSynced \/ WriteGone \/ WriteError
         \/ WriteFailure \/ WriteBlocked \/ WriteAudit \/ RemoveFinalizer
  PROVE  TypeOK'
<1>1. /\ KubeOK /\ JobOK /\ CloudOK /\ faults \in 0..MaxFaults /\ stale \in 0..MaxStale
      /\ cloud \in Seq(Server) /\ gauge \in [States -> Int]
  BY DEF TypeOK, CloudOK
<1>2. job \in Job /\ job.cr.status.state \in States /\ live \in CR
  BY <1>1 DEF JobOK, KubeOK, Job, CR, Status
<1>3. UNCHANGED <<world, cloud, stale>>
  BY DEF AddFinalizer, WriteCreated, WriteSynced, WriteGone, WriteError, WriteFailure,
         WriteBlocked, WriteAudit, RemoveFinalizer
<1>4. KubeOK' /\ faults' \in 0..MaxFaults
  <2>1. /\ [live EXCEPT !.finalizer = TRUE] \in CR
        /\ [live EXCEPT !.finalizer = FALSE, !.exists = ~live.deleting] \in CR
    BY <1>2 DEF CR
  <2>2. CASE AddFinalizer \/ RemoveFinalizer
    BY <1>1, <2>1, <2>2, PatchType DEF AddFinalizer, RemoveFinalizer
  <2>3. CASE \/ WriteCreated \/ WriteSynced \/ WriteGone \/ WriteError
             \/ WriteFailure \/ WriteBlocked \/ WriteAudit
    BY <1>1, <1>2, <2>3, StatusTypes, PatchStatusType
    DEF WriteCreated, WriteSynced, WriteGone, WriteError, WriteFailure, WriteBlocked,
        WriteAudit
  <2> QED
    BY <2>2, <2>3
<1>5. JobOK'
  BY <1>1, <1>2, GotoType, ReturnType, FailType
  DEF AddFinalizer, WriteCreated, WriteSynced, WriteGone, WriteError, WriteFailure,
      WriteBlocked, WriteAudit, RemoveFinalizer, Steps
<1>6. gauge' \in [States -> Int]
  BY <1>1, <1>2, GaugeType
  DEF AddFinalizer, WriteCreated, WriteSynced, WriteGone, WriteError, WriteFailure,
      WriteBlocked, WriteAudit, RemoveFinalizer
<1> QED
  BY <1>1, <1>3, <1>4, <1>5, <1>6, StepType DEF CloudOK

\* The servers after a creation and after a deletion.
NewServer == [alive |-> TRUE, state |-> "pending"]
WithNew == Append(cloud, NewServer)
Without(s) == [cloud EXCEPT ![s].alive = FALSE]

LEMMA WithNewType ==
  ASSUME cloud \in Seq(Server)
  PROVE  /\ WithNew \in Seq(Server)
         /\ DOMAIN WithNew = DOMAIN cloud \cup {Len(cloud) + 1}
         /\ \A s \in DOMAIN cloud : WithNew[s] = cloud[s]
         /\ Len(cloud) + 1 \in Nat \ DOMAIN cloud
<1>1. NewServer \in Server
  BY DEF NewServer, Server, ServerStates
<1> QED
  BY <1>1, AppendProperties, LenProperties DEF WithNew

LEMMA WithoutType ==
  ASSUME cloud \in Seq(Server), NEW s \in DOMAIN cloud
  PROVE  /\ Without(s) \in Seq(Server)
         /\ DOMAIN Without(s) = DOMAIN cloud
         /\ \A t \in DOMAIN cloud : Without(s)[t].alive => cloud[t].alive
<1> DEFINE e == [cloud[s] EXCEPT !.alive = FALSE]
<1>1. cloud[s] \in Server
  BY LenProperties, ElementOfSeq
<1>2. e \in Server /\ ~e.alive
  BY <1>1 DEF Server
<1>3. Without(s) = [cloud EXCEPT ![s] = e]
  BY DEF Without
<1> HIDE DEF e
<1> QED
  BY <1>2, <1>3, ChangeServer

\* The steps that change Scaleway leave the CR alone.
LEMMA ScalewayStepsType ==
  ASSUME TypeOK, Create \/ Delete
  PROVE  /\ TypeOK'
         /\ Create => cloud' \in {cloud, WithNew}
         /\ Delete => cloud' = cloud \/ (IsAlive(job.sid) /\ cloud' = Without(job.sid))
<1>1. /\ KubeOK /\ JobOK /\ CloudOK /\ faults \in 0..MaxFaults /\ stale \in 0..MaxStale
      /\ cloud \in Seq(Server) /\ gauge \in [States -> Int] /\ job \in Job
  BY DEF TypeOK, CloudOK, JobOK
<1>2. UNCHANGED <<kube, world, stale>>
  BY DEF Create, Delete
<1>3. faults' \in 0..MaxFaults
  BY <1>1, FaultType DEF Create, Delete, ScalewayCall
<1>4. CASE Create
  <2>1. cloud' \in {cloud, WithNew}
    BY <1>4 DEF Create, ScalewayCall, WithNew, NewServer
  <2>2. cloud' \in Seq(Server)
    BY <1>1, <2>1, WithNewType
  <2>3. /\ [job EXCEPT !.err = "ScalewayError", !.msg = "ScalewayError"] \in Job
        /\ [job EXCEPT !.sid = Len(cloud) + 1] \in Job
    BY <1>1, WithNewType DEF Job, Errors, Messages
  <2>4. JobOK'
    BY <1>1, <1>4, <2>3, GotoType DEF Create, Steps
  <2>5. gauge' \in [States -> Int]
    BY <1>1, <1>4, GaugeType DEF Create, States, ServerStates
  <2>6. ~Delete
    BY <1>4 DEF Create, Delete
  <2> QED
    BY <1>1, <1>2, <1>3, <2>1, <2>2, <2>4, <2>5, <2>6, UnchangedKube, StepType DEF CloudOK
<1>5. CASE Delete
  <2>1. cloud' = cloud \/ (IsAlive(job.sid) /\ cloud' = Without(job.sid))
    BY <1>5 DEF Delete, ScalewayCall, Without
  <2>2. cloud' \in Seq(Server)
    BY <1>1, <2>1, WithoutType DEF IsAlive
  <2>3. JobOK'
    BY <1>1, <1>5, GotoType, FailType DEF Delete, Steps
  <2>4. UNCHANGED gauge
    BY <1>5 DEF Delete
  <2>5. ~Create
    BY <1>5 DEF Create, Delete
  <2> QED
    BY <1>1, <1>2, <1>3, <2>1, <2>2, <2>3, <2>4, <2>5, UnchangedKube, StepType DEF CloudOK
<1> QED
  BY <1>4, <1>5

\* What happens outside a reconcile; of Scaleway, a server only changes state or
\* disappears.
LEMMA EnvironmentType ==
  ASSUME TypeOK,
         Deliver \/ Crash \/ DeleteCR \/ EditNamespace \/ BecomeReady \/ Disappear
  PROVE  /\ TypeOK'
         /\ DOMAIN cloud' = DOMAIN cloud
         /\ \A s \in DOMAIN cloud : cloud'[s].alive => cloud[s].alive
<1>1. /\ KubeOK /\ JobOK /\ CloudOK /\ faults \in 0..MaxFaults /\ stale \in 0..MaxStale
      /\ cloud \in Seq(Server) /\ gauge \in [States -> Int] /\ job \in Job
      /\ live \in CR /\ feed \in Seq(CR) /\ ops \in 0..MaxOps
      /\ kind \in Kinds /\ ns \in Namespaces
  BY DEF TypeOK, CloudOK, JobOK, KubeOK
<1>2. CASE Deliver
  <2>1. 2 \in 1..Len(feed)
    BY <1>1, <1>2, LenProperties DEF Deliver
  <2>2. feed[2] \in CR
    BY <1>1, <2>1, ElementOfSeq
  <2>3. Tail(feed) \in Seq(CR) /\ Len(Tail(feed)) = Len(feed) - 1
    BY <1>1, <1>2, HeadTailProperties, EmptySeq DEF Deliver
  <2>4. Tail(feed) # <<>>
    <3>1. Len(feed) \in Nat /\ Len(feed) > 1
      BY <1>1, <1>2, LenProperties DEF Deliver
    <3> DEFINE n == Len(Tail(feed))
               m == Len(feed)
    <3>2. n # 0
      <4>1. n = m - 1 /\ m \in Nat /\ m > 1
        BY <2>3, <3>1
      <4> HIDE DEF n, m
      <4> QED
        BY <4>1
    <3> QED
      BY <3>2, EmptySeq
  <2>5. KubeOK'
    BY <1>1, <1>2, <2>3, <2>4 DEF Deliver, KubeOK
  <2>6. JobOK'
    BY <1>1, <1>2, <2>2 DEF Deliver, JobOK, CR
  <2> QED
    BY <1>1, <1>2, <2>5, <2>6, StepType DEF Deliver, CloudOK
<1>3. CASE Crash
  <2>1. KubeOK'
    BY <1>1, <1>3 DEF Crash, KubeOK
  <2>2. JobOK'
    BY <1>1, <1>3, NoJobType DEF Crash, JobOK, Steps, CR
  <2>3. faults' \in 0..MaxFaults
    BY <1>1, <1>3, FaultType DEF Crash
  <2> QED
    BY <1>1, <1>3, <2>1, <2>2, <2>3, StepType DEF Crash, CloudOK
<1>4. CASE DeleteCR
  <2>1. [live EXCEPT !.deleting = TRUE, !.exists = live.finalizer] \in CR
    BY <1>1 DEF CR
  <2>2. KubeOK'
    BY <1>1, <1>4, <2>1, StoreType DEF DeleteCR
  <2>3. ops' \in 0..MaxOps
    BY <1>1, <1>4, ServerAssumption DEF DeleteCR, WorldOp
  <2> QED
    BY <1>1, <1>4, <2>2, <2>3 DEF DeleteCR, TypeOK, CloudOK, JobOK
<1>5. CASE EditNamespace
  <2>1. KubeOK'
    BY <1>1, <1>5, UnchangedKube DEF EditNamespace
  <2>2. ops' \in 0..MaxOps
    BY <1>1, <1>5, ServerAssumption DEF EditNamespace, WorldOp
  <2> QED
    BY <1>1, <1>5, <2>1, <2>2 DEF EditNamespace, TypeOK, CloudOK, JobOK
<1>6. CASE BecomeReady
  <2>1. PICK s \in DOMAIN cloud :
           /\ cloud[s] = [alive |-> TRUE, state |-> "pending"]
           /\ cloud' = [cloud EXCEPT ![s] = [cloud[s] EXCEPT !.state = "ready"]]
    BY <1>6 DEF BecomeReady
  <2>2. [cloud[s] EXCEPT !.state = "ready"] \in Server
    <3>1. cloud[s] \in Server
      BY <1>1, <2>1, LenProperties, ElementOfSeq
    <3> QED
      BY <3>1 DEF Server, ServerStates
  <2>3. /\ cloud' \in Seq(Server) /\ DOMAIN cloud' = DOMAIN cloud
        /\ \A t \in DOMAIN cloud : cloud'[t].alive => cloud[t].alive
    BY <1>1, <2>1, <2>2, ChangeServer
  <2>4. KubeOK'
    BY <1>1, <1>6, UnchangedKube DEF BecomeReady
  <2> QED
    BY <1>1, <1>6, <2>3, <2>4 DEF BecomeReady, TypeOK, CloudOK, JobOK
<1>7. CASE Disappear
  <2>1. PICK s \in DOMAIN cloud : cloud' = Without(s)
    BY <1>7 DEF Disappear, Without
  <2>2. /\ cloud' \in Seq(Server) /\ DOMAIN cloud' = DOMAIN cloud
        /\ \A t \in DOMAIN cloud : cloud'[t].alive => cloud[t].alive
    BY <1>1, <2>1, WithoutType
  <2>3. ops' \in 0..MaxOps
    BY <1>1, <1>7, ServerAssumption DEF Disappear, WorldOp
  <2>4. KubeOK'
    BY <1>1, <1>7, UnchangedKube DEF Disappear
  <2> QED
    BY <1>1, <1>7, <2>2, <2>3, <2>4 DEF Disappear, TypeOK, CloudOK, JobOK
<1> QED
  BY <1>2, <1>3, <1>4, <1>5, <1>6, <1>7

LEMMA InitType == Init => TypeOK
<1> SUFFICES ASSUME Init PROVE TypeOK
  OBVIOUS
<1>1. live \in CR
  BY NewCRType DEF Init
<1>2. KubeOK
  BY <1>1 DEF Init, KubeOK
<1>3. JobOK
  BY NoJobType DEF Init, JobOK, Steps
<1>4. CloudOK
  BY EmptySeq DEF Init, CloudOK
<1> QED
  BY <1>2, <1>3, <1>4, ServerAssumption DEF Init, TypeOK

LEMMA NextType == TypeOK /\ [Next]_vars => TypeOK'
<1> SUFFICES ASSUME TypeOK, [Next]_vars PROVE TypeOK'
  OBVIOUS
<1>1. CASE Reconcile
  BY <1>1, ReadingStepsType, WritingStepsType, ScalewayStepsType DEF Reconcile
<1>2. CASE Deliver \/ Crash \/ DeleteCR \/ EditNamespace \/ BecomeReady \/ Disappear
  BY <1>2, EnvironmentType
<1>3. CASE UNCHANGED vars
  BY <1>3 DEF vars, TypeOK, KubeOK, JobOK, CloudOK
<1> QED
  BY <1>1, <1>2, <1>3 DEF Next

-----------------------------------------------------------------------------
(* What snapshots know of the CR, which never loses its finalizer while it *)
(* exists, nor its deletion mark.                                          *)

Behind(cr, later) ==
    /\ cr.finalizer /\ later.exists => later.finalizer
    /\ cr.deleting => later.deleting
SnapshotsBehind == Behind(job.cr, live) /\ \A i \in DOMAIN feed : Behind(feed[i], live)

\* What a step of a reconcile takes for granted of its snapshot.
StepKnows ==
    /\ pc \in {"creds", "verify", "find", "create"} => job.cr.finalizer
    /\ pc \in {"deleteCreds", "delete", "writeAudit", "removeFinalizer"} => job.cr.deleting
    /\ pc \in {"role", "project", "creds", "get", "writeSynced"}
           => job.sid = job.cr.status.sid

\* A creation comes after a search that found nothing, and a status read back is about
\* the server that runs, if any.
NothingToFind == pc = "create" => \A s \in DOMAIN cloud : ~cloud[s].alive
FollowsTheOne ==
    pc = "writeSynced" => \A s \in DOMAIN cloud : cloud[s].alive => s = job.sid

IInv ==
    /\ TypeOK /\ SnapshotsBehind /\ StepKnows /\ NothingToFind /\ FollowsTheOne
    /\ AtMostOneServer /\ FinalizerBeforeServer

\* How a step moves the CR ...
Forward ==
    /\ live.deleting => live'.deleting
    /\ live'.exists => live.exists /\ (live.finalizer => live'.finalizer)

LEMMA StepForward ==
  ASSUME TypeOK, SnapshotsBehind, StepKnows, [Next]_vars
  PROVE  Forward
<1>1. live \in CR /\ job.cr \in CR
  BY DEF TypeOK, KubeOK, JobOK, Job
<1>2. CASE AddFinalizer
  BY <1>1, <1>2 DEF AddFinalizer, Patch, Store, kube, Forward, CR
<1>3. CASE RemoveFinalizer
  <2>1. live.deleting
    BY <1>3 DEF RemoveFinalizer, StepKnows, SnapshotsBehind, Behind
  <2> QED
    BY <1>1, <1>3, <2>1 DEF RemoveFinalizer, Patch, Store, kube, Forward, CR
<1>4. CASE \/ WriteCreated \/ WriteSynced \/ WriteGone \/ WriteError
           \/ WriteFailure \/ WriteBlocked \/ WriteAudit
  <2>1. \E status : live' = live \/ live' = [live EXCEPT !.status = status]
    BY <1>4 DEF WriteCreated, WriteSynced, WriteGone, WriteError, WriteFailure, WriteBlocked,
                WriteAudit, PatchStatus, Patch, Store, kube
  <2> QED
    BY <1>1, <2>1 DEF Forward, CR
<1>5. CASE DeleteCR
  BY <1>1, <1>5 DEF DeleteCR, Store, Forward, CR
<1>6. CASE \/ Start \/ ReadRole \/ ReadProject \/ ReadCreds \/ VerifyProjectAccess
           \/ Find \/ Get \/ DeleteCreds \/ Create \/ Delete
           \/ Deliver \/ Crash \/ EditNamespace \/ BecomeReady \/ Disappear
           \/ UNCHANGED vars
  <2>1. live' = live
    BY <1>6 DEF Start, ReadRole, ReadProject, ReadCreds, VerifyProjectAccess, Find, Get,
                DeleteCreds, Create, Delete, Deliver, Crash, EditNamespace, BecomeReady,
                Disappear, vars, kube
  <2> QED
    BY <2>1 DEF Forward
<1> QED
  BY <1>2, <1>3, <1>4, <1>5, <1>6 DEF Next, Reconcile

\* ... the snapshots on their way ...
LEMMA StepFeed ==
  ASSUME TypeOK, [Next]_vars
  PROVE  \A i \in DOMAIN feed' :
             feed'[i] = live' \/ \E k \in DOMAIN feed : feed'[i] = feed[k]
<1>1. feed \in Seq(CR) /\ feed # <<>> /\ live \in CR
  BY DEF TypeOK, KubeOK
<1>2. CASE feed' = feed
  BY <1>2
<1>3. ASSUME NEW new, live' = new, feed' = Append(feed, new)
      PROVE  \A i \in DOMAIN feed' :
                 feed'[i] = live' \/ \E k \in DOMAIN feed : feed'[i] = feed[k]
  <2>1. new \in CR
    BY <1>3, NextType DEF TypeOK, KubeOK
  <2> QED
    BY <1>1, <1>3, <2>1, AppendProperties, LenProperties
<1>4. CASE Deliver
  <2>1. feed' = Tail(feed)
    BY <1>4 DEF Deliver
  <2>2. /\ Len(feed) \in Nat /\ DOMAIN feed = 1..Len(feed)
        /\ Tail(feed) \in Seq(CR) /\ Len(Tail(feed)) = Len(feed) - 1
        /\ DOMAIN Tail(feed) = 1..Len(Tail(feed))
        /\ \A i \in 1..Len(Tail(feed)) : Tail(feed)[i] = feed[i + 1]
    BY <1>1, HeadTailProperties, LenProperties
  <2>3. SUFFICES ASSUME NEW i \in DOMAIN feed' PROVE feed'[i] = feed[i + 1] /\ i + 1 \in DOMAIN feed
    BY <2>3
  <2> QED
    BY <2>1, <2>2, <2>3
<1>5. CASE Crash
  BY <1>5 DEF Crash
<1>6. CASE \/ AddFinalizer \/ WriteCreated \/ WriteSynced \/ WriteGone \/ WriteError
           \/ WriteFailure \/ WriteBlocked \/ WriteAudit \/ RemoveFinalizer \/ DeleteCR
  <2>1. PICK new : Store(new) \/ UNCHANGED kube
    BY <1>6 DEF AddFinalizer, WriteCreated, WriteSynced, WriteGone, WriteError, WriteFailure,
                WriteBlocked, WriteAudit, RemoveFinalizer, DeleteCR, PatchStatus, Patch
  <2> QED
    BY <1>2, <1>3, <2>1 DEF Store, kube
<1>7. CASE \/ Start \/ ReadRole \/ ReadProject \/ ReadCreds \/ VerifyProjectAccess
           \/ Find \/ Get \/ DeleteCreds \/ Create \/ Delete
           \/ EditNamespace \/ BecomeReady \/ Disappear \/ UNCHANGED vars
  BY <1>2, <1>7 DEF Start, ReadRole, ReadProject, ReadCreds, VerifyProjectAccess, Find, Get,
                    DeleteCreds, Create, Delete, EditNamespace, BecomeReady, Disappear, vars, kube
<1> QED
  BY <1>4, <1>5, <1>6, <1>7 DEF Next, Reconcile

\* ... and the snapshot of the reconcile under way.
LEMMA StepJob ==
  ASSUME TypeOK, [Next]_vars
  PROVE  \/ job' = NoJob
         \/ job'.cr = job.cr
         \/ \E k \in DOMAIN feed : job'.cr = feed[k]
<1>1. job \in Job /\ feed \in Seq(CR) /\ feed # <<>>
  BY DEF TypeOK, KubeOK, JobOK
<1>2. CASE Start
  <2>1. Head(feed) = feed[1] /\ 1 \in DOMAIN feed /\ Head(feed) \in CR
    BY <1>1, HeadTailProperties, LenProperties, EmptySeq
  <2> QED
    BY <1>2, <2>1, JobForType DEF Start
<1>3. CASE \/ ReadRole \/ ReadProject \/ ReadCreds \/ VerifyProjectAccess
           \/ Find \/ Get \/ DeleteCreds \/ Create \/ Delete
  BY <1>1, <1>3 DEF ReadRole, ReadProject, ReadCreds, VerifyProjectAccess, Find, Get,
                    DeleteCreds, Create, Delete, Goto, Return, Fail, FailWithStatus, Job
<1>4. CASE \/ AddFinalizer \/ WriteCreated \/ WriteSynced \/ WriteGone \/ WriteError
           \/ WriteFailure \/ WriteBlocked \/ WriteAudit \/ RemoveFinalizer
  BY <1>4 DEF AddFinalizer, WriteCreated, WriteSynced, WriteGone, WriteError, WriteFailure,
              WriteBlocked, WriteAudit, RemoveFinalizer, Goto, Return, Fail
<1>5. CASE \/ Deliver \/ Crash \/ DeleteCR \/ EditNamespace \/ BecomeReady \/ Disappear
           \/ UNCHANGED vars
  BY <1>5 DEF Deliver, Crash, DeleteCR, EditNamespace, BecomeReady, Disappear, vars
<1> QED
  BY <1>2, <1>3, <1>4, <1>5 DEF Next, Reconcile

LEMMA NextSnapshotsBehind ==
  ASSUME IInv, [Next]_vars
  PROVE  SnapshotsBehind'
<1>1. TypeOK /\ SnapshotsBehind /\ StepKnows
  BY DEF IInv
<1>2. Forward
  BY <1>1, StepForward
<1>3. ASSUME NEW cr, Behind(cr, live) PROVE Behind(cr, live')
  BY <1>2, <1>3 DEF Behind, Forward
<1>4. ASSUME NEW i \in DOMAIN feed' PROVE Behind(feed'[i], live')
  <2>1. CASE feed'[i] = live'
    BY <2>1 DEF Behind
  <2>2. ASSUME NEW k \in DOMAIN feed, feed'[i] = feed[k] PROVE Behind(feed'[i], live')
    BY <1>1, <1>3, <2>2 DEF SnapshotsBehind
  <2> QED
    BY <1>1, <1>4, <2>1, <2>2, StepFeed
<1>5. Behind(job'.cr, live')
  <2>1. CASE job' = NoJob
    BY <2>1 DEF NoJob, JobFor, NewCR, Behind
  <2>2. CASE job'.cr = job.cr
    BY <1>1, <1>3, <2>2 DEF SnapshotsBehind
  <2>3. ASSUME NEW k \in DOMAIN feed, job'.cr = feed[k] PROVE Behind(job'.cr, live')
    BY <1>1, <1>3, <2>3 DEF SnapshotsBehind
  <2> QED
    BY <1>1, <2>1, <2>2, <2>3, StepJob
<1> QED
  BY <1>4, <1>5 DEF SnapshotsBehind

-----------------------------------------------------------------------------
(* The steps of a reconcile, and the servers. *)

LEMMA NextStepKnows ==
  ASSUME IInv, [Next]_vars
  PROVE  StepKnows'
<1>1. StepKnows /\ job \in Job
  BY DEF IInv, TypeOK, JobOK
<1>2. CASE Start
  <2>1. Head(feed) \in CR
    BY HeadTailProperties DEF IInv, TypeOK, KubeOK
  <2>2. JobFor(Head(feed)).cr = Head(feed) /\ JobFor(Head(feed)).sid = Head(feed).status.sid
    BY DEF JobFor
  <2>3. CASE UNCHANGED <<pc, job>>
    BY <1>1, <2>3 DEF StepKnows
  <2>4. CASE job' = JobFor(Head(feed)) /\ pc' = "role"
    BY <2>2, <2>4 DEF StepKnows
  <2>5. CASE /\ job' = JobFor(Head(feed)) /\ Head(feed).deleting
             /\ pc' \in {"deleteCreds", "removeFinalizer"}
    BY <2>2, <2>5 DEF StepKnows
  <2> QED
    BY <1>2, <2>3, <2>4, <2>5 DEF Start
<1>3. CASE ReadProject
  BY <1>1, <1>3
  DEF ReadProject, DecideNextAction, FirstCall, Goto, Fail, FailWithStatus, Return, StepKnows
<1>4. CASE ReadCreds
  BY <1>1, <1>4 DEF ReadCreds, FirstCall, Goto, FailWithStatus, StepKnows
<1>5. CASE ReadRole \/ VerifyProjectAccess \/ Find \/ Get \/ DeleteCreds \/ Create \/ Delete
  BY <1>1, <1>5 DEF ReadRole, VerifyProjectAccess, Find, Get, DeleteCreds, Create, Delete,
                    Goto, Return, Fail, FailWithStatus, StepKnows, Job
<1>6. CASE \/ AddFinalizer \/ WriteCreated \/ WriteSynced \/ WriteGone \/ WriteError
           \/ WriteFailure \/ WriteBlocked \/ WriteAudit \/ RemoveFinalizer
  BY <1>1, <1>6 DEF AddFinalizer, WriteCreated, WriteSynced, WriteGone, WriteError,
                    WriteFailure, WriteBlocked, WriteAudit, RemoveFinalizer,
                    Goto, Return, Fail, StepKnows
<1>7. CASE \/ Deliver \/ Crash \/ DeleteCR \/ EditNamespace \/ BecomeReady \/ Disappear
           \/ UNCHANGED vars
  BY <1>1, <1>7 DEF Deliver, Crash, DeleteCR, EditNamespace, BecomeReady, Disappear, vars,
                    StepKnows
<1> QED
  BY <1>2, <1>3, <1>4, <1>5, <1>6, <1>7 DEF Next, Reconcile

\* Only a creation brings a server to life.
LEMMA StepServers ==
  ASSUME TypeOK, [Next]_vars
  PROVE  \/ \A s \in DOMAIN cloud' :
                cloud'[s].alive => s \in DOMAIN cloud /\ cloud[s].alive
         \/ Create /\ cloud' = WithNew
<1>1. cloud \in Seq(Server) /\ job \in Job
  BY DEF TypeOK, CloudOK, JobOK
<1>2. CASE Create
  BY <1>2, ScalewayStepsType
<1>3. CASE Delete
  BY <1>1, <1>3, ScalewayStepsType, WithoutType DEF IsAlive
<1>4. CASE Deliver \/ Crash \/ DeleteCR \/ EditNamespace \/ BecomeReady \/ Disappear
  BY <1>4, EnvironmentType
<1>5. CASE \/ Start \/ ReadRole \/ ReadProject \/ ReadCreds \/ VerifyProjectAccess
           \/ Find \/ Get \/ DeleteCreds \/ AddFinalizer \/ WriteCreated \/ WriteSynced
           \/ WriteGone \/ WriteError \/ WriteFailure \/ WriteBlocked \/ WriteAudit
           \/ RemoveFinalizer \/ UNCHANGED vars
  BY <1>5 DEF Start, ReadRole, ReadProject, ReadCreds, VerifyProjectAccess, Find, Get,
              DeleteCreds, AddFinalizer, WriteCreated, WriteSynced, WriteGone, WriteError,
              WriteFailure, WriteBlocked, WriteAudit, RemoveFinalizer, vars
<1> QED
  BY <1>2, <1>3, <1>4, <1>5 DEF Next, Reconcile

LEMMA NextNothingToFind ==
  ASSUME IInv, [Next]_vars
  PROVE  NothingToFind'
<1>1. TypeOK /\ NothingToFind /\ cloud \in Seq(Server)
  BY DEF IInv, TypeOK, CloudOK
<1>2. SUFFICES ASSUME pc' = "create"
               PROVE  \A s \in DOMAIN cloud' : ~cloud'[s].alive
  BY DEF NothingToFind
<1>3. CASE Find
  BY <1>2, <1>3 DEF Find, ServersToAdopt, Goto, Return, Fail
<1>4. CASE /\ pc = "create"
           /\ \A s \in DOMAIN cloud' :
                  cloud'[s].alive => s \in DOMAIN cloud /\ cloud[s].alive
  BY <1>1, <1>4 DEF NothingToFind
<1>5. Find \/ pc = "create"
  <2>1. CASE Reconcile
    BY <1>2, <2>1 DEF Reconcile, Start, ReadRole, ReadProject, ReadCreds, VerifyProjectAccess,
         Get, DeleteCreds, Create, Delete, AddFinalizer, WriteCreated, WriteSynced,
         WriteGone, WriteError, WriteFailure, WriteBlocked, WriteAudit, RemoveFinalizer,
         FirstCall, Goto, Return, Fail, FailWithStatus
  <2>2. CASE ~Reconcile
    BY <1>2, <2>2 DEF Next, Deliver, Crash, DeleteCR, EditNamespace, BecomeReady, Disappear,
                      vars
  <2> QED
    BY <2>1, <2>2
<1>6. ~(Create /\ cloud' = WithNew)
  BY <1>2 DEF Create, Goto
<1> QED
  BY <1>1, <1>3, <1>4, <1>5, <1>6, StepServers

LEMMA NextFollowsTheOne ==
  ASSUME IInv, [Next]_vars
  PROVE  FollowsTheOne'
<1>1. /\ TypeOK /\ FollowsTheOne /\ AtMostOneServer
      /\ cloud \in Seq(Server) /\ job \in Job
  BY DEF IInv, TypeOK, CloudOK, JobOK
<1>2. SUFFICES ASSUME pc' = "writeSynced"
               PROVE  \A s \in DOMAIN cloud' : cloud'[s].alive => s = job'.sid
  BY DEF FollowsTheOne
<1>3. CASE Get
  <2>1. IsAlive(job.sid) /\ job' = [job EXCEPT !.state = cloud[job.sid].state] /\ cloud' = cloud
    BY <1>2, <1>3 DEF Get, Goto
  <2>2. job'.sid = job.sid
    BY <1>1, <2>1 DEF Job
  <2> QED
    BY <1>1, <2>1, <2>2 DEF AtMostOneServer, IsAlive
<1>4. CASE ~Get
  <2>1. pc = "writeSynced" /\ job' = job /\ ~Create
    <3>1. CASE Reconcile
      BY <1>2, <1>4, <3>1 DEF Reconcile, Start, ReadRole, ReadProject, ReadCreds,
           VerifyProjectAccess, Find, DeleteCreds, Create, Delete, AddFinalizer, WriteCreated,
           WriteSynced, WriteGone, WriteError, WriteFailure, WriteBlocked, WriteAudit,
           RemoveFinalizer, FirstCall, Goto, Return, Fail, FailWithStatus
    <3>2. CASE ~Reconcile
      BY <1>2, <3>2 DEF Next, Reconcile, Deliver, Crash, DeleteCR, EditNamespace, BecomeReady,
                        Disappear, vars
    <3> QED
      BY <3>1, <3>2
  <2> QED
    BY <1>1, <2>1, StepServers DEF FollowsTheOne
<1> QED
  BY <1>3, <1>4

LEMMA NextServers ==
  ASSUME IInv, [Next]_vars
  PROVE  AtMostOneServer' /\ FinalizerBeforeServer'
<1>1. /\ TypeOK /\ SnapshotsBehind /\ StepKnows /\ NothingToFind
      /\ AtMostOneServer /\ FinalizerBeforeServer /\ cloud \in Seq(Server)
  BY DEF IInv, TypeOK, CloudOK
<1>2. Forward
  BY <1>1, StepForward
<1>3. CASE \A s \in DOMAIN cloud' :
               cloud'[s].alive => s \in DOMAIN cloud /\ cloud[s].alive
  BY <1>1, <1>2, <1>3 DEF AtMostOneServer, FinalizerBeforeServer, IsAlive, Forward
<1>4. CASE Create /\ cloud' = WithNew
  <2>1. \A s \in DOMAIN cloud : ~cloud[s].alive
    BY <1>1, <1>4 DEF Create, NothingToFind
  <2>2. \A s \in DOMAIN cloud' : cloud'[s].alive => s = Len(cloud) + 1
    BY <1>1, <1>4, <2>1, WithNewType
  <2>3. live' = live /\ (live.exists => live.finalizer)
    BY <1>1, <1>4 DEF Create, kube, StepKnows, SnapshotsBehind, Behind
  <2> QED
    BY <2>2, <2>3 DEF AtMostOneServer, FinalizerBeforeServer, IsAlive
<1> QED
  BY <1>1, <1>3, <1>4, StepServers

-----------------------------------------------------------------------------
(* The theorems. *)

LEMMA InitIInv == Init => IInv
<1> SUFFICES ASSUME Init PROVE IInv
  OBVIOUS
<1>1. cloud = <<>> /\ DOMAIN cloud = {}
  BY EmptySeq, LenProperties DEF Init
<1>2. SnapshotsBehind
  BY DEF Init, SnapshotsBehind, Behind, NoJob, JobFor, NewCR
<1>3. StepKnows /\ NothingToFind /\ FollowsTheOne
  BY DEF Init, StepKnows, NothingToFind, FollowsTheOne
<1>4. AtMostOneServer /\ FinalizerBeforeServer
  BY <1>1 DEF AtMostOneServer, FinalizerBeforeServer
<1> QED
  BY <1>2, <1>3, <1>4, InitType DEF IInv

LEMMA Invariance == Spec => []IInv
<1>1. Init => IInv
  BY InitIInv
<1>2. IInv /\ [Next]_vars => IInv'
  BY NextType, NextSnapshotsBehind, NextStepKnows, NextNothingToFind, NextFollowsTheOne,
     NextServers
  DEF IInv
<1> QED
  BY <1>1, <1>2, PTL DEF Spec

\* Type correctness: among others every sync_state written is one of the six that
\* the two reconcilers document.
THEOREM TypeCorrect == Spec => []TypeOK
<1>1. IInv => TypeOK
  BY DEF IInv
<1> QED
  BY <1>1, Invariance, PTL

\* However often snapshots are stale, answers are lost or the process restarts, no
\* CR has two servers: execute_create_instance and execute_create_load_balancer
\* create right after a search that found nothing.
THEOREM OneServer == Spec => []AtMostOneServer
<1>1. IInv => AtMostOneServer
  BY DEF IInv
<1> QED
  BY <1>1, Invariance, PTL

\* A CR with a server has its finalizer, though the snapshot that decided to create
\* may be old and the CR deleted meanwhile (decide_next_action).
THEOREM FinalizerFirst == Spec => []FinalizerBeforeServer
<1>1. IInv => FinalizerBeforeServer
  BY DEF IInv
<1> QED
  BY <1>1, Invariance, PTL

\* Only the status read back says Synced, and it names the server that runs, though
\* the snapshot it is built from may be older than that server (Sync of
\* reconcile_instance and of reconcile_load_balancer).
THEOREM SyncedNamesIt == Spec => SyncedNamesServer
<1> DEFINE Named ==
      live'.status # live.status /\ live'.status.sync = "Synced"
          => \A s \in DOMAIN cloud : IsAlive(s) => s = live'.status.sid
<1>1. IInv /\ [Next]_vars => Named
  <2> SUFFICES ASSUME IInv, [Next]_vars,
                      live'.status # live.status, live'.status.sync = "Synced"
               PROVE  \A s \in DOMAIN cloud : IsAlive(s) => s = live'.status.sid
    OBVIOUS
  <2>1. /\ FollowsTheOne /\ StepKnows /\ live \in CR /\ job \in Job
        /\ job.cr.status \in Status
    BY DEF IInv, TypeOK, KubeOK, JobOK, Job, CR
  <2>2. CASE WriteSynced
    <3>1. pc = "writeSynced" /\ live'.status = SyncedStatus(job)
      BY <2>1, <2>2 DEF WriteSynced, PatchStatus, Patch, Store, kube, CR
    <3>2. live'.status.sid = job.sid
      BY <2>1, <3>1 DEF SyncedStatus, StepKnows, Status
    <3> QED
      BY <2>1, <3>1, <3>2 DEF FollowsTheOne, IsAlive
  <2>3. CASE WriteCreated \/ WriteGone \/ WriteError \/ WriteFailure \/ WriteBlocked \/ WriteAudit
    <3> DEFINE st == {CreatedStatus(job), ErrorStatus(job), BlockedStatus(job),
                      AuditStatus(job), GoneStatus}
    <3>1. \A s \in st : s.sync # "Synced"
      <4>1. CreatedStatus(job).sync = "Syncing" /\ GoneStatus.sync = "Waiting"
        BY DEF CreatedStatus, GoneStatus, NewStatus
      <4>2. /\ ErrorStatus(job).sync = "Error" /\ BlockedStatus(job).sync = "TerminationBlocked"
            /\ AuditStatus(job).sync = "FinalizerRemovedWithoutScalewayDelete"
        BY <2>1 DEF ErrorStatus, BlockedStatus, AuditStatus, Status
      <4> QED
        BY <4>1, <4>2
    <3>2. \E s \in st : live' \in {live, [live EXCEPT !.status = s]}
      BY <2>3 DEF WriteCreated, WriteGone, WriteError, WriteFailure, WriteBlocked, WriteAudit,
                  PatchStatus, Patch, Store, kube
    <3> HIDE DEF st
    <3> QED
      BY <2>1, <3>1, <3>2 DEF CR
  <2>4. CASE /\ ~WriteSynced /\ ~WriteCreated /\ ~WriteGone /\ ~WriteError /\ ~WriteFailure
             /\ ~WriteBlocked /\ ~WriteAudit
    <3>1. live'.status = live.status
      BY <2>1, <2>4 DEF Next, Reconcile, Start, ReadRole, ReadProject, AddFinalizer, ReadCreds,
           VerifyProjectAccess, Find, Create, Get, DeleteCreds, Delete, RemoveFinalizer,
           Deliver, Crash, DeleteCR, EditNamespace, BecomeReady, Disappear, vars, kube,
           Patch, Store, CR
    <3> QED
      BY <3>1
  <2> QED
    BY <2>2, <2>3, <2>4
<1>2. IInv /\ [Next]_vars => [Named]_vars
  BY <1>1
<1> QED
  BY <1>2, Invariance, PTL DEF Spec, SyncedNamesServer

=============================================================================
