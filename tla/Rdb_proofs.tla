---------------------------- MODULE Rdb_proofs ----------------------------
(***************************************************************************)
(* Proofs about Rdb, for any specs, configurations of the namespace,       *)
(* histories of the ScalewaySecret, and any number of operations, faults   *)
(* and stale snapshots.                                                    *)
(***************************************************************************)
EXTENDS Rdb, FiniteSetTheorems, SequenceTheorems, TLAPS

-----------------------------------------------------------------------------
(* Types of the values the steps build. *)

LEMMA GapType ==
  ASSUME NEW S, NEW wanted \in S, NEW actual \in S
  PROVE  Gap(wanted, actual) \in Pairs(S)
<1>1. Cardinality({}) = 0 /\ Cardinality({<<wanted, actual>>}) = 1
  BY FS_EmptySet, FS_Singleton
<1>2. {} \in Pairs(S) /\ {<<wanted, actual>>} \in Pairs(S)
  BY <1>1 DEF Pairs
<1> QED
  BY <1>2 DEF Gap

LEMMA NoGap ==
  ASSUME NEW S
  PROVE  {} \in Pairs(S)
  BY FS_EmptySet DEF Pairs

LEMMA NewStatusType == NewStatus \in Status
  BY NoGap DEF NewStatus, Status, SyncStates, Messages, None

LEMMA NewCRType ==
  ASSUME NEW sp \in Specs
  PROVE  NewCR(sp) \in CR
  BY NewStatusType DEF NewCR, CR

LEMMA JobForType ==
  ASSUME NEW cr \in CR
  PROVE  JobFor(cr) \in Job /\ JobFor(cr).cr = cr
  BY DEF JobFor, Job, CR, Status, Messages, None

LEMMA NoJobType == NoJob \in Job
<1>1. (CHOOSE sp \in Specs : TRUE) \in Specs
  BY RdbAssumption
<1> QED
  BY <1>1, NewCRType, JobForType DEF NoJob

LEMMA SyncedStatusType ==
  ASSUME NEW st \in Status, NEW spec \in Specs, NEW db \in Database
  PROVE  /\ SyncedStatus(st, spec, db) \in Status
         /\ SyncedStatus(st, spec, db).sid = st.sid
<1>1. spec.engine \in Engines /\ spec.node \in Nodes
  BY RdbAssumption DEF Spec0
<1>2. db.engine \in Engines /\ db.node \in Nodes /\ db.state \in DatabaseStates
  BY DEF Database
<1>3. Gap(spec.node, db.node) \in Pairs(Nodes) /\ Gap(spec.engine, db.engine) \in Pairs(Engines)
  BY <1>1, <1>2, GapType
<1> QED
  BY <1>2, <1>3 DEF SyncedStatus, Status, SyncStates, Messages

\* Every other status that a reconcile writes is one.
LEMMA StatusTypes ==
  ASSUME NEW j \in Job
  PROVE  /\ ErrorStatus(j) \in Status
         /\ CreatedStatus(j) \in Status
         /\ GoneStatus(j) \in Status
         /\ RefusedStatus(j) \in Status
<1>1. j.cr.status \in Status /\ j.sid \in Nat /\ j.msg \in Messages
  BY DEF Job, CR
<1>2. {} \in Pairs(Engines)
  BY NoGap
<1>3. ErrorStatus(j) \in Status
  BY <1>1, <1>2 DEF ErrorStatus, Status, SyncStates
<1>4. CreatedStatus(j) \in Status
  BY <1>1, <1>2 DEF CreatedStatus, Status, SyncStates, Messages, DatabaseStates
<1>5. GoneStatus(j) \in Status
  BY NewStatusType DEF GoneStatus
<1>6. RefusedStatus(j) \in Status
  BY <1>1, <1>2 DEF RefusedStatus, Status, SyncStates, Messages
<1> QED
  BY <1>3, <1>4, <1>5, <1>6

\* The databases after one of them changes.
LEMMA ChangeDatabase ==
  ASSUME NEW c \in Seq(Database), NEW d \in DOMAIN c, NEW e \in Database
  PROVE  /\ [c EXCEPT ![d] = e] \in Seq(Database)
         /\ DOMAIN [c EXCEPT ![d] = e] = DOMAIN c
         /\ \A t \in DOMAIN c : [c EXCEPT ![d] = e][t] = IF t = d THEN e ELSE c[t]
<1>1. d \in 1..Len(c) /\ DOMAIN c = 1..Len(c)
  BY LenProperties
<1> QED
  BY <1>1, ExceptSeq, LenProperties

LEMMA DatabaseType ==
  ASSUME dbs \in Seq(Database), NEW d \in DOMAIN dbs
  PROVE  dbs[d] \in Database
<1>1. d \in 1..Len(dbs)
  BY LenProperties
<1> QED
  BY <1>1, ElementOfSeq

-----------------------------------------------------------------------------
(* Types kept by the control flow and by the calls. *)

LEMMA FaultType ==
  ASSUME faults \in 0..MaxFaults, Fault \/ NoFault
  PROVE  faults' \in 0..MaxFaults
  BY RdbAssumption DEF Fault, NoFault

LEMMA WorldOpType ==
  ASSUME ops \in 0..MaxOps, WorldOp
  PROVE  ops' \in 0..MaxOps
  BY RdbAssumption DEF WorldOp

LEMMA GotoType ==
  ASSUME JobOK, NEW step \in Steps, NEW j \in Job, Goto(step, j)
  PROVE  JobOK'
  BY DEF JobOK, Goto

LEMMA ReturnType ==
  ASSUME JobOK, NEW again \in BOOLEAN, Return(again)
  PROVE  JobOK'
  BY NoJobType DEF JobOK, Return, Steps

LEMMA FailType ==
  ASSUME JobOK, NEW err, Fail(err)
  PROVE  JobOK'
<1>1. Requeues(err) \in BOOLEAN
  BY DEF Requeues, HasRecheckInterval, IsPermanent
<1> QED
  BY <1>1, ReturnType DEF Fail

LEMMA FailWithStatusType ==
  ASSUME JobOK, NEW err \in Errors, NEW msg \in Messages, FailWithStatus(job, err, msg)
  PROVE  JobOK'
<1>1. [job EXCEPT !.err = err, !.msg = msg] \in Job
  BY DEF JobOK, Job
<1> QED
  BY <1>1, GotoType DEF FailWithStatus, Steps

LEMMA StoreType ==
  ASSUME KubeOK, NEW new \in CR, Store(new)
  PROVE  KubeOK'
<1>1. Append(feed, new) \in Seq(CR) /\ Append(feed, new) # <<>>
  BY AppendProperties DEF KubeOK
<1>2. AsksDestruction(new) \in BOOLEAN
  BY DEF AsksDestruction
<1> QED
  BY <1>1, <1>2 DEF KubeOK, Store

LEMMA UnchangedKube ==
  ASSUME KubeOK, UNCHANGED kube
  PROVE  KubeOK'
  BY DEF KubeOK, kube

LEMMA PatchType ==
  ASSUME KubeOK, faults \in 0..MaxFaults, NEW new \in CR, NEW ok, Patch(new, ok)
  PROVE  KubeOK' /\ faults' \in 0..MaxFaults
<1>1. Store(new) \/ UNCHANGED kube
  BY DEF Patch
<1>2. Fault \/ NoFault
  BY DEF Patch
<1> QED
  BY <1>1, <1>2, StoreType, UnchangedKube, FaultType

LEMMA PatchStatusType ==
  ASSUME KubeOK, faults \in 0..MaxFaults, NEW status \in Status, NEW ok,
         PatchStatus(status, ok)
  PROVE  KubeOK' /\ faults' \in 0..MaxFaults
<1>1. [live EXCEPT !.status = status] \in CR
  BY DEF KubeOK, CR
<1> QED
  BY <1>1, PatchType DEF PatchStatus

LEMMA CredsReadType ==
  ASSUME faults \in 0..MaxFaults, NEW err, CredsRead(err)
  PROVE  faults' \in 0..MaxFaults
  BY FaultType DEF CredsRead

-----------------------------------------------------------------------------
(* The ScalewaySecret. *)

\* What its ids and its revisions are: the reconcile copies them.
SourceKnown ==
    /\ DOMAIN store \subseteq Nat
    /\ DOMAIN announce = {"life", "claim", "sid", "ver", "value"}
    /\ announce.sid \in Nat /\ announce.ver \in Nat

LEMMA SourceStepKnown ==
  ASSUME SourceKnown, SourceStep
  PROVE  SourceKnown'
<1>1. CASE store = <<>> /\ Source!CreateSecret
  <2>1. PICK e : store' = Append(<<>>, e) /\ announce' = announce
    BY <1>1 DEF Source!CreateSecret, Source!NewSecret
  <2>2. DOMAIN store' = 1..1
    BY <2>1, EmptySeq, AppendProperties, LenProperties
  <2> QED
    BY <2>1, <2>2 DEF SourceKnown
<1>2. CASE Source!Push \/ Source!Remove \/ Source!Withdraw
  <2>1. DOMAIN store' = DOMAIN store /\ announce' = announce
    BY <1>2 DEF Source!Push, Source!Remove, Source!Withdraw, Source!NewVersion,
                Source!DeleteSecret, Source!DisableVersion
  <2> QED
    BY <2>1 DEF SourceKnown
<1>3. CASE announce' \in Announcements /\ Source!Announce
  <2>1. store' = store
    BY <1>3 DEF Source!Announce
  <2>2. /\ DOMAIN announce' = {"life", "claim", "sid", "ver", "value"}
        /\ announce'.sid \in DOMAIN store /\ announce'.ver \in 0..(MaxOps + 1)
    BY <1>3 DEF Announcements
  <2> QED
    BY <2>1, <2>2, RdbAssumption DEF SourceKnown
<1>4. CASE announce' = [announce EXCEPT !.life = "gone"] /\ Source!Depart
  BY <1>4 DEF Source!Depart, SourceKnown
<1> QED
  BY <1>1, <1>2, <1>3, <1>4 DEF SourceStep, SecretFollows, SecretIsChanged

-----------------------------------------------------------------------------
(* Types kept by the steps. *)

\* What is left to show of a step that does not touch ns, dbs, told, ops.
LEMMA StepType ==
  ASSUME TypeOK, UNCHANGED <<ns, ops, dbs, told>>, KubeOK', JobOK',
         faults' \in 0..MaxFaults, stale' \in 0..MaxStale
  PROVE  TypeOK'
  BY DEF TypeOK, WorldOK, told

\* The role, the project, the guard and the credentials.
LEMMA ChecksType ==
  ASSUME TypeOK,
         \/ Start \/ ReadRole \/ ReadProject \/ Guard \/ CreateCreds \/ SyncCreds
         \/ DeleteCreds
  PROVE  TypeOK'
<1>1. KubeOK /\ JobOK /\ WorldOK /\ faults \in 0..MaxFaults /\ stale \in 0..MaxStale
  BY DEF TypeOK, WorldOK
<1>2. job \in Job
  BY <1>1 DEF JobOK
<1>3. /\ UNCHANGED <<ns, ops, dbs, told>>
      /\ ~Start => UNCHANGED kube /\ UNCHANGED stale
  BY DEF Start, ReadRole, ReadProject, Guard, CreateCreds, SyncCreds, ReadCreds, DeleteCreds,
         world
<1>4. faults' \in 0..MaxFaults
  BY <1>1, FaultType, CredsReadType
  DEF Start, ReadRole, ReadProject, Guard, CreateCreds, SyncCreds, ReadCreds, DeleteCreds
<1>5. CASE Start
  <2>1. Head(feed) \in CR
    BY <1>1, HeadTailProperties DEF KubeOK
  <2> DEFINE j == JobFor(Head(feed))
  <2>2. j \in Job
    BY <2>1, JobForType
  <2>3. \A m \in {"region", "reserved"} : [j EXCEPT !.err = "ConfigError", !.msg = m] \in Job
    BY <2>2 DEF Job, Errors, PermanentErrors, Messages
  <2>4. JobOK'
    <3>1. \/ UNCHANGED <<pc, job, due>>
          \/ due' = FALSE /\ pc' \in {"deleteCreds", "removeFinalizer", "role"} /\ job' = j
          \/ /\ due' = FALSE /\ pc' = "writeError"
             /\ \E m \in {"region", "reserved"} :
                    job' = [j EXCEPT !.err = "ConfigError", !.msg = m]
      BY <1>5 DEF Start
    <3> HIDE DEF j
    <3> QED
      BY <1>1, <2>2, <2>3, <3>1 DEF JobOK, Steps
  <2>5. KubeOK' /\ stale' \in 0..MaxStale
    BY <1>1, <1>5, RdbAssumption DEF Start, KubeOK
  <2> QED
    BY <1>3, <1>4, <2>4, <2>5, StepType
<1>6. CASE ReadRole
  <2>1. [job EXCEPT !.writes = ns.role = "Editor"] \in Job
    BY <1>2 DEF Job
  <2>2. JobOK'
    BY <1>1, <1>6, <2>1, GotoType, FailWithStatusType
    DEF ReadRole, Steps, Errors, PermanentErrors, Messages
  <2> QED
    BY <1>1, <1>3, <1>4, <1>6, <2>2, UnchangedKube, StepType DEF ReadRole
<1>7. CASE ReadProject
  <2>1. JobOK'
    <3>1. CASE FailWithStatus(job, "ConfigError", "project")
      BY <1>1, <3>1, FailWithStatusType DEF Errors, PermanentErrors, Messages
    <3>2. CASE Act(job)
      BY <1>1, <1>2, <3>2, GotoType, FailWithStatusType
      DEF Act, Steps, Errors, PermanentErrors, Messages
    <3> QED
      BY <1>7, <3>1, <3>2 DEF ReadProject
  <2> QED
    BY <1>1, <1>3, <1>4, <1>7, <2>1, UnchangedKube, StepType DEF ReadProject
<1>8. CASE Guard
  <2>1. JobOK'
    BY <1>1, <1>2, <1>8, GotoType, FailType, ReturnType DEF Guard, Steps
  <2> QED
    BY <1>1, <1>3, <1>4, <1>8, <2>1, UnchangedKube, StepType DEF Guard
<1>9. CASE CreateCreds \/ SyncCreds
  <2>1. PICK err \in {"none", "ConfigError", "KubeError"}, to \in {"find", "get"} :
           IF err = "none" THEN Goto(to, job)
           ELSE FailWithStatus(job, err, IF err = "KubeError" THEN err ELSE "creds")
    BY <1>9 DEF CreateCreds, SyncCreds, ReadCreds
  <2>2. JobOK'
    BY <1>1, <1>2, <2>1, GotoType, FailWithStatusType
    DEF Steps, Errors, PermanentErrors, Messages
  <2>3. UNCHANGED kube /\ UNCHANGED stale
    BY <1>9 DEF CreateCreds, SyncCreds, ReadCreds
  <2> QED
    BY <1>1, <1>3, <1>4, <2>2, <2>3, UnchangedKube, StepType
<1>10. CASE DeleteCreds
  <2>1. \A err \in {"none", "ConfigError", "KubeError"} : [job EXCEPT !.err = err] \in Job
    BY <1>2 DEF Job, Errors, PermanentErrors
  <2>2. JobOK'
    BY <1>1, <1>2, <1>10, <2>1, GotoType, FailType DEF DeleteCreds, Steps
  <2> QED
    BY <1>1, <1>3, <1>4, <1>10, <2>2, UnchangedKube, StepType DEF DeleteCreds
<1> QED
  BY <1>5, <1>6, <1>7, <1>8, <1>9, <1>10

\* The search, the password, and what is read back of the database.
LEMMA ReadsType ==
  ASSUME TypeOK, SourceKnown, Find \/ ReadSecret \/ Access \/ Get \/ PublishDrift
  PROVE  TypeOK'
<1>1. /\ KubeOK /\ JobOK /\ WorldOK /\ faults \in 0..MaxFaults /\ stale \in 0..MaxStale
      /\ dbs \in Seq(Database) /\ reported \subseteq Pairs(Nodes) /\ logged \subseteq Pairs(Nodes)
  BY DEF TypeOK, WorldOK
<1>2. job \in Job /\ job.status \in Status /\ job.cr \in CR
  BY <1>1 DEF JobOK, Job
<1>3. UNCHANGED <<kube, ns, ops, dbs, stale>>
  BY DEF Find, ReadSecret, Access, Get, PublishDrift, world
<1>4. faults' \in 0..MaxFaults
  BY <1>1, FaultType DEF Find, ReadSecret, Access, Get, PublishDrift
<1>5. ASSUME JobOK', UNCHANGED told PROVE TypeOK'
  BY <1>1, <1>3, <1>4, <1>5, UnchangedKube, StepType
<1>6. ASSUME NEW j \in Job, WriteIfChanged(j) PROVE JobOK'
  BY <1>1, <1>6, GotoType, ReturnType DEF WriteIfChanged, Steps
<1>7. CASE Find
  <2>1. \A d \in DatabasesToAdopt : [job EXCEPT !.sid = d, !.adopted = TRUE] \in Job
    <3>1. SUFFICES ASSUME NEW d \in DatabasesToAdopt
                   PROVE  [job EXCEPT !.sid = d, !.adopted = TRUE] \in Job
      OBVIOUS
    <3>2. d \in Nat
      BY <1>1, LenProperties DEF DatabasesToAdopt
    <3> QED
      BY <1>2, <3>2 DEF Job
  <2>2. JobOK'
    BY <1>1, <1>2, <1>7, <2>1, GotoType, FailWithStatusType
    DEF Find, Steps, Errors, PermanentErrors, Messages
  <2> QED
    BY <1>5, <1>7, <2>2 DEF Find
<1>8. CASE ReadSecret
  <2>1. [job EXCEPT !.sid = announce.sid, !.ver = announce.ver] \in Job
    BY <1>2 DEF Job, SourceKnown
  <2>2. JobOK'
    BY <1>1, <1>8, <2>1, GotoType, FailWithStatusType
    DEF ReadSecret, Steps, Errors, Messages
  <2> QED
    BY <1>5, <1>8, <2>2 DEF ReadSecret
<1>9. CASE Access
  <2>1. JobOK'
    BY <1>1, <1>2, <1>9, GotoType, FailWithStatusType
    DEF Access, Steps, Errors, PermanentErrors, Messages
  <2> QED
    BY <1>5, <1>9, <2>1 DEF Access
<1>10. CASE Get
  <2> DEFINE j == [job EXCEPT !.status =
                       SyncedStatus(job.cr.status, job.cr.spec, dbs[job.sid])]
  <2>1. DatabaseIsAlive(job.sid) => j \in Job
    <3>1. SUFFICES ASSUME DatabaseIsAlive(job.sid) PROVE j \in Job
      OBVIOUS
    <3>2. dbs[job.sid] \in Database
      BY <1>1, <3>1, DatabaseType DEF DatabaseIsAlive
    <3>3. SyncedStatus(job.cr.status, job.cr.spec, dbs[job.sid]) \in Status
      BY <1>2, <3>2, SyncedStatusType DEF CR
    <3> QED
      BY <1>2, <3>3 DEF Job
  <2>2. \/ FailWithStatus(job, "ScalewayError", "ScalewayError")
        \/ Goto("writeGone", job)
        \/ DatabaseIsAlive(job.sid) /\ (Goto("event", j) \/ WriteIfChanged(j))
    BY <1>10 DEF Get
  <2> HIDE DEF j
  <2>3. JobOK'
    BY <1>1, <1>2, <1>6, <2>1, <2>2, GotoType, FailWithStatusType
    DEF Steps, Errors, Messages
  <2> QED
    BY <1>5, <1>10, <2>3 DEF Get
<1>11. CASE PublishDrift
  <2>1. JobOK'
    BY <1>2, <1>6, <1>11 DEF PublishDrift
  <2>2. reported' \subseteq Pairs(Nodes) /\ logged' \subseteq Pairs(Nodes)
    BY <1>1, <1>2, <1>11 DEF PublishDrift, Status
  <2>3. KubeOK'
    BY <1>1, <1>3, UnchangedKube
  <2> QED
    BY <1>1, <1>3, <1>4, <2>1, <2>2, <2>3 DEF TypeOK, WorldOK
<1> QED
  BY <1>7, <1>8, <1>9, <1>10, <1>11

\* The steps that write the CR leave Scaleway alone.
LEMMA WritingStepsType ==
  ASSUME TypeOK,
         \/ AddFinalizer \/ WriteCreated \/ WriteError \/ WriteSynced \/ WriteGone
         \/ WriteRefused \/ RemoveFinalizer
  PROVE  TypeOK'
<1>1. KubeOK /\ JobOK /\ WorldOK /\ faults \in 0..MaxFaults /\ stale \in 0..MaxStale
  BY DEF TypeOK, WorldOK
<1>2. job \in Job /\ job.status \in Status /\ live \in CR
  BY <1>1 DEF JobOK, KubeOK, Job
<1>3. UNCHANGED <<ns, ops, dbs, told, stale>>
  BY DEF AddFinalizer, WriteCreated, WriteError, WriteSynced, WriteGone, WriteRefused,
         RemoveFinalizer, world
<1>4. KubeOK' /\ faults' \in 0..MaxFaults
  <2>1. /\ [live EXCEPT !.finalizer = TRUE] \in CR
        /\ [live EXCEPT !.finalizer = FALSE, !.exists = ~live.deleting] \in CR
    BY <1>2 DEF CR
  <2>2. CASE AddFinalizer \/ RemoveFinalizer
    BY <1>1, <2>1, <2>2, PatchType DEF AddFinalizer, RemoveFinalizer
  <2>3. CASE WriteCreated \/ WriteError \/ WriteSynced \/ WriteGone \/ WriteRefused
    BY <1>1, <1>2, <2>3, StatusTypes, PatchStatusType
    DEF WriteCreated, WriteError, WriteSynced, WriteGone, WriteRefused
  <2> QED
    BY <2>2, <2>3
<1>5. JobOK'
  BY <1>1, ReturnType, FailType
  DEF AddFinalizer, WriteCreated, WriteError, WriteSynced, WriteGone, WriteRefused,
      RemoveFinalizer
<1> QED
  BY <1>1, <1>3, <1>4, <1>5, StepType

\* The databases after a creation and after a deletion.
WithNew == Append(dbs, NewDatabase(job.cr.spec))
Without(d) == [dbs EXCEPT ![d].alive = FALSE]

LEMMA WithNewType ==
  ASSUME dbs \in Seq(Database), job \in Job
  PROVE  /\ WithNew \in Seq(Database)
         /\ DOMAIN WithNew = DOMAIN dbs \cup {Len(dbs) + 1}
         /\ \A d \in DOMAIN dbs : WithNew[d] = dbs[d]
         /\ Len(dbs) + 1 \in Nat \ DOMAIN dbs
<1>1. job.cr.spec.engine \in Engines /\ job.cr.spec.node \in Nodes
  BY RdbAssumption DEF Job, CR, Spec0
<1>2. NewDatabase(job.cr.spec) \in Database
  BY <1>1 DEF NewDatabase, Database, DatabaseStates
<1> QED
  BY <1>2, AppendProperties, LenProperties DEF WithNew

LEMMA WithoutType ==
  ASSUME dbs \in Seq(Database), NEW d \in DOMAIN dbs
  PROVE  /\ Without(d) \in Seq(Database)
         /\ DOMAIN Without(d) = DOMAIN dbs
         /\ ~Without(d)[d].alive
         /\ \A t \in DOMAIN dbs \ {d} : Without(d)[t] = dbs[t]
<1> DEFINE e == [dbs[d] EXCEPT !.alive = FALSE]
<1>1. e \in Database /\ ~e.alive
  BY DatabaseType DEF Database
<1>2. Without(d) = [dbs EXCEPT ![d] = e]
  BY DEF Without
<1> HIDE DEF e
<1> QED
  BY <1>1, <1>2, ChangeDatabase

\* The steps that change Scaleway leave the CR alone.
LEMMA ScalewayStepsType ==
  ASSUME TypeOK, Create \/ Delete
  PROVE  /\ TypeOK'
         /\ Create => dbs' \in {dbs, WithNew}
         /\ Delete => dbs' = dbs \/ (DatabaseIsAlive(job.sid) /\ dbs' = Without(job.sid))
<1>1. /\ KubeOK /\ JobOK /\ WorldOK /\ faults \in 0..MaxFaults /\ stale \in 0..MaxStale
      /\ dbs \in Seq(Database) /\ job \in Job
  BY DEF TypeOK, WorldOK, JobOK
<1>2. UNCHANGED <<kube, ns, ops, told, stale>>
  BY DEF Create, Delete, world
<1>3. faults' \in 0..MaxFaults
  BY <1>1, FaultType DEF Create, Delete, ScalewayCall
<1>4. ASSUME dbs' \in Seq(Database), JobOK' PROVE TypeOK'
  BY <1>1, <1>2, <1>3, <1>4, UnchangedKube DEF TypeOK, WorldOK, told
<1>5. CASE Create
  <2>1. dbs' \in {dbs, WithNew}
    BY <1>5 DEF Create, ScalewayCall, WithNew
  <2>2. dbs' \in Seq(Database)
    BY <1>1, <2>1, WithNewType
  <2>3. [job EXCEPT !.sid = Len(dbs) + 1] \in Job
    BY <1>1, WithNewType DEF Job
  <2>4. JobOK'
    BY <1>1, <1>5, <2>3, GotoType, FailWithStatusType DEF Create, Steps, Errors, Messages
  <2>5. ~Delete
    BY <1>5 DEF Create, Delete
  <2> QED
    BY <1>4, <2>1, <2>2, <2>4, <2>5
<1>6. CASE Delete
  <2>1. dbs' = dbs \/ (DatabaseIsAlive(job.sid) /\ dbs' = Without(job.sid))
    BY <1>6 DEF Delete, ScalewayCall, Without
  <2>2. dbs' \in Seq(Database)
    BY <1>1, <2>1, WithoutType DEF DatabaseIsAlive
  <2>3. JobOK'
    BY <1>1, <1>6, GotoType, FailType DEF Delete, Steps
  <2>4. ~Create
    BY <1>6 DEF Create, Delete
  <2> QED
    BY <1>4, <2>1, <2>2, <2>3, <2>4
<1> QED
  BY <1>5, <1>6

\* What happens outside a reconcile; of Scaleway, a database only changes or disappears,
\* the latter by an operation of a user.
LEMMA EnvironmentType ==
  ASSUME TypeOK,
         \/ Deliver \/ Crash \/ EditSpec \/ DeleteCR \/ EditNamespace \/ BecomeReady
         \/ ChangeInConsole \/ Disappear \/ SourceStep
  PROVE  /\ TypeOK'
         /\ DOMAIN dbs' = DOMAIN dbs
         /\ \A d \in DOMAIN dbs : dbs'[d].alive => dbs[d].alive
         /\ ops' = ops => \A d \in DOMAIN dbs : dbs'[d].alive = dbs[d].alive
<1>1. /\ KubeOK /\ JobOK /\ WorldOK /\ faults \in 0..MaxFaults /\ stale \in 0..MaxStale
      /\ dbs \in Seq(Database) /\ reported \subseteq Pairs(Nodes) /\ logged \subseteq Pairs(Nodes)
      /\ live \in CR /\ feed \in Seq(CR) /\ ops \in 0..MaxOps /\ ns \in Namespaces
  BY DEF TypeOK, WorldOK, KubeOK
<1>2. CASE Deliver
  <2>1. 2 \in 1..Len(feed)
    BY <1>1, <1>2, LenProperties DEF Deliver
  <2>2. feed[2] \in CR
    BY <1>1, <2>1, ElementOfSeq
  <2>3. Tail(feed) \in Seq(CR) /\ Len(Tail(feed)) = Len(feed) - 1
    BY <1>1, <1>2, HeadTailProperties, EmptySeq DEF Deliver
  <2>4. Tail(feed) # <<>>
    <3>1. Len(feed) \in Nat /\ Len(feed) > 1
      BY <1>1, <1>2, LenProperties DEF Deliver
    <3>2. \A n \in Nat : n > 1 => n - 1 # 0
      OBVIOUS
    <3>3. Len(Tail(feed)) # 0
      BY <2>3, <3>1, <3>2, Zenon
    <3> QED
      BY <3>3, EmptySeq
  <2>5. KubeOK'
    BY <1>1, <1>2, <2>3, <2>4 DEF Deliver, KubeOK
  <2>6. JobOK'
    BY <1>1, <1>2, <2>2 DEF Deliver, JobOK, CR
  <2>7. UNCHANGED <<ns, ops, dbs, told, faults, stale>>
    BY <1>2 DEF Deliver, world
  <2> QED
    BY <1>1, <2>5, <2>6, <2>7, StepType
<1>3. CASE Crash
  <2>1. KubeOK'
    BY <1>1, <1>3 DEF Crash, KubeOK
  <2>2. JobOK'
    BY <1>1, <1>3, NoJobType DEF Crash, JobOK, Steps, CR
  <2>3. faults' \in 0..MaxFaults
    BY <1>1, <1>3, FaultType DEF Crash
  <2>4. UNCHANGED <<ns, ops, dbs, told, stale>>
    BY <1>3 DEF Crash, world
  <2> QED
    BY <1>1, <2>1, <2>2, <2>3, <2>4, StepType
<1>4. CASE EditSpec \/ DeleteCR
  <2>1. PICK new \in CR : Store(new)
    <3>1. [live EXCEPT !.deleting = TRUE, !.exists = live.finalizer] \in CR
      BY <1>1 DEF CR
    <3>2. \A sp \in Specs : [live EXCEPT !.spec = sp] \in CR
      BY <1>1 DEF CR
    <3> QED
      BY <1>4, <3>1, <3>2 DEF EditSpec, DeleteCR
  <2>2. KubeOK'
    BY <1>1, <2>1, StoreType
  <2>3. ops' \in 0..MaxOps
    BY <1>1, <1>4, WorldOpType DEF EditSpec, DeleteCR
  <2>4. UNCHANGED <<ns, dbs, told, pc, job, due, faults, stale>>
    BY <1>4 DEF EditSpec, DeleteCR
  <2> QED
    BY <1>1, <2>2, <2>3, <2>4 DEF TypeOK, WorldOK, JobOK, told
<1>5. CASE EditNamespace
  <2>1. KubeOK'
    BY <1>1, <1>5, UnchangedKube DEF EditNamespace
  <2>2. ops' \in 0..MaxOps
    BY <1>1, <1>5, WorldOpType DEF EditNamespace
  <2> QED
    BY <1>1, <1>5, <2>1, <2>2 DEF EditNamespace, TypeOK, WorldOK, JobOK, told
<1>6. ASSUME UNCHANGED Untouched, ops' \in 0..MaxOps, dbs' \in Seq(Database)
      PROVE  TypeOK'
  <2>1. KubeOK'
    BY <1>1, <1>6, UnchangedKube DEF Untouched
  <2> QED
    BY <1>1, <1>6, <2>1 DEF Untouched, TypeOK, WorldOK, JobOK, told
<1>7. CASE BecomeReady \/ ChangeInConsole
  <2>1. PICK d \in DOMAIN dbs, e \in Database :
            e.alive = dbs[d].alive /\ dbs' = [dbs EXCEPT ![d] = e]
    <3>1. CASE BecomeReady
      <4>1. PICK d \in DOMAIN dbs : dbs' = [dbs EXCEPT ![d].state = "ready"]
        BY <3>1 DEF BecomeReady
      <4>2. /\ [dbs[d] EXCEPT !.state = "ready"] \in Database
            /\ [dbs[d] EXCEPT !.state = "ready"].alive = dbs[d].alive
        BY <1>1, DatabaseType DEF Database, DatabaseStates
      <4> QED
        BY <4>1, <4>2
    <3>2. CASE ChangeInConsole
      <4>1. PICK d \in DOMAIN dbs, e \in Engines, n \in Nodes :
                dbs' = [dbs EXCEPT ![d].engine = e, ![d].node = n]
        BY <3>2 DEF ChangeInConsole
      <4>2. /\ [dbs[d] EXCEPT !.engine = e, !.node = n] \in Database
            /\ [dbs[d] EXCEPT !.engine = e, !.node = n].alive = dbs[d].alive
        BY <1>1, DatabaseType DEF Database
      <4>3. dbs' = [dbs EXCEPT ![d] = [dbs[d] EXCEPT !.engine = e, !.node = n]]
        BY <1>1, <4>1
      <4> QED
        BY <4>2, <4>3
    <3> QED
      BY <1>7, <3>1, <3>2
  <2>2. /\ dbs' \in Seq(Database) /\ DOMAIN dbs' = DOMAIN dbs
        /\ \A t \in DOMAIN dbs : dbs'[t].alive = dbs[t].alive
    BY <1>1, <2>1, ChangeDatabase
  <2>3. UNCHANGED Untouched /\ ops' \in 0..MaxOps
    BY <1>1, <1>7, WorldOpType DEF BecomeReady, ChangeInConsole
  <2> QED
    BY <1>6, <2>2, <2>3
<1>8. CASE Disappear
  <2>1. PICK d \in DOMAIN dbs : dbs' = Without(d)
    BY <1>8 DEF Disappear, Without
  <2>2. /\ dbs' \in Seq(Database) /\ DOMAIN dbs' = DOMAIN dbs
        /\ \A t \in DOMAIN dbs : dbs'[t].alive => dbs[t].alive
    BY <1>1, <2>1, WithoutType
  <2>3. UNCHANGED Untouched /\ ops' \in 0..MaxOps /\ ops' # ops
    BY <1>1, <1>8, WorldOpType DEF Disappear, WorldOp
  <2> QED
    BY <1>6, <2>2, <2>3
<1>9. CASE SourceStep
  <2>1. UNCHANGED Untouched /\ dbs' = dbs /\ ops' \in 0..MaxOps
    BY <1>1, <1>9, WorldOpType DEF SourceStep
  <2> QED
    BY <1>1, <1>6, <2>1
<1> QED
  BY <1>2, <1>3, <1>4, <1>5, <1>7, <1>8, <1>9

LEMMA InitType == Init => TypeOK /\ SourceKnown
<1> SUFFICES ASSUME Init PROVE TypeOK /\ SourceKnown
  OBVIOUS
<1>1. live \in CR
  BY NewCRType DEF Init
<1>2. KubeOK
  <2>1. feed = <<live>> /\ current = TRUE /\ asked = FALSE
    BY DEF Init
  <2>2. feed \in Seq(CR) /\ feed # <<>>
    BY <1>1, <2>1
  <2> QED
    BY <1>1, <2>1, <2>2 DEF KubeOK
<1>3. JobOK
  BY NoJobType DEF Init, JobOK, Steps
<1>4. WorldOK
  BY EmptySeq, RdbAssumption DEF Init, WorldOK
<1>5. SourceKnown
  <2>1. store = <<>> /\ DOMAIN store = {}
    BY EmptySeq, LenProperties DEF Init, Source!Init
  <2>2. /\ DOMAIN announce = {"life", "claim", "sid", "ver", "value"}
        /\ announce.sid = None /\ announce.ver = None
    BY DEF Init
  <2> QED
    BY <2>1, <2>2 DEF SourceKnown, None
<1> QED
  BY <1>2, <1>3, <1>4, <1>5 DEF TypeOK

LEMMA NextType ==
  ASSUME TypeOK, SourceKnown, [Next]_vars
  PROVE  TypeOK' /\ SourceKnown'
<1>1. TypeOK'
  <2>1. CASE Reconcile
    BY <2>1, ChecksType, ReadsType, WritingStepsType, ScalewayStepsType DEF Reconcile
  <2>2. CASE \/ Deliver \/ Crash \/ EditSpec \/ DeleteCR \/ EditNamespace
             \/ BecomeReady \/ ChangeInConsole \/ Disappear \/ SourceStep
    BY <2>2, EnvironmentType
  <2>3. CASE UNCHANGED vars
    BY <2>3 DEF vars, TypeOK, KubeOK, JobOK, WorldOK
  <2> QED
    BY <2>1, <2>2, <2>3 DEF Next
<1>2. SourceKnown'
  <2>1. CASE SourceStep
    BY <2>1, SourceStepKnown
  <2>2. CASE ~SourceStep
    <3>1. UNCHANGED secret
      BY <2>2 DEF Next, Reconcile, Start, ReadRole, ReadProject, AddFinalizer, Guard,
           CreateCreds, SyncCreds, ReadCreds, Find, ReadSecret, Access, Create, WriteCreated,
           WriteError, Get, PublishDrift, WriteSynced, WriteGone, DeleteCreds, Delete,
           WriteRefused, RemoveFinalizer, Deliver, Crash, EditSpec, DeleteCR, EditNamespace,
           BecomeReady, ChangeInConsole, Disappear, world, vars, secret
    <3> QED
      BY <3>1 DEF secret, SourceKnown
  <2> QED
    BY <2>1, <2>2
<1> QED
  BY <1>1, <1>2

-----------------------------------------------------------------------------
(* What snapshots know of the CR: it never loses its finalizer while it    *)
(* exists, nor its deletion mark; a snapshot that asks for the destruction *)
(* of the database was the CR once; one that nothing has changed since     *)
(* still is; and what a status tells of a drift was reported or its report *)
(* failed.                                                                 *)

Behind(cr, later) ==
    /\ cr.finalizer /\ later.exists => later.finalizer
    /\ cr.deleting => later.deleting
SnapshotsBehind == Behind(job.cr, live) /\ \A i \in DOMAIN feed : Behind(feed[i], live)

AskKnown(cr) == AsksDestruction(cr) => asked
AsksKnown == /\ AskKnown(live) /\ AskKnown(job.cr)
             /\ \A i \in DOMAIN feed : AskKnown(feed[i])

CurrentIsLive ==
    /\ feed[Len(feed)] = live
    /\ current /\ pc # "idle" => job.cr = live

DriftKnown(status) == status.drift # {} => status.drift \in reported \cup logged
DriftsKnown ==
    /\ DriftKnown(live.status) /\ DriftKnown(job.cr.status)
    /\ \A i \in DOMAIN feed : DriftKnown(feed[i].status)
    /\ pc = "writeSynced" => DriftKnown(job.status)

\* What a step of a reconcile takes for granted of its snapshot.
StepKnows ==
    /\ pc \in {"guard", "createCreds", "find", "secret", "access", "create"} => job.cr.finalizer
    /\ pc \in {"role", "project"} => ~job.cr.deleting
    /\ pc \in {"deleteCreds", "delete", "writeRefused", "removeFinalizer"} => job.cr.deleting
    /\ pc \in {"deleteCreds", "delete"} => ~job.cr.spec.retain
    /\ pc \in {"role", "project", "syncCreds", "get"} => job.sid = job.cr.status.sid

\* A creation comes after a search that found nothing, and a status read back is about
\* the database that runs, if any.
NothingToFind ==
    pc \in {"secret", "access", "create"} => \A d \in DOMAIN dbs : ~dbs[d].alive
FollowsTheOne ==
    pc \in {"event", "writeSynced"} =>
        \A d \in DOMAIN dbs : dbs[d].alive => d = job.status.sid

IInv ==
    /\ TypeOK /\ SourceKnown /\ SnapshotsBehind /\ AsksKnown /\ CurrentIsLive
    /\ DriftsKnown /\ StepKnows /\ NothingToFind /\ FollowsTheOne
    /\ AtMostOneDatabase /\ FinalizerBeforeDatabase /\ KeptUntilDeleted

\* How a step moves the CR ...
Forward ==
    /\ live.deleting => live'.deleting
    /\ live'.exists => live.exists /\ (live.finalizer => live'.finalizer)

LEMMA StepForward ==
  ASSUME TypeOK, SnapshotsBehind, StepKnows, [Next]_vars
  PROVE  Forward
<1>1. live \in CR /\ job.cr \in CR
  BY DEF TypeOK, KubeOK, JobOK, Job
<1>2. CASE AddFinalizer
  BY <1>1, <1>2 DEF AddFinalizer, Patch, Store, kube, Forward, CR
<1>3. CASE RemoveFinalizer
  <2>1. live.deleting
    BY <1>3 DEF RemoveFinalizer, StepKnows, SnapshotsBehind, Behind
  <2> QED
    BY <1>1, <1>3, <2>1 DEF RemoveFinalizer, Patch, Store, kube, Forward, CR
<1>4. CASE WriteCreated \/ WriteError \/ WriteSynced \/ WriteGone \/ WriteRefused
  <2>1. \E status : live' = live \/ live' = [live EXCEPT !.status = status]
    BY <1>4 DEF WriteCreated, WriteError, WriteSynced, WriteGone, WriteRefused,
                PatchStatus, Patch, Store, kube
  <2> QED
    BY <1>1, <2>1 DEF Forward, CR
<1>5. CASE EditSpec \/ DeleteCR
  BY <1>1, <1>5 DEF EditSpec, DeleteCR, Store, Forward, CR
<1>6. CASE \/ Start \/ ReadRole \/ ReadProject \/ Guard \/ CreateCreds \/ SyncCreds
           \/ Find \/ ReadSecret \/ Access \/ Get \/ PublishDrift \/ DeleteCreds
           \/ Create \/ Delete
           \/ Deliver \/ Crash \/ EditNamespace \/ BecomeReady \/ ChangeInConsole
           \/ Disappear \/ SourceStep \/ UNCHANGED vars
  <2>1. live' = live
    BY <1>6 DEF Start, ReadRole, ReadProject, Guard, CreateCreds, SyncCreds, ReadCreds, Find,
                ReadSecret, Access, Get, PublishDrift, DeleteCreds, Create, Delete, Deliver,
                Crash, EditNamespace, BecomeReady, ChangeInConsole, Disappear, SourceStep,
                Untouched, vars, kube
  <2> QED
    BY <2>1 DEF Forward
<1> QED
  BY <1>2, <1>3, <1>4, <1>5, <1>6 DEF Next, Reconcile

\* ... the snapshots on their way ...
LEMMA StepFeed ==
  ASSUME TypeOK, TypeOK', [Next]_vars
  PROVE  \A i \in DOMAIN feed' :
             feed'[i] = live' \/ \E k \in DOMAIN feed : feed'[i] = feed[k]
<1>1. feed \in Seq(CR) /\ feed # <<>> /\ live \in CR /\ live' \in CR
  BY DEF TypeOK, KubeOK
<1>2. CASE feed' = feed
  BY <1>2
<1>3. ASSUME NEW new, live' = new, feed' = Append(feed, new)
      PROVE  \A i \in DOMAIN feed' :
                 feed'[i] = live' \/ \E k \in DOMAIN feed : feed'[i] = feed[k]
  BY <1>1, <1>3, AppendProperties, LenProperties
<1>4. CASE Deliver
  <2>1. feed' = Tail(feed)
    BY <1>4 DEF Deliver
  <2>2. /\ Len(feed) \in Nat /\ DOMAIN feed = 1..Len(feed)
        /\ Tail(feed) \in Seq(CR) /\ Len(Tail(feed)) = Len(feed) - 1
        /\ DOMAIN Tail(feed) = 1..Len(Tail(feed))
        /\ \A i \in 1..Len(Tail(feed)) : Tail(feed)[i] = feed[i + 1]
    BY <1>1, HeadTailProperties, LenProperties
  <2>3. SUFFICES ASSUME NEW i \in DOMAIN feed'
                 PROVE  feed'[i] = feed[i + 1] /\ i + 1 \in DOMAIN feed
    BY <2>3
  <2> QED
    BY <2>1, <2>2, <2>3
<1>5. CASE Crash
  BY <1>5 DEF Crash
<1>6. CASE \/ AddFinalizer \/ WriteCreated \/ WriteError \/ WriteSynced \/ WriteGone
           \/ WriteRefused \/ RemoveFinalizer \/ EditSpec \/ DeleteCR
  <2>1. PICK new : Store(new) \/ UNCHANGED kube
    BY <1>6 DEF AddFinalizer, WriteCreated, WriteError, WriteSynced, WriteGone, WriteRefused,
                RemoveFinalizer, EditSpec, DeleteCR, PatchStatus, Patch
  <2> QED
    BY <1>2, <1>3, <2>1 DEF Store, kube
<1>7. CASE \/ Start \/ ReadRole \/ ReadProject \/ Guard \/ CreateCreds \/ SyncCreds
           \/ Find \/ ReadSecret \/ Access \/ Get \/ PublishDrift \/ DeleteCreds
           \/ Create \/ Delete \/ EditNamespace \/ BecomeReady \/ ChangeInConsole
           \/ Disappear \/ SourceStep \/ UNCHANGED vars
  <2>1. feed' = feed
    BY <1>7 DEF Start, ReadRole, ReadProject, Guard, CreateCreds, SyncCreds, ReadCreds, Find,
                ReadSecret, Access, Get, PublishDrift, DeleteCreds, Create, Delete,
                EditNamespace, BecomeReady, ChangeInConsole, Disappear, SourceStep,
                Untouched, vars, kube
  <2> QED
    BY <1>2, <2>1
<1> QED
  BY <1>4, <1>5, <1>6, <1>7 DEF Next, Reconcile

\* ... and the snapshot of the reconcile under way.
LEMMA StepJob ==
  ASSUME TypeOK, [Next]_vars
  PROVE  \/ job' = NoJob
         \/ job'.cr = job.cr
         \/ \E k \in DOMAIN feed : job'.cr = feed[k]
<1>1. job \in Job /\ feed \in Seq(CR) /\ feed # <<>>
  BY DEF TypeOK, KubeOK, JobOK
<1>2. CASE Start
  <2>1. Head(feed) = feed[1] /\ 1 \in DOMAIN feed /\ Head(feed) \in CR
    BY <1>1, HeadTailProperties, LenProperties, EmptySeq
  <2> DEFINE j == JobFor(Head(feed))
  <2>2. j \in Job /\ j.cr = Head(feed)
    BY <2>1, JobForType
  <2>3. job' = job \/ job' = j \/ \E m : job' = [j EXCEPT !.err = "ConfigError", !.msg = m]
    BY <1>2 DEF Start
  <2> HIDE DEF j
  <2>4. job'.cr = job.cr \/ job'.cr = j.cr
    BY <2>2, <2>3 DEF Job
  <2> QED
    BY <2>1, <2>2, <2>4
<1>3. CASE \/ ReadRole \/ ReadProject \/ Guard \/ CreateCreds \/ SyncCreds
           \/ Find \/ ReadSecret \/ Access \/ Get \/ PublishDrift \/ DeleteCreds
           \/ Create \/ Delete
  BY <1>1, <1>3 DEF ReadRole, ReadProject, Guard, CreateCreds, SyncCreds, ReadCreds, Find,
                    ReadSecret, Access, Get, PublishDrift, DeleteCreds, Create, Delete, Act,
                    WriteIfChanged, Goto, Return, Fail, FailWithStatus, Job
<1>4. CASE \/ AddFinalizer \/ WriteCreated \/ WriteError \/ WriteSynced \/ WriteGone
           \/ WriteRefused \/ RemoveFinalizer
  BY <1>4 DEF AddFinalizer, WriteCreated, WriteError, WriteSynced, WriteGone, WriteRefused,
              RemoveFinalizer, Return, Fail
<1>5. CASE \/ Deliver \/ Crash \/ EditSpec \/ DeleteCR \/ EditNamespace \/ BecomeReady
           \/ ChangeInConsole \/ Disappear \/ SourceStep \/ UNCHANGED vars
  BY <1>5 DEF Deliver, Crash, EditSpec, DeleteCR, EditNamespace, BecomeReady,
              ChangeInConsole, Disappear, SourceStep, Untouched, vars
<1> QED
  BY <1>2, <1>3, <1>4, <1>5 DEF Next, Reconcile

LEMMA NextSnapshotsBehind ==
  ASSUME IInv, TypeOK', [Next]_vars
  PROVE  SnapshotsBehind'
<1>1. TypeOK /\ SnapshotsBehind /\ StepKnows
  BY DEF IInv
<1>2. Forward
  BY <1>1, StepForward
<1>3. ASSUME NEW cr, Behind(cr, live) PROVE Behind(cr, live')
  BY <1>2, <1>3 DEF Behind, Forward
<1>4. ASSUME NEW i \in DOMAIN feed' PROVE Behind(feed'[i], live')
  <2>1. CASE feed'[i] = live'
    BY <2>1 DEF Behind
  <2>2. ASSUME NEW k \in DOMAIN feed, feed'[i] = feed[k] PROVE Behind(feed'[i], live')
    BY <1>1, <1>3, <2>2 DEF SnapshotsBehind
  <2> QED
    BY <1>1, <1>4, <2>1, <2>2, StepFeed
<1>5. Behind(job'.cr, live')
  <2>1. CASE job' = NoJob
    BY <2>1 DEF NoJob, JobFor, NewCR, Behind
  <2>2. CASE job'.cr = job.cr
    BY <1>1, <1>3, <2>2 DEF SnapshotsBehind
  <2>3. ASSUME NEW k \in DOMAIN feed, job'.cr = feed[k] PROVE Behind(job'.cr, live')
    BY <1>1, <1>3, <2>3 DEF SnapshotsBehind
  <2> QED
    BY <1>1, <2>1, <2>2, <2>3, StepJob
<1> QED
  BY <1>4, <1>5 DEF SnapshotsBehind

\* A step writes the CR, and then its reconcile is over or not under way, or leaves it.
LEMMA StepWrites ==
  ASSUME [Next]_vars
  PROVE  \/ (\E new : Store(new)) /\ (pc' = "idle" \/ UNCHANGED <<pc, job>>)
         \/ UNCHANGED <<live, asked>>
<1>1. CASE \/ AddFinalizer \/ WriteCreated \/ WriteError \/ WriteSynced \/ WriteGone
           \/ WriteRefused \/ RemoveFinalizer
  <2>1. pc' = "idle"
    BY <1>1 DEF AddFinalizer, WriteCreated, WriteError, WriteSynced, WriteGone, WriteRefused,
                RemoveFinalizer, Return, Fail
  <2>2. (\E new : Store(new)) \/ UNCHANGED kube
    BY <1>1 DEF AddFinalizer, WriteCreated, WriteError, WriteSynced, WriteGone, WriteRefused,
                RemoveFinalizer, PatchStatus, Patch
  <2> QED
    BY <2>1, <2>2 DEF kube
<1>2. CASE EditSpec \/ DeleteCR
  BY <1>2 DEF EditSpec, DeleteCR
<1>3. CASE \/ Start \/ ReadRole \/ ReadProject \/ Guard \/ CreateCreds \/ SyncCreds
           \/ Find \/ ReadSecret \/ Access \/ Get \/ PublishDrift \/ DeleteCreds
           \/ Create \/ Delete
           \/ Deliver \/ Crash \/ EditNamespace \/ BecomeReady \/ ChangeInConsole
           \/ Disappear \/ SourceStep \/ UNCHANGED vars
  BY <1>3 DEF Start, ReadRole, ReadProject, Guard, CreateCreds, SyncCreds, ReadCreds, Find,
              ReadSecret, Access, Get, PublishDrift, DeleteCreds, Create, Delete, Deliver,
              Crash, EditNamespace, BecomeReady, ChangeInConsole, Disappear, SourceStep,
              Untouched, vars, kube
<1> QED
  BY <1>1, <1>2, <1>3 DEF Next, Reconcile

\* No request to destroy is forgotten, and every CR that makes one is noted.
LEMMA NextAsksKnown ==
  ASSUME IInv, TypeOK', [Next]_vars
  PROVE  AsksKnown'
<1>1. TypeOK /\ AsksKnown
  BY DEF IInv
<1>2. (asked => asked') /\ (AsksDestruction(live') => asked')
  <2>1. ASSUME NEW new, Store(new) PROVE (asked => asked') /\ (AsksDestruction(live') => asked')
    BY <2>1 DEF Store
  <2>2. CASE UNCHANGED <<live, asked>>
    BY <1>1, <2>2 DEF AsksKnown, AskKnown
  <2> QED
    BY <2>1, <2>2, StepWrites
<1>3. ASSUME NEW cr, AskKnown(cr), AsksDestruction(cr) PROVE asked'
  BY <1>2, <1>3 DEF AskKnown
<1>4. ASSUME NEW i \in DOMAIN feed', AsksDestruction(feed'[i]) PROVE asked'
  <2>1. CASE feed'[i] = live'
    BY <1>2, <1>4, <2>1
  <2>2. ASSUME NEW k \in DOMAIN feed, feed'[i] = feed[k] PROVE asked'
    BY <1>1, <1>3, <1>4, <2>2 DEF AsksKnown
  <2> QED
    BY <1>1, <1>4, <2>1, <2>2, StepFeed
<1>5. ASSUME AsksDestruction(job'.cr) PROVE asked'
  <2>1. job' # NoJob
    BY <1>5 DEF NoJob, JobFor, NewCR, AsksDestruction
  <2>2. CASE job'.cr = job.cr
    BY <1>1, <1>3, <1>5, <2>2 DEF AsksKnown
  <2>3. ASSUME NEW k \in DOMAIN feed, job'.cr = feed[k] PROVE asked'
    BY <1>1, <1>3, <1>5, <2>3 DEF AsksKnown
  <2> QED
    BY <1>1, <2>1, <2>2, <2>3, StepJob
<1> QED
  BY <1>2, <1>4, <1>5 DEF AsksKnown, AskKnown

\* The last event under way, or delivered, is the CR as it is; so is the snapshot of a
\* reconcile that started from it, until someone writes.
LEMMA NextCurrentIsLive ==
  ASSUME IInv, TypeOK', [Next]_vars
  PROVE  CurrentIsLive'
<1>1. /\ CurrentIsLive /\ job \in Job
      /\ feed \in Seq(CR) /\ feed # <<>> /\ live \in CR /\ live' \in CR
  BY DEF IInv, TypeOK, KubeOK, JobOK
<1>2. /\ Len(feed) \in Nat \ {0} /\ DOMAIN feed = 1..Len(feed)
      /\ Head(feed) = feed[1] /\ Head(feed) \in CR
  BY <1>1, HeadTailProperties, LenProperties, EmptySeq
<1>3. ASSUME UNCHANGED <<live, feed, current>>,
             pc' = "idle" \/ UNCHANGED <<pc, job>> \/ (pc # "idle" /\ job'.cr = job.cr)
      PROVE  CurrentIsLive'
  BY <1>1, <1>3 DEF CurrentIsLive
<1>4. ASSUME NEW new, Store(new), pc' = "idle" \/ UNCHANGED <<pc, job>>
      PROVE  CurrentIsLive'
  <2>1. CASE new = live
    BY <1>1, <1>4, <2>1 DEF Store, CurrentIsLive
  <2>2. CASE new # live
    <3>1. live' = new /\ feed' = Append(feed, new) /\ current' = FALSE
      BY <1>4, <2>2 DEF Store
    <3>2. feed'[Len(feed')] = new
      BY <1>1, <3>1, AppendProperties
    <3> QED
      BY <3>1, <3>2 DEF CurrentIsLive
  <2> QED
    BY <2>1, <2>2
<1>5. CASE \/ AddFinalizer \/ WriteCreated \/ WriteError \/ WriteSynced \/ WriteGone
           \/ WriteRefused \/ RemoveFinalizer
  <2>1. pc' = "idle"
    BY <1>5 DEF AddFinalizer, WriteCreated, WriteError, WriteSynced, WriteGone, WriteRefused,
                RemoveFinalizer, Return, Fail
  <2>2. (\E new : Store(new)) \/ UNCHANGED kube
    BY <1>5 DEF AddFinalizer, WriteCreated, WriteError, WriteSynced, WriteGone, WriteRefused,
                RemoveFinalizer, PatchStatus, Patch
  <2> QED
    BY <1>3, <1>4, <2>1, <2>2 DEF kube
<1>6. CASE EditSpec \/ DeleteCR
  BY <1>4, <1>6 DEF EditSpec, DeleteCR
<1>7. CASE Start
  <2> DEFINE j == JobFor(Head(feed))
  <2>1. j \in Job /\ j.cr = Head(feed)
    BY <1>2, JobForType
  <2>2. UNCHANGED <<live, feed>> /\ current' = (Len(feed) = 1) /\ pc = "idle"
    BY <1>7 DEF Start
  <2>3. pc' = pc \/ job' = j \/ \E m : job' = [j EXCEPT !.err = "ConfigError", !.msg = m]
    BY <1>7 DEF Start
  <2> HIDE DEF j
  <2>4. pc' = "idle" \/ job'.cr = Head(feed)
    BY <2>1, <2>2, <2>3 DEF Job
  <2> QED
    BY <1>1, <1>2, <2>2, <2>4 DEF CurrentIsLive
<1>8. CASE \/ ReadRole \/ ReadProject \/ Guard \/ CreateCreds \/ SyncCreds
           \/ Find \/ ReadSecret \/ Access \/ Get \/ PublishDrift \/ DeleteCreds
           \/ Create \/ Delete
  <2>1. UNCHANGED <<live, feed, current>> /\ pc # "idle"
    BY <1>8 DEF ReadRole, ReadProject, Guard, CreateCreds, SyncCreds, ReadCreds, Find,
                ReadSecret, Access, Get, PublishDrift, DeleteCreds, Create, Delete, kube
  <2>2. pc' = "idle" \/ job'.cr = job.cr
    BY <1>1, <1>8 DEF ReadRole, ReadProject, Guard, CreateCreds, SyncCreds, ReadCreds, Find,
                      ReadSecret, Access, Get, PublishDrift, DeleteCreds, Create, Delete, Act,
                      WriteIfChanged, Goto, Return, Fail, FailWithStatus, Job
  <2> QED
    BY <1>3, <2>1, <2>2
<1>9. CASE Deliver
  <2>1. UNCHANGED <<live, current, pc, job>> /\ feed' = Tail(feed) /\ Len(feed) > 1
    BY <1>9 DEF Deliver
  <2>2. Len(Tail(feed)) = Len(feed) - 1 /\ \A i \in 1..Len(Tail(feed)) : Tail(feed)[i] = feed[i + 1]
    BY <1>1, HeadTailProperties
  <2>3. feed'[Len(feed')] = feed[Len(feed)]
    BY <1>2, <2>1, <2>2
  <2> QED
    BY <1>1, <2>1, <2>3 DEF CurrentIsLive
<1>10. CASE Crash
  <2>1. feed' = <<live>> /\ live' = live /\ pc' = "idle"
    BY <1>10 DEF Crash
  <2>2. feed'[Len(feed')] = live
    BY <2>1
  <2> QED
    BY <2>1, <2>2 DEF CurrentIsLive
<1>11. CASE \/ EditNamespace \/ BecomeReady \/ ChangeInConsole \/ Disappear \/ SourceStep
            \/ UNCHANGED vars
  BY <1>3, <1>11 DEF EditNamespace, BecomeReady, ChangeInConsole, Disappear, SourceStep,
                     Untouched, vars, kube
<1> QED
  BY <1>5, <1>6, <1>7, <1>8, <1>9, <1>10, <1>11 DEF Next, Reconcile

-----------------------------------------------------------------------------
(* The steps of a reconcile, and the databases. *)

LEMMA NextStepKnows ==
  ASSUME IInv, [Next]_vars
  PROVE  StepKnows'
<1>1. StepKnows /\ job \in Job
  BY DEF IInv, TypeOK, JobOK
<1>2. CASE Start
  <2>1. Head(feed) \in CR
    BY HeadTailProperties DEF IInv, TypeOK, KubeOK
  <2> DEFINE j == JobFor(Head(feed))
  <2>2. j.cr = Head(feed) /\ j.sid = j.cr.status.sid
    BY <2>1, JobForType DEF JobFor
  <2>3. \/ UNCHANGED <<pc, job>>
        \/ pc' = "writeError"
        \/ pc' = "role" /\ job' = j /\ ~j.cr.deleting
        \/ /\ pc' = "deleteCreds" /\ job' = j /\ j.cr.deleting
           /\ DecideNextAction(j) = "DeleteInstance"
        \/ pc' = "removeFinalizer" /\ job' = j /\ j.cr.deleting
    BY <1>2, <2>2 DEF Start
  <2> HIDE DEF j
  <2>4. DecideNextAction(j) = "DeleteInstance" => ~j.cr.spec.retain
    BY DEF DecideNextAction, DeletesInstance
  <2> QED
    BY <1>1, <2>2, <2>3, <2>4 DEF StepKnows
<1>3. CASE ReadProject
  <2>1. CASE FailWithStatus(job, "ConfigError", "project")
    BY <2>1 DEF FailWithStatus, Goto, StepKnows
  <2>2. CASE Act(job) /\ pc = "project"
    BY <1>1, <2>2 DEF Act, DecideNextAction, LacksFinalizer, Goto, FailWithStatus, StepKnows
  <2> QED
    BY <1>3, <2>1, <2>2 DEF ReadProject
<1>4. CASE CreateCreds \/ SyncCreds
  BY <1>1, <1>4 DEF CreateCreds, SyncCreds, ReadCreds, Goto, FailWithStatus, StepKnows
<1>5. CASE ReadRole \/ Guard \/ Find
  BY <1>1, <1>5 DEF ReadRole, Guard, Find, Goto, Return, Fail, FailWithStatus, StepKnows, Job
<1>6. CASE ReadSecret \/ Access \/ Create
  BY <1>1, <1>6 DEF ReadSecret, Access, Create, Goto, FailWithStatus, StepKnows, Job
<1>7. CASE Get \/ PublishDrift
  <2>1. pc' \in {"writeError", "writeGone", "event", "idle", "writeSynced"}
    BY <1>7 DEF Get, PublishDrift, WriteIfChanged, Goto, Return, FailWithStatus
  <2> QED
    BY <2>1 DEF StepKnows
<1>8. CASE DeleteCreds \/ Delete
  BY <1>1, <1>8 DEF DeleteCreds, Delete, Goto, Return, Fail, StepKnows, Job
<1>9. CASE \/ AddFinalizer \/ WriteCreated \/ WriteError \/ WriteSynced \/ WriteGone
           \/ WriteRefused \/ RemoveFinalizer
  BY <1>9 DEF AddFinalizer, WriteCreated, WriteError, WriteSynced, WriteGone, WriteRefused,
              RemoveFinalizer, Return, Fail, StepKnows
<1>10. CASE \/ Deliver \/ Crash \/ EditSpec \/ DeleteCR \/ EditNamespace \/ BecomeReady
            \/ ChangeInConsole \/ Disappear \/ SourceStep \/ UNCHANGED vars
  BY <1>1, <1>10 DEF Deliver, Crash, EditSpec, DeleteCR, EditNamespace, BecomeReady,
                     ChangeInConsole, Disappear, SourceStep, Untouched, vars, StepKnows
<1> QED
  BY <1>2, <1>3, <1>4, <1>5, <1>6, <1>7, <1>8, <1>9, <1>10 DEF Next, Reconcile

\* What a step brings to life: only a creation adds a database.
NoneAppears == \A d \in DOMAIN dbs' : dbs'[d].alive => DatabaseIsAlive(d)

LEMMA StepDatabases ==
  ASSUME TypeOK, [Next]_vars
  PROVE  NoneAppears \/ (Create /\ dbs' = WithNew)
<1>1. dbs \in Seq(Database)
  BY DEF TypeOK, WorldOK
<1>2. CASE dbs' = dbs
  BY <1>2 DEF NoneAppears, DatabaseIsAlive
<1>3. CASE Create
  BY <1>2, <1>3, ScalewayStepsType
<1>4. CASE Delete
  <2>1. CASE DatabaseIsAlive(job.sid) /\ dbs' = Without(job.sid)
    BY <1>1, <2>1, WithoutType DEF DatabaseIsAlive, NoneAppears
  <2> QED
    BY <1>2, <1>4, <2>1, ScalewayStepsType
<1>5. CASE \/ Deliver \/ Crash \/ EditSpec \/ DeleteCR \/ EditNamespace \/ BecomeReady
           \/ ChangeInConsole \/ Disappear \/ SourceStep
  BY <1>5, EnvironmentType DEF NoneAppears, DatabaseIsAlive
<1>6. CASE \/ Start \/ ReadRole \/ ReadProject \/ AddFinalizer \/ Guard \/ CreateCreds \/ Find
           \/ ReadSecret \/ Access \/ WriteCreated \/ WriteError \/ SyncCreds \/ Get
           \/ PublishDrift \/ WriteSynced \/ WriteGone \/ DeleteCreds \/ WriteRefused
           \/ RemoveFinalizer \/ UNCHANGED vars
  <2>1. dbs' = dbs
    BY <1>6 DEF Start, ReadRole, ReadProject, AddFinalizer, Guard, CreateCreds, Find,
                ReadSecret, Access, WriteCreated, WriteError, SyncCreds, ReadCreds, Get,
                PublishDrift, WriteSynced, WriteGone, DeleteCreds, WriteRefused,
                RemoveFinalizer, vars
  <2> QED
    BY <1>2, <2>1
<1> QED
  BY <1>3, <1>4, <1>5, <1>6 DEF Next, Reconcile

LEMMA NextNothingToFind ==
  ASSUME IInv, [Next]_vars
  PROVE  NothingToFind'
<1>1. TypeOK /\ NothingToFind
  BY DEF IInv
<1> DEFINE Searched == {"secret", "access", "create"}
<1>2. SUFFICES ASSUME pc' \in Searched
               PROVE  \A d \in DOMAIN dbs' : ~dbs'[d].alive
  BY DEF NothingToFind
<1>3. CASE Find
  BY <1>2, <1>3 DEF Find, DatabasesToAdopt, Goto, FailWithStatus
<1>4. CASE pc \in Searched /\ NoneAppears
  BY <1>1, <1>4 DEF NothingToFind, NoneAppears, DatabaseIsAlive
<1>5. Find \/ pc \in Searched
  <2>1. CASE Reconcile
    BY <1>2, <2>1 DEF Reconcile, Start, ReadRole, ReadProject, Act, AddFinalizer, Guard,
         CreateCreds, SyncCreds, ReadCreds, ReadSecret, Access, Create, WriteCreated,
         WriteError, Get, PublishDrift, WriteIfChanged, WriteSynced, WriteGone, DeleteCreds,
         Delete, WriteRefused, RemoveFinalizer, Goto, Return, Fail, FailWithStatus
  <2>2. CASE ~Reconcile
    BY <1>2, <2>2 DEF Next, Deliver, Crash, EditSpec, DeleteCR, EditNamespace, BecomeReady,
                      ChangeInConsole, Disappear, SourceStep, Untouched, vars
  <2> QED
    BY <2>1, <2>2
<1>6. ~Create
  BY <1>2 DEF Create, Goto, FailWithStatus
<1> QED
  BY <1>1, <1>3, <1>4, <1>5, <1>6, StepDatabases

LEMMA NextDatabases ==
  ASSUME IInv, [Next]_vars
  PROVE  AtMostOneDatabase' /\ FinalizerBeforeDatabase'
<1>1. /\ TypeOK /\ SnapshotsBehind /\ StepKnows /\ NothingToFind
      /\ AtMostOneDatabase /\ FinalizerBeforeDatabase
      /\ dbs \in Seq(Database) /\ job \in Job
  BY DEF IInv, TypeOK, WorldOK, JobOK
<1>2. Forward
  BY <1>1, StepForward
<1>3. CASE NoneAppears
  BY <1>1, <1>2, <1>3
  DEF NoneAppears, AtMostOneDatabase, FinalizerBeforeDatabase, DatabaseIsAlive, Forward
<1>4. CASE Create /\ dbs' = WithNew
  <2>1. \A d \in DOMAIN dbs : ~dbs[d].alive
    BY <1>1, <1>4 DEF Create, NothingToFind
  <2>2. \A d \in DOMAIN dbs' : dbs'[d].alive => d = Len(dbs) + 1
    BY <1>1, <1>4, <2>1, WithNewType
  <2>3. live' = live /\ (live.exists => live.finalizer)
    BY <1>1, <1>4 DEF Create, kube, StepKnows, SnapshotsBehind, Behind
  <2> QED
    BY <2>2, <2>3 DEF AtMostOneDatabase, FinalizerBeforeDatabase, DatabaseIsAlive
<1> QED
  BY <1>1, <1>3, <1>4, StepDatabases

LEMMA NextFollowsTheOne ==
  ASSUME IInv, [Next]_vars
  PROVE  FollowsTheOne'
<1>1. /\ TypeOK /\ StepKnows /\ FollowsTheOne /\ AtMostOneDatabase
      /\ dbs \in Seq(Database) /\ job \in Job
  BY DEF IInv, TypeOK, WorldOK, JobOK
<1> DEFINE Told == {"event", "writeSynced"}
<1>2. SUFFICES ASSUME pc' \in Told
               PROVE  \A d \in DOMAIN dbs' : dbs'[d].alive => d = job'.status.sid
  BY DEF FollowsTheOne
<1>3. CASE Get
  <2> DEFINE st == SyncedStatus(job.cr.status, job.cr.spec, dbs[job.sid])
             j == [job EXCEPT !.status = st]
  <2>1. DatabaseIsAlive(job.sid) /\ job' = j /\ dbs' = dbs
    BY <1>2, <1>3 DEF Get, WriteIfChanged, Goto, Return, FailWithStatus
  <2>2. st.sid = job.sid
    <3>1. dbs[job.sid] \in Database
      BY <1>1, <2>1, DatabaseType DEF DatabaseIsAlive
    <3>2. job.cr.status \in Status /\ job.cr.spec \in Specs
      BY <1>1 DEF Job, CR
    <3>3. job.sid = job.cr.status.sid
      BY <1>1, <1>3 DEF Get, StepKnows
    <3> QED
      BY <3>1, <3>2, <3>3, SyncedStatusType
  <2> HIDE DEF st
  <2>3. job'.status.sid = job.sid
    BY <1>1, <2>1, <2>2 DEF Job
  <2> QED
    BY <1>1, <2>1, <2>3 DEF AtMostOneDatabase, DatabaseIsAlive
<1>4. CASE PublishDrift
  <2>1. job' = job /\ dbs' = dbs /\ pc = "event"
    BY <1>2, <1>4 DEF PublishDrift, WriteIfChanged, Goto, Return
  <2> QED
    BY <1>1, <2>1 DEF FollowsTheOne
<1>5. CASE ~Get /\ ~PublishDrift
  <2>1. pc \in Told /\ job' = job /\ ~Create
    <3>1. CASE Reconcile
      BY <1>2, <1>5, <3>1 DEF Reconcile, Start, ReadRole, ReadProject, Act, AddFinalizer,
           Guard, CreateCreds, SyncCreds, ReadCreds, Find, ReadSecret, Access, Create,
           WriteCreated, WriteError, WriteSynced, WriteGone, DeleteCreds, Delete,
           WriteRefused, RemoveFinalizer, Goto, Return, Fail, FailWithStatus
    <3>2. CASE ~Reconcile
      BY <1>2, <3>2 DEF Next, Reconcile, Deliver, Crash, EditSpec, DeleteCR, EditNamespace,
                        BecomeReady, ChangeInConsole, Disappear, SourceStep, Untouched, vars
    <3> QED
      BY <3>1, <3>2
  <2> QED
    BY <1>1, <2>1, StepDatabases DEF FollowsTheOne, NoneAppears, DatabaseIsAlive
<1> QED
  BY <1>3, <1>4, <1>5

\* The finalizer is only given up from three places.
LEMMA NextKept ==
  ASSUME IInv, [Next]_vars
  PROVE  KeptUntilDeleted'
<1>1. TypeOK /\ KeptUntilDeleted /\ StepKnows /\ dbs \in Seq(Database) /\ job \in Job
  BY DEF IInv, TypeOK, WorldOK, JobOK
<1>2. SUFFICES ASSUME pc' = "removeFinalizer", job'.sid # None, ~job'.cr.spec.retain
               PROVE  \/ ~(job'.sid \in DOMAIN dbs' /\ dbs'[job'.sid].alive)
                      \/ job'.err = "ConfigError"
  BY DEF KeptUntilDeleted, DatabaseIsAlive
<1>3. CASE Start
  <2>1. Head(feed) \in CR
    BY HeadTailProperties DEF IInv, TypeOK, KubeOK
  <2> DEFINE j == JobFor(Head(feed))
  <2>2. j.cr = Head(feed) /\ j.sid = j.cr.status.sid
    BY <2>1, JobForType DEF JobFor
  <2>3. \/ UNCHANGED <<pc, job, dbs>>
        \/ job' = j /\ j.cr.deleting /\ DecideNextAction(j) # "DeleteInstance"
    BY <1>2, <1>3, <2>2 DEF Start
  <2> HIDE DEF j
  <2>4. UNCHANGED <<pc, job, dbs>>
    BY <1>2, <2>2, <2>3 DEF DecideNextAction, DeletesInstance
  <2> QED
    BY <1>1, <1>2, <2>4 DEF KeptUntilDeleted, DatabaseIsAlive
<1>4. CASE DeleteCreds
  <2>1. job'.err = "ConfigError"
    BY <1>1, <1>2, <1>4 DEF DeleteCreds, IsPermanent, PermanentErrors, Goto, Return, Fail, Job
  <2> QED
    BY <2>1
<1>5. CASE Delete
  <2>1. job' = job
    BY <1>2, <1>5 DEF Delete, Goto, Return, Fail
  <2>2. IF DatabaseIsAlive(job.sid) THEN dbs' = Without(job.sid) ELSE dbs' = dbs
    BY <1>2, <1>5 DEF Delete, ScalewayCall, Without, Goto, Return, Fail
  <2>3. CASE DatabaseIsAlive(job.sid)
    BY <1>1, <2>1, <2>2, <2>3, WithoutType DEF DatabaseIsAlive
  <2>4. CASE ~DatabaseIsAlive(job.sid)
    BY <2>1, <2>2, <2>4 DEF DatabaseIsAlive
  <2> QED
    BY <2>3, <2>4
<1>6. CASE ReadProject
  <2>1. ~job.cr.deleting
    BY <1>1, <1>6 DEF ReadProject, StepKnows
  <2> QED
    BY <1>2, <1>6, <2>1 DEF ReadProject, Act, DecideNextAction, Goto, FailWithStatus
<1>7. CASE ~Start /\ ~DeleteCreds /\ ~Delete /\ ~ReadProject
  <2>1. pc = "removeFinalizer" /\ job' = job /\ ~Create
    <3>1. CASE Reconcile
      BY <1>2, <1>7, <3>1 DEF Reconcile, ReadRole, AddFinalizer, Guard, CreateCreds,
           SyncCreds, ReadCreds, Find, ReadSecret, Access, Create, WriteCreated, WriteError,
           Get, PublishDrift, WriteIfChanged, WriteSynced, WriteGone, WriteRefused,
           RemoveFinalizer, Goto, Return, Fail, FailWithStatus
    <3>2. CASE ~Reconcile
      BY <1>2, <3>2 DEF Next, Reconcile, Deliver, Crash, EditSpec, DeleteCR, EditNamespace,
                        BecomeReady, ChangeInConsole, Disappear, SourceStep, Untouched, vars
    <3> QED
      BY <3>1, <3>2
  <2> QED
    BY <1>1, <1>2, <2>1, StepDatabases DEF KeptUntilDeleted, NoneAppears, DatabaseIsAlive
<1> QED
  BY <1>3, <1>4, <1>5, <1>6, <1>7

-----------------------------------------------------------------------------
(* The drifts. *)

\* A reconcile writes the drift of its snapshot, none, or, after the GET, the one it
\* read.
LEMMA StepStatus ==
  ASSUME TypeOK, [Next]_vars
  PROVE  \/ live'.status.drift \in {{}, live.status.drift, job.cr.status.drift}
         \/ pc = "writeSynced" /\ live'.status = job.status
<1>1. live \in CR /\ job \in Job /\ job.cr.status \in Status
  BY DEF TypeOK, KubeOK, JobOK, Job, CR
<1>2. CASE WriteCreated \/ WriteError \/ WriteRefused \/ WriteGone \/ WriteSynced
  <2> DEFINE st == {CreatedStatus(job), ErrorStatus(job), RefusedStatus(job)}
  <2>1. \A s \in st : s.drift = job.cr.status.drift
    BY <1>1 DEF CreatedStatus, ErrorStatus, RefusedStatus, Status
  <2>2. GoneStatus(job).drift = {}
    BY DEF GoneStatus, NewStatus
  <2>3. \/ \E s \in st \cup {GoneStatus(job)} : live' \in {live, [live EXCEPT !.status = s]}
        \/ pc = "writeSynced" /\ live' \in {live, [live EXCEPT !.status = job.status]}
    BY <1>2 DEF WriteCreated, WriteError, WriteRefused, WriteGone, WriteSynced, PatchStatus,
                Patch, Store, kube
  <2> HIDE DEF st
  <2> QED
    BY <1>1, <2>1, <2>2, <2>3 DEF CR
<1>3. CASE AddFinalizer \/ RemoveFinalizer \/ EditSpec \/ DeleteCR
  <2>1. live'.status = live.status
    BY <1>1, <1>3 DEF AddFinalizer, RemoveFinalizer, EditSpec, DeleteCR, Patch, Store, kube,
                      CR
  <2> QED
    BY <2>1
<1>4. CASE \/ Start \/ ReadRole \/ ReadProject \/ Guard \/ CreateCreds \/ SyncCreds
           \/ Find \/ ReadSecret \/ Access \/ Get \/ PublishDrift \/ DeleteCreds
           \/ Create \/ Delete
           \/ Deliver \/ Crash \/ EditNamespace \/ BecomeReady \/ ChangeInConsole
           \/ Disappear \/ SourceStep \/ UNCHANGED vars
  <2>1. live' = live
    BY <1>4 DEF Start, ReadRole, ReadProject, Guard, CreateCreds, SyncCreds, ReadCreds, Find,
                ReadSecret, Access, Get, PublishDrift, DeleteCreds, Create, Delete, Deliver,
                Crash, EditNamespace, BecomeReady, ChangeInConsole, Disappear, SourceStep,
                Untouched, vars, kube
  <2> QED
    BY <2>1
<1> QED
  BY <1>2, <1>3, <1>4 DEF Next, Reconcile

\* Only PublishDrift reports, or logs that it could not; nothing forgets.
LEMMA StepReported ==
  ASSUME [Next]_vars
  PROVE  /\ reported \subseteq reported' /\ logged \subseteq logged'
         /\ PublishDrift => job.status.drift \in reported' \cup logged'
<1>1. CASE PublishDrift
  BY <1>1 DEF PublishDrift
<1>2. CASE ~PublishDrift
  BY <1>2 DEF Next, Reconcile, Start, ReadRole, ReadProject, AddFinalizer, Guard, CreateCreds,
       SyncCreds, ReadCreds, Find, ReadSecret, Access, Create, WriteCreated, WriteError, Get,
       WriteSynced, WriteGone, DeleteCreds, Delete, WriteRefused, RemoveFinalizer, Deliver,
       Crash, EditSpec, DeleteCR, EditNamespace, BecomeReady, ChangeInConsole, Disappear,
       SourceStep, Untouched, vars, told
<1> QED
  BY <1>1, <1>2

LEMMA NextDriftsKnown ==
  ASSUME IInv, TypeOK', [Next]_vars
  PROVE  DriftsKnown'
<1>1. TypeOK /\ DriftsKnown /\ job \in Job
  BY DEF IInv, TypeOK, JobOK
<1>2. /\ reported \subseteq reported' /\ logged \subseteq logged'
      /\ PublishDrift => job.status.drift \in reported' \cup logged'
  BY StepReported
<1> DEFINE Known(st) == st.drift # {} => st.drift \in reported' \cup logged'
<1>3. \A st : DriftKnown(st) => Known(st)
  BY <1>2 DEF DriftKnown
<1>4. Known(live'.status)
  <2>1. Known(live.status) /\ Known(job.cr.status)
    BY <1>1, <1>3 DEF DriftsKnown
  <2>2. pc = "writeSynced" => Known(job.status)
    BY <1>1, <1>3 DEF DriftsKnown
  <2> QED
    BY <1>1, <2>1, <2>2, StepStatus
<1>5. ASSUME NEW k \in DOMAIN feed PROVE Known(feed[k].status)
  BY <1>1, <1>3 DEF DriftsKnown
<1>6. \A i \in DOMAIN feed' : Known(feed'[i].status)
  <2>1. SUFFICES ASSUME NEW i \in DOMAIN feed' PROVE Known(feed'[i].status)
    OBVIOUS
  <2> QED
    BY <1>1, <1>4, <1>5, StepFeed
<1>7. Known(job'.cr.status)
  <2>1. CASE job' = NoJob
    BY <2>1 DEF NoJob, JobFor, NewCR, NewStatus
  <2>2. CASE job'.cr = job.cr
    BY <1>1, <1>3, <2>2 DEF DriftsKnown
  <2>3. ASSUME NEW k \in DOMAIN feed, job'.cr = feed[k] PROVE Known(job'.cr.status)
    BY <1>5, <2>3
  <2> QED
    BY <1>1, <2>1, <2>2, <2>3, StepJob
<1>8. ASSUME pc' = "writeSynced" PROVE Known(job'.status)
  <2>1. CASE PublishDrift
    BY <1>2, <1>8, <2>1 DEF PublishDrift, WriteIfChanged, Goto, Return
  <2>2. CASE Get
    <3> DEFINE st == SyncedStatus(job.cr.status, job.cr.spec, dbs[job.sid])
               j == [job EXCEPT !.status = st]
    <3>1. j.status = st /\ j.cr = job.cr
      BY <1>1 DEF Job
    <3>2. job' = j /\ ~ShouldEmit(job.cr.status.drift, st.drift)
      BY <1>8, <2>2, <3>1 DEF Get, WriteIfChanged, Goto, Return, FailWithStatus
    <3> HIDE DEF st
    <3>3. st.drift = {} \/ st.drift = job.cr.status.drift
      BY <3>2 DEF ShouldEmit
    <3> QED
      BY <1>1, <1>3, <3>1, <3>2, <3>3 DEF DriftsKnown
  <2>3. CASE ~Get /\ ~PublishDrift
    <3>1. pc = "writeSynced" /\ job' = job
      <4>1. CASE Reconcile
        BY <1>8, <2>3, <4>1 DEF Reconcile, Start, ReadRole, ReadProject, Act, AddFinalizer,
             Guard, CreateCreds, SyncCreds, ReadCreds, Find, ReadSecret, Access, Create,
             WriteCreated, WriteError, WriteSynced, WriteGone, DeleteCreds, Delete,
             WriteRefused, RemoveFinalizer, Goto, Return, Fail, FailWithStatus
      <4>2. CASE ~Reconcile
        BY <1>8, <4>2 DEF Next, Reconcile, Deliver, Crash, EditSpec, DeleteCR, EditNamespace,
                          BecomeReady, ChangeInConsole, Disappear, SourceStep, Untouched, vars
      <4> QED
        BY <4>1, <4>2
    <3> QED
      BY <1>1, <1>3, <3>1 DEF DriftsKnown
  <2> QED
    BY <2>1, <2>2, <2>3
<1> QED
  BY <1>4, <1>6, <1>7, <1>8 DEF DriftsKnown, DriftKnown

-----------------------------------------------------------------------------
(* The theorems. *)

LEMMA InitIInv == Init => IInv
<1> SUFFICES ASSUME Init PROVE IInv
  OBVIOUS
<1>1. DOMAIN dbs = {}
  BY EmptySeq, LenProperties DEF Init
<1>2. PICK sp \in Specs : live = NewCR(sp)
  BY DEF Init
<1>3. live.status = NewStatus /\ job.cr.status = NewStatus /\ NewStatus.drift = {}
  BY <1>2 DEF Init, NewCR, NoJob, JobFor, NewStatus
<1>4. feed = <<live>> /\ DOMAIN feed = {1} /\ feed[1] = live
  BY DEF Init
<1>5. SnapshotsBehind /\ AsksKnown /\ CurrentIsLive
  <2>1. /\ ~live.deleting /\ ~live.finalizer /\ pc = "idle"
        /\ ~job.cr.deleting /\ ~job.cr.finalizer
    BY <1>2 DEF Init, NoJob, JobFor, NewCR
  <2>2. Len(feed) = 1
    BY <1>4
  <2> QED
    BY <1>4, <2>1, <2>2
    DEF SnapshotsBehind, Behind, AsksKnown, AskKnown, AsksDestruction, CurrentIsLive
<1>6. DriftsKnown
  BY <1>3, <1>4 DEF Init, DriftsKnown, DriftKnown
<1>7. StepKnows /\ NothingToFind /\ FollowsTheOne /\ KeptUntilDeleted
  BY DEF Init, StepKnows, NothingToFind, FollowsTheOne, KeptUntilDeleted
<1>8. AtMostOneDatabase /\ FinalizerBeforeDatabase
  BY <1>1 DEF AtMostOneDatabase, FinalizerBeforeDatabase
<1> QED
  BY <1>5, <1>6, <1>7, <1>8, InitType DEF IInv

LEMMA Invariance == Spec => []IInv
<1>1. Init => IInv
  BY InitIInv
<1>2. IInv /\ [Next]_vars => IInv'
  <2> SUFFICES ASSUME IInv, [Next]_vars PROVE IInv'
    OBVIOUS
  <2>1. TypeOK' /\ SourceKnown'
    BY NextType DEF IInv
  <2>2. SnapshotsBehind' /\ AsksKnown' /\ CurrentIsLive' /\ DriftsKnown'
    BY <2>1, NextSnapshotsBehind, NextAsksKnown, NextCurrentIsLive, NextDriftsKnown
  <2>3. StepKnows' /\ NothingToFind' /\ FollowsTheOne'
    BY NextStepKnows, NextNothingToFind, NextFollowsTheOne
  <2>4. AtMostOneDatabase' /\ FinalizerBeforeDatabase' /\ KeptUntilDeleted'
    BY NextDatabases, NextKept
  <2> QED
    BY <2>1, <2>2, <2>3, <2>4 DEF IInv
<1> QED
  BY <1>1, <1>2, PTL DEF Spec

\* Type correctness: among others every sync_state written is one of the six the
\* CRD documents, and job.sid is always the id of a secret or of a database.
THEOREM TypeCorrect == Spec => []TypeOK
<1>1. IInv => TypeOK
  BY DEF IInv
<1> QED
  BY <1>1, Invariance, PTL

\* However often snapshots are stale, answers are lost, or the process restarts, no CR
\* has two databases: execute_create_rdb_instance creates after a search by tags that
\* found nothing, though it reads a password in between.
THEOREM OneDatabase == Spec => []AtMostOneDatabase
<1>1. IInv => AtMostOneDatabase
  BY DEF IInv
<1> QED
  BY <1>1, Invariance, PTL

\* A CR with a database has its finalizer, though the snapshot that decided to create
\* may be old and the CR deleted meanwhile (decide_next_action_rdb).
THEOREM FinalizerFirst == Spec => []FinalizerBeforeDatabase
<1>1. IInv => FinalizerBeforeDatabase
  BY DEF IInv
<1> QED
  BY <1>1, Invariance, PTL

\* The finalizer of a CR to be deleted outlives its database, unless the namespace has
\* no credentials: neither a refusal nor an API server that fails gives it up
\* (DeleteInstance).
THEOREM KeptUntilGone == Spec => []KeptUntilDeleted
<1>1. IInv => KeptUntilDeleted
  BY DEF IInv
<1> QED
  BY <1>1, Invariance, PTL

\* A drift in the status had its Event, or the publication of it failed and was logged:
\* crashes, lost status writes and outdated snapshots lose none (SyncInstance,
\* should_emit_drift_event, publish_rdb_drift_event).
THEOREM DriftsReported == Spec => []DriftReportedFirst
<1>1. IInv => DriftReportedFirst
  BY DEF IInv, DriftsKnown, DriftKnown, DriftReportedFirst
<1> QED
  BY <1>1, Invariance, PTL

\* Only Delete destroys, on a policy that the CR had while it was being deleted, and
\* still has if nothing changed it since the snapshot: an edit to Retain is honoured by
\* every pass that sees it, also while the deletion is being retried (DeleteInstance).
THEOREM RetainObeyed == Spec => RetainHonoured
<1> DEFINE Honoured ==
      \A d \in DOMAIN dbs : Destroys(d) => asked /\ (current => ~live.spec.retain)
<1>1. IInv /\ [Next]_vars => Honoured
  <2> SUFFICES ASSUME IInv, [Next]_vars PROVE Honoured
    OBVIOUS
  <2>1. /\ TypeOK /\ AsksKnown /\ CurrentIsLive /\ StepKnows
        /\ dbs \in Seq(Database) /\ job \in Job
    BY DEF IInv, TypeOK, WorldOK, JobOK
  <2>2. CASE dbs' = dbs
    BY <2>2 DEF Destroys, DatabaseIsAlive
  <2>3. CASE Create
    <3>1. CASE dbs' = WithNew
      BY <2>1, <3>1, WithNewType DEF Destroys, DatabaseIsAlive
    <3> QED
      BY <2>1, <2>2, <2>3, <3>1, ScalewayStepsType
  <2>4. CASE Delete
    <3>1. pc = "delete" /\ AsksDestruction(job.cr)
      BY <2>1, <2>4 DEF Delete, StepKnows, AsksDestruction
    <3>2. asked
      BY <2>1, <3>1 DEF AsksKnown, AskKnown
    <3>3. current => ~live.spec.retain
      BY <2>1, <3>1 DEF CurrentIsLive, AsksDestruction
    <3> QED
      BY <3>2, <3>3
  <2>5. CASE \/ Deliver \/ Crash \/ EditSpec \/ DeleteCR \/ EditNamespace \/ BecomeReady
             \/ ChangeInConsole \/ Disappear \/ SourceStep
    BY <2>1, <2>5, EnvironmentType DEF Destroys, DatabaseIsAlive
  <2>6. CASE \/ Start \/ ReadRole \/ ReadProject \/ AddFinalizer \/ Guard \/ CreateCreds
             \/ Find \/ ReadSecret \/ Access \/ WriteCreated \/ WriteError \/ SyncCreds
             \/ Get \/ PublishDrift \/ WriteSynced \/ WriteGone \/ DeleteCreds
             \/ WriteRefused \/ RemoveFinalizer \/ UNCHANGED vars
    <3>1. dbs' = dbs
      BY <2>6 DEF Start, ReadRole, ReadProject, AddFinalizer, Guard, CreateCreds, Find,
                  ReadSecret, Access, WriteCreated, WriteError, SyncCreds, ReadCreds, Get,
                  PublishDrift, WriteSynced, WriteGone, DeleteCreds, WriteRefused,
                  RemoveFinalizer, vars
    <3> QED
      BY <2>2, <3>1
  <2> QED
    BY <2>3, <2>4, <2>5, <2>6 DEF Next, Reconcile
<1>2. IInv /\ [Next]_vars => [Honoured]_vars
  BY <1>1
<1> QED
  BY <1>2, Invariance, PTL DEF Spec, RetainHonoured

\* Only the status read back says Synced, and it names the database that runs, though
\* others may have run, and the status been lost, before (build_rdb_status).
THEOREM SyncedNamesIt == Spec => SyncedNamesDatabase
<1> DEFINE Named ==
      live'.status # live.status /\ live'.status.sync = "Synced"
          => \A d \in DOMAIN dbs : DatabaseIsAlive(d) => d = live'.status.sid
<1>1. IInv /\ [Next]_vars => Named
  <2> SUFFICES ASSUME IInv, [Next]_vars,
                      live'.status # live.status, live'.status.sync = "Synced"
               PROVE  \A d \in DOMAIN dbs : DatabaseIsAlive(d) => d = live'.status.sid
    OBVIOUS
  <2>1. FollowsTheOne /\ live \in CR /\ job \in Job /\ job.cr.status \in Status
    BY DEF IInv, TypeOK, KubeOK, JobOK, Job, CR
  <2>2. CASE WriteSynced
    <3>1. pc = "writeSynced" /\ live'.status = job.status
      BY <2>1, <2>2 DEF WriteSynced, PatchStatus, Patch, Store, kube, CR
    <3> QED
      BY <2>1, <3>1 DEF FollowsTheOne, DatabaseIsAlive
  <2>3. CASE WriteCreated \/ WriteError \/ WriteRefused \/ WriteGone
    <3> DEFINE st == {CreatedStatus(job), ErrorStatus(job), RefusedStatus(job), GoneStatus(job)}
    <3>1. \A s \in st : s.sync # "Synced"
      <4>1. CreatedStatus(job).sync = "Syncing" /\ RefusedStatus(job).sync = "Deleting"
        BY <2>1 DEF CreatedStatus, RefusedStatus, Status
      <4>2. ErrorStatus(job).sync \in {"Pending", "Error"}
        BY <2>1 DEF ErrorStatus, Status
      <4>3. GoneStatus(job).sync = "Pending"
        BY DEF GoneStatus, NewStatus
      <4> QED
        BY <4>1, <4>2, <4>3
    <3>2. \E s \in st : live' \in {live, [live EXCEPT !.status = s]}
      BY <2>3 DEF WriteCreated, WriteError, WriteRefused, WriteGone, PatchStatus, Patch,
                  Store, kube
    <3> HIDE DEF st
    <3> QED
      BY <2>1, <3>1, <3>2 DEF CR
  <2>4. CASE ~WriteSynced /\ ~WriteCreated /\ ~WriteError /\ ~WriteRefused /\ ~WriteGone
    <3>1. live'.status = live.status
      BY <2>1, <2>4 DEF Next, Reconcile, Start, ReadRole, ReadProject, AddFinalizer, Guard,
           CreateCreds, SyncCreds, ReadCreds, Find, ReadSecret, Access, Create, Get,
           PublishDrift, DeleteCreds, Delete, RemoveFinalizer, Deliver, Crash, EditSpec,
           DeleteCR, EditNamespace, BecomeReady, ChangeInConsole, Disappear, SourceStep,
           Untouched, vars, kube, Patch, Store, CR
    <3> QED
      BY <3>1
  <2> QED
    BY <2>2, <2>3, <2>4
<1>2. IInv /\ [Next]_vars => [Named]_vars
  BY <1>1
<1> QED
  BY <1>2, Invariance, PTL DEF Spec, SyncedNamesDatabase

=============================================================================
