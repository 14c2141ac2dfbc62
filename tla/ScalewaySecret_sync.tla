------------------------ MODULE ScalewaySecret_sync ------------------------
(***************************************************************************)
(* What one pod keeps true between the CR, the source Secret and Secret    *)
(* Manager: what statuses and snapshots say of the versions, what a        *)
(* reconcile that has passed is_cached_cr_current knows of the CR, why     *)
(* ScalewaySecret implements SecretSync, and why a value is pushed once.   *)
(***************************************************************************)
EXTENDS ScalewaySecret_safety

-----------------------------------------------------------------------------
(* The invariant. *)

\* The CR and its copies: in the cache, on their way to it, and in the reconcile.
Around(p, cr) == {live, cr} \cup {feed[p][i] : i \in DOMAIN feed[p]}

\* The version that st names is enabled and holds what st records.
Holds(st) ==
    /\ HasVersion(scw, st.sid, st.ver)
    /\ scw[st.sid].versions[st.ver] =
           [payload |-> [rv |-> st.rv, gen |-> st.ogen, granted |-> TRUE], enabled |-> TRUE]

\* A resourceVersion of the source that was read with the opt-in.
Consented(rv) == rv < source.rv \/ (rv = source.rv /\ OptInGranted(source))

\* c does not claim to be in sync.
Stale(c) ==
    c.deleting \/ c.status.rv = None \/ c.status.rv # source.rv \/ c.status.ogen # c.gen

Faithful(c) ==
    /\ c.status.sid \in {None} \cup DOMAIN scw
    /\ c.status.sid = None => c.status.rv = None
    /\ c.status.rv # None => c.status.ogen # None
    /\ c.status.ogen <= c.gen /\ c.gen \in 1..live.gen
    /\ Consented(c.status.rv)
    /\ Stale(c) \/ Holds(c.status)
SnapshotsFaithful(p) == \A c \in Around(p, job[p].cr) : Faithful(c)

\* The cache moves forward, and a reconcile that finds it up to date sees the CR.
Precedes(c, d) == c.gen <= d.gen /\ (c.deleting => d.deleting)
Ordered(p) ==
    /\ feed[p][Len(feed[p])] = live
    /\ \A i, k \in DOMAIN feed[p] : i <= k => Precedes(feed[p][i], feed[p][k])
    /\ \A i \in DOMAIN feed[p] : Precedes(job[p].cr, feed[p][i])
CurrentIsLive(p) ==
    current[p] /\ pc[p] # "idle" => job[p].cr = live /\ feed[p] = <<live>>

\* What a reconcile knows: always, and at the steps that follow from an answer.
KnowsOf(j) ==
    /\ j.sid \in {None} \cup DOMAIN scw
    /\ j.cr.status.sid \in {None, j.sid}
    /\ Consented(j.rv)
Committed ==
    {"project", "creds", "find", "create", "writePreliminary", "version", "writeSynced"}
KnowsAt(p, step, j) ==
    /\ step \in Pushing \cup {"writeSynced"} => j.rv # None
    /\ step = "guard" => Stale(j.cr)
    /\ step \in Committed =>
           /\ live.exists /\ j.cr.finalizer
           /\ \A c \in Around(p, j.cr) : Stale(c)
    /\ step \in {"project", "find", "create", "writePreliminary"} => j.cr.status.sid = None
    /\ step \in {"project", "creds", "find", "create", "writePreliminary"}
           => live.status.sid = j.cr.status.sid
    /\ step \in {"version", "writeSynced"} => live.status.sid = j.sid
    /\ step \in {"revokeCreds", "disable"}
           => \A c \in Around(p, j.cr) : c.status.rv < source.rv
    /\ step = "writeSynced" => Holds(SyncedStatus(j))
    /\ step = "writeAlreadySynced" => j.cr.status.ogen # None /\ Holds(j.cr.status)
JobKnows(p) == KnowsOf(job[p]) /\ KnowsAt(p, pc[p], job[p])

\* Every change of the source or of the spec is one operation of a user.
Counted == source.rv \in 1..(ops + 1) /\ live.gen <= ops + 1

SyncInv ==
    /\ SafeInv /\ Counted
    /\ \A p \in Pods :
           SnapshotsFaithful(p) /\ Ordered(p) /\ CurrentIsLive(p) /\ JobKnows(p)

-----------------------------------------------------------------------------
(* How a step changes the CR and the snapshot of a reconcile. *)

StatusWritten(p, st) ==
    /\ live.exists /\ live' = [live EXCEPT !.status = st]
    /\ \/ WriteRevoked(p) /\ st = RevokedStatus(job[p])
       \/ WriteError(p) /\ st = ErrorStatus(job[p])
       \/ WritePreliminary(p) /\ st = PreliminaryStatus(job[p])
       \/ WriteSynced(p) /\ st = SyncedStatus(job[p])
       \/ WriteAlreadySynced(p) /\ st = AlreadySyncedStatus(job[p])

\* The finalizer is added or taken off.
Marked ==
    /\ live'.status = live.status /\ live'.gen = live.gen /\ live'.spec = live.spec
    /\ live'.deleting = live.deleting
    /\ UNCHANGED <<source, ns, ops, scw>>
    /\ \E p \in Pods : AddFinalizer(p) \/ RemoveFinalizer(p)

\* A user edits the spec, or deletes the CR.
Reissued ==
    /\ live.exists /\ live'.status = live.status /\ live'.gen = live.gen + 1
    /\ live.deleting => live'.deleting
    /\ live.finalizer => live'.exists
    /\ ops' = ops + 1
    /\ UNCHANGED <<source, ns, scw, pc, job>>

LEMMA PatchedStatus ==
  ASSUME TypeOK, NEW st, NEW ok, PatchStatus(st, ok)
  PROVE  live' = live \/ (live.exists /\ live' = [live EXCEPT !.status = st])
  BY DEF PatchStatus, Patch, Store, kube

LEMMA EditedLive ==
  ASSUME KubeOK, EditSpec \/ DeleteCR
  PROVE  Reissued
<1>1. live \in CR
  BY DEF KubeOK
<1>2. live.exists /\ ops' = ops + 1 /\ UNCHANGED <<source, ns, scw, pc, job>>
  BY DEF EditSpec, DeleteCR, UserOp
<1>3. ASSUME NEW sp \in Specs, live' = [live EXCEPT !.spec = sp, !.gen = @ + 1]
      PROVE  Reissued
  BY <1>1, <1>2, <1>3 DEF Reissued, CR
<1>4. ASSUME live' = [live EXCEPT !.deleting = TRUE, !.gen = @ + 1,
                                  !.exists = live.finalizer]
      PROVE  Reissued
  BY <1>1, <1>2, <1>4 DEF Reissued, CR
<1> QED
  BY <1>3, <1>4 DEF EditSpec, DeleteCR, Store

LEMMA StepLive ==
  ASSUME TypeOK, [Next]_vars
  PROVE  \/ live' = live
         \/ \E p \in Pods, st \in Status : StatusWritten(p, st)
         \/ Marked \/ Reissued
<1>1. live \in CR /\ job \in [Pods -> Job]
  BY DEF TypeOK, KubeOK, PodsOK
<1>2. ASSUME NEW p \in Pods,
             \/ WriteRevoked(p) \/ WriteError(p) \/ WritePreliminary(p) \/ WriteSynced(p)
             \/ WriteAlreadySynced(p)
      PROVE  live' = live \/ \E st \in Status : StatusWritten(p, st)
  <2>1. /\ RevokedStatus(job[p]) \in Status /\ ErrorStatus(job[p]) \in Status
        /\ PreliminaryStatus(job[p]) \in Status /\ SyncedStatus(job[p]) \in Status
        /\ AlreadySyncedStatus(job[p]) \in Status
    BY <1>1, StatusTypes
  <2>2. CASE WriteRevoked(p)
    BY <2>1, <2>2, PatchedStatus DEF WriteRevoked, StatusWritten
  <2>3. CASE WriteError(p)
    BY <2>1, <2>3, PatchedStatus DEF WriteError, StatusWritten
  <2>4. CASE WritePreliminary(p)
    BY <2>1, <2>4, PatchedStatus DEF WritePreliminary, StatusWritten
  <2>5. CASE WriteSynced(p)
    BY <2>1, <2>5, PatchedStatus DEF WriteSynced, StatusWritten
  <2>6. CASE WriteAlreadySynced(p)
    BY <2>1, <2>6, PatchedStatus DEF WriteAlreadySynced, StatusWritten
  <2> QED
    BY <1>2, <2>2, <2>3, <2>4, <2>5, <2>6
<1>3. ASSUME NEW p \in Pods, AddFinalizer(p) \/ RemoveFinalizer(p)
      PROVE  Marked \/ live' = live
  <2>1. UNCHANGED <<source, ns, ops, scw>>
    BY <1>3 DEF AddFinalizer, RemoveFinalizer, users
  <2>2. \/ live' = live \/ live' = [live EXCEPT !.finalizer = TRUE]
        \/ live' = [live EXCEPT !.finalizer = FALSE, !.exists = ~live.deleting]
    BY <1>3 DEF AddFinalizer, RemoveFinalizer, Patch, Store, kube
  <2> QED
    BY <1>1, <1>3, <2>1, <2>2 DEF Marked, CR
<1>4. CASE EditSpec \/ DeleteCR
  BY <1>1, <1>4, EditedLive DEF TypeOK
<1>5. CASE \/ \E p \in Pods :
                 \/ Start(p) \/ Checks(p) \/ ReadRole(p) \/ ReadSource(p) \/ RevokeCreds(p)
                 \/ Disabling(p) \/ Guard(p) \/ ReadProject(p) \/ ReadCreds(p) \/ Find(p)
                 \/ Create(p) \/ CreateVersion(p) \/ DeleteCreds(p) \/ Delete(p)
                 \/ Deliver(p) \/ Crash(p)
           \/ EditSource \/ EditNamespace \/ UNCHANGED vars
  BY <1>5 DEF Start, Checks, ReadRole, ReadSource, RevokeCreds, Disabling, Guard,
              ReadProject, ReadCreds, Find, Create, CreateVersion, DeleteCreds, Delete,
              Deliver, Crash, EditSource, EditNamespace, vars, kube
<1> QED
  BY <1>2, <1>3, <1>4, <1>5 DEF Next, Reconcile

\* A reconcile keeps its snapshot until it returns.
Busy(q) ==
    \/ pc'[q] = "idle" /\ job'[q] = NoJob
    \/ Start(q)
    \/ pc[q] # "idle" /\ job'[q].cr = job[q].cr

LEMMA StepBusy ==
  ASSUME TypeOK, [Next]_vars, NEW q \in Pods
  PROVE  Busy(q) \/ (pc'[q] = pc[q] /\ job'[q] = job[q])
<1>1. PodsOK /\ \A p \in Pods : job[p] \in Job
  BY DEF TypeOK, PodsOK
<1>2. ASSUME NEW p \in Pods, pc[p] # "idle",
             \/ \E again : Return(p, again)
             \/ \E err : Fail(p, err)
             \/ \E j : /\ j.cr = job[p].cr
                       /\ \/ \E step : Goto(p, step, j)
                          \/ \E err, msg : j \in Job /\ FailWithStatus(p, j, err, msg)
                          \/ \E keyPresent : j \in Job /\ Act(p, j, keyPresent)
      PROVE  Busy(q) \/ (pc'[q] = pc[q] /\ job'[q] = job[q])
  <2>1. \A j \in Job : \A err, msg : [j EXCEPT !.err = err, !.msg = msg].cr = j.cr
    BY DEF Job
  <2>2. \/ \E again : Return(p, again)
        \/ \E err : Fail(p, err)
        \/ \E step, j : Goto(p, step, j) /\ j.cr = job[p].cr
    <3>1. ASSUME NEW j \in Job, j.cr = job[p].cr,
                 NEW err, NEW msg, FailWithStatus(p, j, err, msg)
          PROVE  \E step, k : Goto(p, step, k) /\ k.cr = job[p].cr
      <4>1. /\ Goto(p, "writeError", [j EXCEPT !.err = err, !.msg = msg])
            /\ [j EXCEPT !.err = err, !.msg = msg].cr = job[p].cr
        BY <2>1, <3>1 DEF FailWithStatus
      <4> QED
        BY <4>1
    <3>2. ASSUME NEW j \in Job, j.cr = job[p].cr, NEW keyPresent, Act(p, j, keyPresent)
          PROVE  \/ \E again : Return(p, again) \/ Fail(p, again)
                 \/ \E step, k : Goto(p, step, k) /\ k.cr = job[p].cr
      BY <3>1, <3>2 DEF Act
    <3> QED
      BY <1>2, <3>1, <3>2
  <2>3. CASE \E step, j : Goto(p, step, j) /\ j.cr = job[p].cr
    BY <1>1, <1>2, <2>3 DEF Goto, PodsOK, Busy
  <2>4. CASE \E again : Return(p, again) \/ Fail(p, again)
    BY <1>1, <2>4 DEF Fail, Return, PodsOK, Busy
  <2> QED
    BY <2>2, <2>3, <2>4
<1>3. ASSUME NEW p \in Pods,
             \/ Checks(p) \/ ReadRole(p) \/ RevokeCreds(p) \/ Disabling(p) \/ WriteRevoked(p)
             \/ WriteError(p) \/ AddFinalizer(p) \/ Guard(p) \/ ReadCreds(p)
             \/ WritePreliminary(p) \/ WriteSynced(p) \/ WriteAlreadySynced(p)
             \/ DeleteCreds(p) \/ Delete(p) \/ RemoveFinalizer(p)
      PROVE  Busy(q) \/ (pc'[q] = pc[q] /\ job'[q] = job[q])
  <2>1. pc[p] # "idle"
    BY <1>3 DEF Checks, ReadRole, RevokeCreds, Disabling, WriteRevoked, WriteError,
                AddFinalizer, Guard, ReadCreds, WritePreliminary, WriteSynced,
                WriteAlreadySynced, DeleteCreds, Delete, RemoveFinalizer
  <2>2. \/ \E again : Return(p, again)
        \/ \E err : Fail(p, err)
        \/ \E err, msg : FailWithStatus(p, job[p], err, msg)
        \/ \E step : Goto(p, step, job[p])
        \/ Act(p, job[p], FALSE)
    BY <1>3 DEF Checks, ReadRole, RevokeCreds, Disabling, WriteRevoked, WriteError,
                AddFinalizer, Guard, ReadCreds, WritePreliminary, WriteSynced,
                WriteAlreadySynced, DeleteCreds, Delete, RemoveFinalizer
  <2> QED
    BY <1>1, <1>2, <2>1, <2>2
<1>4. ASSUME NEW p \in Pods,
             ReadSource(p) \/ ReadProject(p) \/ Find(p) \/ Create(p) \/ CreateVersion(p)
      PROVE  Busy(q) \/ (pc'[q] = pc[q] /\ job'[q] = job[q])
  <2> DEFINE j == [job[p] EXCEPT !.rv = source.rv, !.granted = source.optIn]
  <2>1. job[p] \in Job /\ source.rv \in Nat /\ source.optIn \in BOOLEAN /\ pc[p] # "idle"
    BY <1>1, <1>4 DEF TypeOK, UsersOK, ReadSource, ReadProject, Find, Create, CreateVersion
  <2>2. j \in Job /\ j.cr = job[p].cr
    BY <2>1 DEF Job
  <2>3. \/ \E err : Fail(p, err)
        \/ \E err, msg : FailWithStatus(p, job[p], err, msg)
        \/ \E step : Goto(p, step, job[p])
        \/ Act(p, job[p], FALSE)
        \/ Act(p, j, job[p].cr.spec.key \in source.keys)
        \/ \E step, project, s, ver :
               \/ Goto(p, step, [job[p] EXCEPT !.project = project])
               \/ Goto(p, step, [job[p] EXCEPT !.sid = s])
               \/ Goto(p, step, [job[p] EXCEPT !.ver = ver])
    BY <1>4 DEF ReadSource, OptInMissing, ReadProject, Find, Create, CreateVersion
  <2> HIDE DEF j
  <2>4. \A project, s, ver :
            /\ [job[p] EXCEPT !.project = project].cr = job[p].cr
            /\ [job[p] EXCEPT !.sid = s].cr = job[p].cr
            /\ [job[p] EXCEPT !.ver = ver].cr = job[p].cr
    BY <2>1 DEF Job
  <2> QED
    BY <1>2, <2>1, <2>2, <2>3, <2>4
<1>5. ASSUME NEW p \in Pods, Start(p) \/ Crash(p)
      PROVE  Busy(q) \/ (pc'[q] = pc[q] /\ job'[q] = job[q])
  BY <1>1, <1>5 DEF Start, Crash, PodsOK, Busy
<1>6. CASE \/ \E p \in Pods : Deliver(p)
            \/ EditSpec \/ DeleteCR \/ EditSource \/ EditNamespace \/ UNCHANGED vars
  BY <1>6 DEF Deliver, EditSpec, DeleteCR, EditSource, EditNamespace, vars
<1> QED
  BY <1>3, <1>4, <1>5, <1>6 DEF Next, Reconcile

\* A write reaches every cache, which is then not up to date.
FeedMoved(q) ==
    \/ live' = live /\ feed'[q] = feed[q] /\ (current'[q] = current[q] \/ Start(q))
    \/ feed'[q] = Append(feed[q], live') /\ ~current'[q]
    \/ live' = live /\ Len(feed[q]) > 1 /\ feed'[q] = Tail(feed[q])
       /\ UNCHANGED <<current, pc, job>>
    \/ live' = live /\ feed'[q] = <<live>> /\ pc'[q] = "idle"

LEMMA StepFeedMoved ==
  ASSUME TypeOK, [Next]_vars, NEW q \in Pods
  PROVE  FeedMoved(q)
<1>1. /\ feed \in [Pods -> Seq(CR)] /\ current \in [Pods -> BOOLEAN]
      /\ pc \in [Pods -> Steps]
  BY DEF TypeOK, KubeOK, PodsOK
<1>2. CASE UNCHANGED kube
  BY <1>2 DEF FeedMoved, kube
<1>3. CASE \E new : Store(new)
  BY <1>1, <1>3 DEF Store, FeedMoved
<1>4. CASE \/ \E p \in Pods :
                 \/ WriteRevoked(p) \/ WriteError(p) \/ WritePreliminary(p) \/ WriteSynced(p)
                 \/ WriteAlreadySynced(p) \/ AddFinalizer(p) \/ RemoveFinalizer(p)
           \/ EditSpec \/ DeleteCR
  <2>1. UNCHANGED kube \/ \E new : Store(new)
    BY <1>4 DEF WriteRevoked, WriteError, WritePreliminary, WriteSynced, WriteAlreadySynced,
                AddFinalizer, RemoveFinalizer, EditSpec, DeleteCR, PatchStatus, Patch
  <2> QED
    BY <1>2, <1>3, <2>1
<1>5. CASE \/ \E p \in Pods :
                 \/ Checks(p) \/ ReadRole(p) \/ ReadSource(p) \/ RevokeCreds(p)
                 \/ Disabling(p) \/ Guard(p) \/ ReadProject(p) \/ ReadCreds(p) \/ Find(p)
                 \/ Create(p) \/ CreateVersion(p) \/ DeleteCreds(p) \/ Delete(p)
           \/ EditSource \/ EditNamespace \/ UNCHANGED vars
  <2>1. UNCHANGED kube
    BY <1>5 DEF Checks, ReadRole, ReadSource, RevokeCreds, Disabling, Guard, ReadProject,
                ReadCreds, Find, Create, CreateVersion, DeleteCreds, Delete,
                EditSource, EditNamespace, vars, kube
  <2> QED
    BY <1>2, <2>1
<1>6. ASSUME NEW p \in Pods, Start(p) PROVE FeedMoved(q)
  BY <1>1, <1>6 DEF Start, FeedMoved
<1>7. ASSUME NEW p \in Pods, Deliver(p) PROVE FeedMoved(q)
  BY <1>1, <1>7 DEF Deliver, FeedMoved
<1>8. ASSUME NEW p \in Pods, Crash(p) PROVE FeedMoved(q)
  BY <1>1, <1>8 DEF Crash, FeedMoved
<1> QED
  BY <1>4, <1>5, <1>6, <1>7, <1>8 DEF Next, Reconcile

LEMMA StepPrecedes ==
  ASSUME TypeOK, [Next]_vars
  PROVE  Precedes(live, live') /\ live'.gen \in live.gen..(live.gen + 1)
<1>1. live \in CR
  BY DEF TypeOK, KubeOK
<1>2. ASSUME NEW p \in Pods, NEW st \in Status, StatusWritten(p, st)
      PROVE  live'.gen = live.gen /\ live'.deleting = live.deleting
  BY <1>1, <1>2 DEF StatusWritten, CR
<1>3. live.gen \in Nat
  BY <1>1 DEF CR
<1> QED
  BY <1>2, <1>3, StepLive DEF Marked, Reissued, Precedes

-----------------------------------------------------------------------------
(* The order of the snapshots. *)

LEMMA NextOrdered ==
  ASSUME TypeOK, TypeOK', NEW p \in Pods, Ordered(p), SnapshotsFaithful(p), [Next]_vars
  PROVE  Ordered(p)'
<1>1. /\ feed[p] \in Seq(CR) /\ feed[p] # <<>> /\ feed'[p] \in Seq(CR) /\ live' \in CR
      /\ DOMAIN feed[p] = 1..Len(feed[p]) /\ Len(feed[p]) \in Nat /\ live \in CR
      /\ Len(feed[p]) # 0 /\ job[p].cr \in CR /\ job'[p].cr \in CR
      /\ DOMAIN feed'[p] = 1..Len(feed'[p]) /\ Len(feed'[p]) \in Nat
  BY LenProperties, EmptySeq DEF TypeOK, KubeOK, PodsOK, Job
<1>2. \A i \in 1..Len(feed[p]) : feed[p][i] \in CR
  BY <1>1, ElementOfSeq
<1>3. \A a \in CR, b \in CR, c \in CR : Precedes(a, b) /\ Precedes(b, c) => Precedes(a, c)
  BY DEF Precedes, CR
<1>4. Precedes(live, live')
  BY StepPrecedes
<1> DEFINE Rising(f) == \A i, k \in 1..Len(f) : i <= k => Precedes(f[i], f[k])
           Above(f, cr) == \A i \in 1..Len(f) : Precedes(cr, f[i])
<1>5. /\ feed[p][Len(feed[p])] = live /\ Rising(feed[p]) /\ Above(feed[p], job[p].cr)
      /\ \A i \in 1..Len(feed[p]) : Precedes(feed[p][i], live)
  <2>1. feed[p][Len(feed[p])] = live /\ Rising(feed[p]) /\ Above(feed[p], job[p].cr)
    BY <1>1 DEF Ordered
  <2> QED
    BY <1>1, <2>1
<1>6. /\ feed'[p][Len(feed'[p])] = live' /\ Rising(feed'[p])
      /\ \A cr \in CR : Above(feed[p], cr) => Above(feed'[p], cr)
  <2>1. CASE feed'[p] = feed[p] /\ live' = live
    BY <1>5, <2>1
  <2>2. CASE feed'[p] = Append(feed[p], live')
    <3>1. /\ Len(feed'[p]) = Len(feed[p]) + 1 /\ feed'[p][Len(feed[p]) + 1] = live'
          /\ \A i \in 1..Len(feed[p]) : feed'[p][i] = feed[p][i]
      BY <1>1, <2>2, AppendProperties
    <3>2. \A i \in 1..Len(feed[p]) : Precedes(feed[p][i], live')
      BY <1>1, <1>2, <1>3, <1>4, <1>5
    <3>3. Precedes(live', live')
      BY <1>1 DEF Precedes, CR
    <3>4. Rising(feed'[p])
      <4> SUFFICES ASSUME NEW i \in 1..Len(feed'[p]), NEW k \in 1..Len(feed'[p]), i <= k
                   PROVE  Precedes(feed'[p][i], feed'[p][k])
        OBVIOUS
      <4>1. CASE k \in 1..Len(feed[p])
        BY <1>1, <1>5, <3>1, <4>1
      <4>2. CASE k = Len(feed[p]) + 1
        <5>1. i \in 1..Len(feed[p]) \/ i = Len(feed[p]) + 1
          BY <1>1, <3>1
        <5> QED
          BY <3>1, <3>2, <3>3, <4>2, <5>1
      <4> QED
        BY <1>1, <3>1, <4>1, <4>2
    <3>5. ASSUME NEW cr \in CR, Above(feed[p], cr), NEW i \in 1..Len(feed'[p])
          PROVE  Precedes(cr, feed'[p][i])
      <4>1. CASE i \in 1..Len(feed[p])
        BY <3>1, <3>5, <4>1
      <4>2. CASE i = Len(feed[p]) + 1
        <5>1. Precedes(cr, live)
          BY <1>1, <1>5, <3>5
        <5> QED
          BY <1>1, <1>3, <1>4, <3>1, <4>2, <5>1
      <4> QED
        BY <1>1, <3>1, <4>1, <4>2
    <3> QED
      BY <3>1, <3>4, <3>5
  <2>3. CASE live' = live /\ Len(feed[p]) > 1 /\ feed'[p] = Tail(feed[p])
    <3>1. /\ Len(feed'[p]) = Len(feed[p]) - 1
          /\ \A i \in 1..Len(feed'[p]) : feed'[p][i] = feed[p][i + 1]
      BY <1>1, <2>3, HeadTailProperties
    <3>2. /\ Len(feed'[p]) \in 1..Len(feed'[p]) /\ Len(feed'[p]) + 1 = Len(feed[p])
          /\ \A i \in 1..Len(feed'[p]) : i + 1 \in 1..Len(feed[p])
      BY <1>1, <2>3, <3>1
    <3>3. feed'[p][Len(feed'[p])] = live'
      BY <1>5, <2>3, <3>1, <3>2
    <3>4. Rising(feed'[p])
      <4> SUFFICES ASSUME NEW i \in 1..Len(feed'[p]), NEW k \in 1..Len(feed'[p]), i <= k
                   PROVE  Precedes(feed[p][i + 1], feed[p][k + 1])
        BY <3>1
      <4>1. i + 1 <= k + 1
        OBVIOUS
      <4> QED
        BY <1>5, <3>2, <4>1
    <3>5. \A cr \in CR : Above(feed[p], cr) => Above(feed'[p], cr)
      BY <3>1, <3>2
    <3> QED
      BY <3>3, <3>4, <3>5
  <2>4. CASE live' = live /\ feed'[p] = <<live>>
    <3>1. Len(feed'[p]) = 1 /\ feed'[p][1] = live
      BY <2>4
    <3>2. Precedes(live, live)
      BY <1>1 DEF Precedes, CR
    <3>3. \A i \in 1..Len(feed'[p]) : feed'[p][i] = live
      BY <3>1
    <3>4. Rising(feed'[p])
      BY <3>2, <3>3
    <3>5. \A cr \in CR : Above(feed[p], cr) => Above(feed'[p], cr)
      BY <1>1, <1>5, <3>3
    <3> QED
      BY <2>4, <3>1, <3>4, <3>5
  <2> QED
    BY <2>1, <2>2, <2>3, <2>4, StepFeedMoved DEF FeedMoved
<1>7. Above(feed'[p], job'[p].cr)
  <2>1. CASE job'[p].cr = job[p].cr
    BY <1>1, <1>5, <1>6, <2>1
  <2>2. CASE job'[p] = NoJob
    <3>1. NoJob.cr.gen = 1 /\ ~NoJob.cr.deleting
      BY DEF NoJob, JobFor, NewCR
    <3>2. \A i \in 1..Len(feed[p]) : feed[p][i].gen >= 1
      <4>1. \A i \in DOMAIN feed[p] : Faithful(feed[p][i])
        BY DEF SnapshotsFaithful, Around
      <4> QED
        BY <1>1, <4>1 DEF Faithful, CR
    <3>3. Above(feed[p], NoJob.cr)
      BY <3>1, <3>2 DEF Precedes
    <3> QED
      BY <1>1, <1>6, <2>2, <3>3
  <2>3. ASSUME Start(p) PROVE Above(feed'[p], job'[p].cr)
    <3>1. job'[p].cr = Head(feed[p])
      BY <2>3 DEF Start, JobFor, TypeOK, PodsOK
    <3>2. Head(feed[p]) = feed[p][1] /\ 1 \in 1..Len(feed[p])
      BY <1>1, HeadTailProperties
    <3>3. Above(feed[p], feed[p][1])
      BY <1>1, <1>5, <3>2
    <3> QED
      BY <1>1, <1>6, <3>1, <3>2, <3>3
  <2> QED
    BY <2>1, <2>2, <2>3, StepBusy DEF Busy
<1> QED
  BY <1>1, <1>6, <1>7 DEF Ordered

LEMMA NextCurrent ==
  ASSUME TypeOK, NEW p \in Pods, Ordered(p), CurrentIsLive(p), [Next]_vars
  PROVE  CurrentIsLive(p)'
<1> SUFFICES ASSUME current'[p], pc'[p] # "idle"
             PROVE  job'[p].cr = live' /\ feed'[p] = <<live'>>
  BY DEF CurrentIsLive
<1>1. /\ feed[p] \in Seq(CR) /\ feed[p] # <<>> /\ live \in CR
      /\ current \in [Pods -> BOOLEAN] /\ PodsOK
  BY DEF TypeOK, KubeOK
<1>2. CASE Start(p)
  <2>1. Len(feed[p]) = 1 /\ live' = live /\ feed'[p] = feed[p] /\ job'[p].cr = Head(feed[p])
    <3>1. PICK open : job' = [job EXCEPT ![p] = JobFor(Head(feed[p]), open)]
      BY <1>2 DEF Start
    <3>2. job'[p].cr = Head(feed[p])
      BY <1>1, <3>1 DEF JobFor, PodsOK
    <3>3. live' = live /\ feed' = feed /\ current' = [current EXCEPT ![p] = Len(feed[p]) = 1]
      BY <1>2 DEF Start
    <3> QED
      BY <1>1, <3>2, <3>3
  <2>2. Head(feed[p]) = feed[p][1] /\ feed[p][1] = live
    BY <1>1, <2>1, HeadTailProperties DEF Ordered
  <2>3. feed[p] = <<feed[p][1]>>
    BY <1>1, <2>1
  <2> QED
    BY <2>1, <2>2, <2>3
<1>3. CASE ~Start(p)
  <2>1. pc[p] # "idle" /\ job'[p].cr = job[p].cr
    BY <1>3, StepBusy DEF Busy
  <2>2. Len(<<live>>) = 1
    OBVIOUS
  <2>3. current[p] /\ pc[p] # "idle" => job[p].cr = live /\ feed[p] = <<live>>
    BY DEF CurrentIsLive
  <2>4. CASE live' = live /\ feed'[p] = feed[p] /\ current'[p] = current[p]
    BY <2>1, <2>3, <2>4
  <2>5. CASE Len(feed[p]) > 1 /\ current' = current
    <3>1. feed[p] = <<live>>
      BY <2>1, <2>3, <2>5
    <3>2. Len(feed[p]) = 1
      BY <2>2, <3>1
    <3> QED
      BY <2>5, <3>2
  <2>6. FeedMoved(p)
    BY StepFeedMoved
  <2>7. \/ live' = live /\ feed'[p] = feed[p] /\ current'[p] = current[p]
        \/ Len(feed[p]) > 1 /\ current' = current
    BY <1>3, <2>6 DEF FeedMoved
  <2> QED
    BY <2>4, <2>5, <2>7
<1> QED
  BY <1>2, <1>3

-----------------------------------------------------------------------------
(* What users do. *)

LEMMA StepUsers ==
  ASSUME [Next]_vars
  PROVE  (source' = source /\ ops' \in {ops, ops + 1}) \/ EditSource
<1>1. ASSUME NEW p \in Pods,
             \/ Start(p) \/ Checks(p) \/ ReadRole(p) \/ ReadSource(p) \/ RevokeCreds(p)
             \/ Disabling(p) \/ Guard(p) \/ Deliver(p) \/ Crash(p)
      PROVE  UNCHANGED users
  BY <1>1 DEF Start, Checks, ReadRole, ReadSource, RevokeCreds, Disabling, Guard, Deliver,
              Crash
<1>2. ASSUME NEW p \in Pods,
             ReadProject(p) \/ ReadCreds(p) \/ Find(p) \/ Create(p) \/ CreateVersion(p)
      PROVE  UNCHANGED users
  BY <1>2 DEF ReadProject, ReadCreds, Find, Create, CreateVersion
<1>3. ASSUME NEW p \in Pods,
             \/ WriteRevoked(p) \/ WriteError(p) \/ AddFinalizer(p) \/ WritePreliminary(p)
             \/ WriteSynced(p) \/ WriteAlreadySynced(p)
      PROVE  UNCHANGED users
  BY <1>3 DEF WriteRevoked, WriteError, AddFinalizer, WritePreliminary, WriteSynced,
              WriteAlreadySynced
<1>4. ASSUME NEW p \in Pods, DeleteCreds(p) \/ Delete(p) \/ RemoveFinalizer(p)
      PROVE  UNCHANGED users
  BY <1>4 DEF DeleteCreds, Delete, RemoveFinalizer
<1>5. UNCHANGED users \/ EditSpec \/ DeleteCR \/ EditSource \/ EditNamespace \/ UNCHANGED vars
  BY <1>1, <1>2, <1>3, <1>4 DEF Next, Reconcile
<1>6. CASE EditSpec \/ DeleteCR \/ EditNamespace \/ UNCHANGED vars
  BY <1>6 DEF EditSpec, DeleteCR, EditNamespace, UserOp, vars
<1>7. CASE UNCHANGED users
  BY <1>7 DEF users
<1> QED
  BY <1>5, <1>6, <1>7

\* The consent that was seen at a resourceVersion stays what was seen there.
LEMMA StepConsented ==
  ASSUME TypeOK, [Next]_vars
  PROVE  /\ source'.rv >= source.rv
         /\ source' = source \/ source'.rv = source.rv + 1
         /\ \A rv \in Nat : Consented(rv) => Consented(rv)'
<1>1. source.rv \in Nat
  BY DEF TypeOK, UsersOK
<1>2. CASE source' = source
  BY <1>1, <1>2 DEF Consented
<1>3. CASE EditSource
  <2>1. source'.rv = source.rv + 1
    BY <1>3 DEF EditSource
  <2> QED
    BY <1>1, <2>1 DEF Consented
<1> QED
  BY <1>2, <1>3, StepUsers

LEMMA NextCounted ==
  ASSUME TypeOK, Counted, [Next]_vars
  PROVE  Counted'
<1>1. live \in CR /\ live.gen \in Nat /\ source.rv \in Nat /\ ops \in Nat
  BY DEF TypeOK, KubeOK, UsersOK, CR
<1>2. ops' \in {ops, ops + 1} /\ source'.rv \in source.rv..(source.rv + ops' - ops)
  <2>1. CASE EditSource
    <3>1. ops' = ops + 1 /\ source'.rv = source.rv + 1
      BY <2>1 DEF EditSource, UserOp
    <3> QED
      BY <1>1, <3>1
  <2> QED
    BY <1>1, <2>1, StepUsers
<1>3. live'.gen = live.gen \/ (live'.gen = live.gen + 1 /\ ops' = ops + 1)
  <2>1. ASSUME NEW p \in Pods, NEW st \in Status, StatusWritten(p, st)
        PROVE  live'.gen = live.gen
    BY <1>1, <2>1 DEF StatusWritten, CR
  <2> QED
    BY <2>1, StepLive DEF Marked, Reissued
<1> QED
  BY <1>1, <1>2, <1>3 DEF Counted

-----------------------------------------------------------------------------
(* What statuses and snapshots say of the versions. *)

LEMMA AroundType ==
  ASSUME TypeOK, NEW p \in Pods, NEW c \in Around(p, job[p].cr)
  PROVE  c \in CR /\ c.status \in Status
<1>1. live \in CR /\ job[p].cr \in CR /\ feed[p] \in Seq(CR)
  BY DEF TypeOK, KubeOK, PodsOK, Job
<1>2. \A i \in DOMAIN feed[p] : feed[p][i] \in CR
  BY <1>1, ElementOfSeq, LenProperties
<1>3. c \in CR
  BY <1>1, <1>2 DEF Around
<1> QED
  BY <1>3 DEF CR

\* What a step leaves of the secrets, for those who do not change versions.
LEMMA StepStore ==
  ASSUME TypeOK, ProjectKnown, [Next]_vars
  PROVE  \/ scw' = scw
         \/ \E p \in Pods : Disabling(p) \/ Delete(p) \/ CreateVersion(p) \/ Created(p)
<1>1. ASSUME NEW p \in Pods, Create(p) PROVE scw' = scw \/ Created(p)
  <2>1. job[p].project \in Projects
    BY <1>1 DEF Create, ProjectKnown, ProjectNeeded
  <2>2. scw' = scw \/ scw' = NewSecret(scw, job[p].project)
    BY <1>1 DEF Create, ScalewayCall
  <2> QED
    BY <1>1, <2>1, <2>2 DEF Created
<1>2. ASSUME NEW p \in Pods,
             \/ Start(p) \/ Checks(p) \/ ReadRole(p) \/ ReadSource(p) \/ RevokeCreds(p)
             \/ WriteRevoked(p) \/ WriteError(p) \/ AddFinalizer(p) \/ Guard(p)
             \/ ReadProject(p) \/ ReadCreds(p) \/ Find(p) \/ WritePreliminary(p)
             \/ WriteSynced(p) \/ WriteAlreadySynced(p) \/ DeleteCreds(p)
             \/ RemoveFinalizer(p) \/ Deliver(p) \/ Crash(p)
      PROVE  scw' = scw
  BY <1>2 DEF Start, Checks, ReadRole, ReadSource, RevokeCreds, WriteRevoked, WriteError,
              AddFinalizer, Guard, ReadProject, ReadCreds, Find, WritePreliminary,
              WriteSynced, WriteAlreadySynced, DeleteCreds, RemoveFinalizer, Deliver, Crash
<1>3. CASE EditSpec \/ DeleteCR \/ EditSource \/ EditNamespace \/ UNCHANGED vars
  BY <1>3 DEF EditSpec, DeleteCR, EditSource, EditNamespace, vars
<1> QED
  BY <1>1, <1>2, <1>3 DEF Next, Reconcile

\* A version is only disabled, replaced or deleted when no status nor snapshot claims
\* to be in sync with it.
LEMMA NextHolds ==
  ASSUME TypeOK, ProjectKnown, OnePod, SnapshotsBehind, StepKnows,
         NEW p \in Pods, Ordered(p), SnapshotsFaithful(p), JobKnows(p), [Next]_vars,
         NEW c \in Around(p, job[p].cr)
  PROVE  (Stale(c) \/ Holds(c.status))'
<1>1. Faithful(c) /\ c \in CR /\ c.status.rv \in Nat /\ source.rv \in Nat
  BY AroundType DEF SnapshotsFaithful, TypeOK, UsersOK, Status
<1>2. CASE source'.rv = source.rv + 1
  <2>1. c.status.rv # source'.rv
    BY <1>1, <1>2 DEF Faithful, Consented
  <2> QED
    BY <2>1 DEF Stale
<1>3. CASE Stale(c) /\ source' = source
  BY <1>3 DEF Stale
<1>4. CASE ~Stale(c) /\ source' = source
  <2>1. Holds(c.status)
    BY <1>1, <1>4 DEF Faithful
  <2>2. CASE scw' = scw
    BY <2>1, <2>2 DEF Holds, HasVersion, IsAlive
  <2>3. ASSUME NEW q \in Pods, Created(q) PROVE Holds(c.status)'
    <3>1. /\ DOMAIN scw \subseteq DOMAIN scw'
          /\ \A s \in DOMAIN scw : scw'[s] = scw[s]
      BY <2>3, NewSecretEffect DEF Created, TypeOK
    <3> QED
      BY <2>1, <3>1 DEF Holds, HasVersion, IsAlive
  <2>4. ASSUME Disabling(p) PROVE Stale(c)
    <3>1. c.status.rv < source.rv
      BY <2>4 DEF Disabling, JobKnows, KnowsAt
    <3> QED
      BY <1>1, <3>1 DEF Stale
  <2>5. ASSUME CreateVersion(p) PROVE Stale(c)
    BY <2>5 DEF CreateVersion, JobKnows, KnowsAt, Committed
  <2>6. ASSUME Delete(p) PROVE Stale(c)
    <3>1. job[p].cr.deleting
      BY <2>6 DEF Delete, StepKnows, Told, Leaving
    <3>2. live.deleting /\ \A i \in DOMAIN feed[p] : feed[p][i].deleting
      BY <3>1 DEF SnapshotsBehind, Behind, Ordered, Precedes
    <3> QED
      BY <3>1, <3>2 DEF Around, Stale
  <2> QED
    BY <1>4, <2>2, <2>3, <2>4, <2>5, <2>6, StepStore DEF OnePod
<1> QED
  BY <1>2, <1>3, <1>4, StepConsented

\* The status that a write puts in place.
LEMMA WrittenFaithful ==
  ASSUME TypeOK, SnapshotsBehind, NEW p \in Pods, SnapshotsFaithful(p), JobKnows(p), Counted,
         NEW st \in Status, StatusWritten(p, st)
  PROVE  Faithful([live EXCEPT !.status = st])
<1> DEFINE new == [live EXCEPT !.status = st]
           cr == job[p].cr
<1>1. /\ job[p] \in Job /\ cr \in CR /\ cr.status \in Status /\ live \in CR
      /\ source.rv \in Nat /\ source.rv >= 1
  <2>1. source.rv \in Nat /\ source.rv \in 1..(ops + 1) /\ ops \in Nat
    BY DEF Counted, TypeOK, UsersOK
  <2> QED
    BY <2>1 DEF TypeOK, KubeOK, PodsOK, Job, CR
<1>2. /\ new.status = st /\ new.gen = live.gen /\ new.deleting = live.deleting
      /\ live.gen \in Nat /\ cr.gen \in Nat
  BY <1>1 DEF CR
<1>3. Faithful(cr) /\ Faithful(live)
  BY DEF SnapshotsFaithful, Around
<1>4. /\ cr.gen <= live.gen /\ 1 <= cr.gen /\ cr.status.ogen <= cr.gen
      /\ cr.status.ogen \in Nat /\ cr.status.rv \in Nat
  BY <1>1, <1>2, <1>3 DEF Faithful, Status
<1>5. KnowsOf(job[p]) /\ KnowsAt(p, pc[p], job[p])
  BY DEF JobKnows
<1> SUFFICES Faithful(new)
  OBVIOUS
<1> HIDE DEF new
<1>6. CASE WriteRevoked(p) /\ st = RevokedStatus(job[p])
  <2>1. st.sid = cr.status.sid /\ st.rv = None /\ st.ogen = cr.status.ogen
    BY <1>1, <1>6 DEF RevokedStatus, Status
  <2> QED
    BY <1>1, <1>2, <1>3, <1>4, <2>1 DEF Faithful, Consented, Stale, None
<1>7. CASE WritePreliminary(p) /\ st = PreliminaryStatus(job[p])
  <2>1. st.sid = job[p].sid /\ st.rv = None /\ st.ogen = cr.status.ogen
    BY <1>1, <1>7 DEF PreliminaryStatus, Status, Job
  <2> QED
    BY <1>1, <1>2, <1>3, <1>4, <1>5, <2>1 DEF Faithful, Consented, Stale, KnowsOf, None
<1>8. CASE WriteSynced(p) /\ st = SyncedStatus(job[p])
  <2>1. st.sid = job[p].sid /\ st.rv = job[p].rv /\ st.ogen = cr.gen
    BY <1>8 DEF SyncedStatus
  <2>2. Holds(st) /\ st.sid # None
    <3>1. Holds(st)
      BY <1>5, <1>8 DEF KnowsAt, WriteSynced
    <3>2. DOMAIN scw = 1..Len(scw)
      BY LenProperties DEF TypeOK
    <3> QED
      BY <3>1, <3>2 DEF Holds, HasVersion, IsAlive, None
  <2> QED
    BY <1>1, <1>2, <1>4, <1>5, <2>1, <2>2 DEF Faithful, KnowsOf, None
<1>9. CASE WriteAlreadySynced(p) /\ st = AlreadySyncedStatus(job[p])
  <2>1. cr.status.ogen # None /\ Holds(cr.status)
    BY <1>5, <1>9 DEF KnowsAt, WriteAlreadySynced
  <2>2. /\ st.sid = cr.status.sid /\ st.rv = cr.status.rv /\ st.ogen = cr.status.ogen
        /\ st.ver = cr.status.ver
    BY <1>1, <1>9, <2>1 DEF AlreadySyncedStatus, Status
  <2>3. Holds(st)
    BY <2>1, <2>2 DEF Holds
  <2> QED
    BY <1>1, <1>2, <1>3, <1>4, <2>2, <2>3 DEF Faithful
<1>10. CASE WriteError(p) /\ st = ErrorStatus(job[p])
  <2>1. /\ st.sid = job[p].sid /\ st.rv = cr.status.rv /\ st.ogen = cr.status.ogen
        /\ st.ver = cr.status.ver
    BY <1>1, <1>10 DEF ErrorStatus, Status, Job
  <2>2. Stale(new) \/ Holds(st)
    <3> SUFFICES ASSUME ~Stale(new) PROVE Holds(st)
      OBVIOUS
    <3>1. cr.gen = live.gen /\ ~cr.deleting
      BY <1>2, <1>4, <2>1 DEF Stale, SnapshotsBehind, Behind
    <3>2. ~Stale(cr)
      BY <1>2, <2>1, <3>1 DEF Stale
    <3>3. Holds(cr.status)
      BY <1>3, <3>2 DEF Faithful
    <3>4. cr.status.sid = job[p].sid
      <4>1. DOMAIN scw = 1..Len(scw)
        BY LenProperties DEF TypeOK
      <4> QED
        BY <1>5, <3>3, <4>1 DEF Holds, HasVersion, IsAlive, KnowsOf, None
    <3> QED
      BY <2>1, <3>3, <3>4 DEF Holds
  <2> QED
    BY <1>1, <1>2, <1>3, <1>4, <1>5, <2>1, <2>2 DEF Faithful, KnowsOf
<1> QED
  BY <1>6, <1>7, <1>8, <1>9, <1>10 DEF StatusWritten

LEMMA NextSnapshots ==
  ASSUME TypeOK, TypeOK', ProjectKnown, OnePod, SnapshotsBehind, StepKnows, Counted, Counted',
         NEW p \in Pods, Ordered(p), SnapshotsFaithful(p), JobKnows(p), [Next]_vars
  PROVE  SnapshotsFaithful(p)'
<1>1. /\ live \in CR /\ live' \in CR /\ live'.gen \in Nat /\ live.gen \in Nat
      /\ live'.gen >= live.gen
  <2>1. live \in CR /\ live' \in CR /\ live'.gen \in Nat /\ live.gen \in Nat
    BY DEF TypeOK, KubeOK, CR
  <2> QED
    BY <2>1, StepPrecedes
<1>2. DOMAIN scw \subseteq DOMAIN scw'
  BY StepAged DEF Aged
<1>3. source'.rv \in Nat /\ source'.rv >= 1
  BY DEF Counted, TypeOK, UsersOK
<1>4. ASSUME NEW c \in Around(p, job[p].cr) PROVE Faithful(c)'
  <2>1. Faithful(c) /\ c \in CR /\ c.status.rv \in Nat /\ c.gen \in Nat
    BY AroundType DEF SnapshotsFaithful, CR, Status
  <2>2. Consented(c.status.rv)'
    BY <2>1, StepConsented DEF Faithful
  <2>3. (Stale(c) \/ Holds(c.status))'
    BY NextHolds
  <2> QED
    BY <1>1, <1>2, <2>1, <2>2, <2>3 DEF Faithful
<1>5. Faithful(NoJob.cr)'
  <2>1. /\ NoJob.cr.status.sid = None /\ NoJob.cr.status.rv = None
        /\ NoJob.cr.status.ogen = None /\ NoJob.cr.gen = 1
    BY DEF NoJob, JobFor, NewCR, NewStatus
  <2>2. live'.gen >= 1
    <3>1. Faithful(live)
      BY DEF SnapshotsFaithful, Around
    <3> QED
      BY <1>1, <3>1 DEF Faithful
  <2> QED
    BY <1>1, <1>3, <2>1, <2>2 DEF Faithful, Consented, Stale, None
<1>6. ASSUME NEW c, c = live' PROVE Faithful(c)'
  <2>1. Faithful(live)
    BY DEF SnapshotsFaithful, Around
  <2>2. CASE live' = live
    BY <1>4, <1>6, <2>2 DEF Around
  <2>3. ASSUME NEW q \in Pods, NEW st \in Status, StatusWritten(q, st) PROVE Faithful(c)'
    <3>1. q = p
      BY DEF OnePod
    <3>2. Faithful(c) /\ live'.gen = live.gen
      BY <1>1, <1>6, <2>3, <3>1, WrittenFaithful DEF StatusWritten, CR
    <3>3. source' = source /\ scw' = scw
      BY <2>3 DEF StatusWritten, WriteRevoked, WriteError, WritePreliminary, WriteSynced,
                  WriteAlreadySynced, users
    <3> QED
      BY <3>2, <3>3 DEF Faithful, Consented, Stale, Holds, HasVersion, IsAlive, OptInGranted
  <2>4. CASE Marked
    <3>1. Faithful(c) /\ source' = source /\ scw' = scw
      BY <1>6, <2>1, <2>4 DEF Marked, Faithful, Stale
    <3> QED
      BY <2>4, <3>1
      DEF Marked, Faithful, Consented, Stale, Holds, HasVersion, IsAlive, OptInGranted
  <2>5. CASE Reissued
    <3>1. live.status.ogen \in Nat /\ live'.status = live.status /\ live'.gen = live.gen + 1
      BY <1>1, <2>5 DEF Reissued, CR, Status
    <3>2. /\ live'.status.ogen # live'.gen /\ live'.status.ogen <= live'.gen
          /\ live'.gen \in 1..live'.gen
      BY <1>1, <2>1, <3>1 DEF Faithful
    <3>3. source' = source /\ scw' = scw
      BY <2>5 DEF Reissued
    <3> QED
      BY <1>6, <2>1, <3>1, <3>2, <3>3 DEF Faithful, Consented, Stale, OptInGranted
  <2> QED
    BY <2>2, <2>3, <2>4, <2>5, StepLive
<1>7. ASSUME NEW c \in Around(p, job[p].cr)' PROVE Faithful(c)'
  <2>1. CASE c = live'
    BY <1>6, <2>1
  <2>2. CASE c = job'[p].cr
    <3>1. job'[p] = NoJob \/ job'[p].cr \in Around(p, job[p].cr)
      BY StepJob DEF SnapshotOf, Around
    <3> QED
      BY <1>4, <1>5, <2>2, <3>1
  <2>3. ASSUME NEW i \in DOMAIN feed'[p], c = feed'[p][i] PROVE Faithful(c)'
    <3>1. c = live' \/ c \in Around(p, job[p].cr)
      BY <2>3, StepFeed DEF FeedOf, Around
    <3> QED
      BY <1>4, <1>6, <3>1
  <2> QED
    BY <1>7, <2>1, <2>2, <2>3 DEF Around
<1> QED
  BY <1>7 DEF SnapshotsFaithful

-----------------------------------------------------------------------------
(* What a reconcile knows. *)

\* The steps that take nothing for granted.
Quiet ==
    {"idle", "checks", "role", "source", "writeRevoked", "writeError", "addFinalizer",
     "deleteCreds", "delete", "removeFinalizer"}

LEMMA KnowsOfKept ==
  ASSUME TypeOK, ProjectKnown, [Next]_vars, NEW j \in Job, KnowsOf(j)
  PROVE  KnowsOf(j)'
<1>1. DOMAIN scw \subseteq DOMAIN scw'
  BY StepAged DEF Aged
<1>2. j.rv \in Nat
  BY DEF Job
<1> QED
  BY <1>1, <1>2, StepConsented DEF KnowsOf

LEMMA QuietKnows ==
  ASSUME TypeOK, ProjectKnown, [Next]_vars, NEW p \in Pods, NEW step \in Quiet,
         NEW j \in Job, KnowsOf(j), Goto(p, step, j)
  PROVE  JobKnows(p)'
<1>1. pc'[p] = step /\ job'[p] = j
  BY DEF Goto, TypeOK, PodsOK
<1>2. KnowsOf(j)'
  BY KnowsOfKept
<1>3. KnowsAt(p, step, j)'
  BY DEF KnowsAt, Quiet, Pushing, Committed
<1> QED
  BY <1>1, <1>2, <1>3 DEF JobKnows

LEMMA NoJobKnows ==
  ASSUME TypeOK, Counted', UsersOK', NEW p \in Pods, pc'[p] = "idle", job'[p] = NoJob
  PROVE  JobKnows(p)'
<1>1. NoJob.sid = None /\ NoJob.cr.status.sid = None /\ NoJob.rv = None
  BY DEF NoJob, JobFor, NewCR, NewStatus
<1>2. 0 < source'.rv
  BY DEF Counted, UsersOK
<1>3. KnowsOf(NoJob)'
  BY <1>1, <1>2 DEF KnowsOf, Consented, None
<1>4. KnowsAt(p, "idle", NoJob)'
  BY DEF KnowsAt, Pushing, Committed
<1> QED
  BY <1>3, <1>4 DEF JobKnows

LEMMA FailKnows ==
  ASSUME TypeOK, ProjectKnown, Counted', UsersOK', [Next]_vars, NEW p \in Pods,
         NEW j \in Job, KnowsOf(j),
         \/ \E again : Return(p, again)
         \/ \E err : Fail(p, err)
         \/ \E err, msg : FailWithStatus(p, j, err, msg)
  PROVE  JobKnows(p)'
<1>1. CASE \E again : Return(p, again) \/ Fail(p, again)
  <2>1. pc'[p] = "idle" /\ job'[p] = NoJob
    BY <1>1 DEF Return, Fail, TypeOK, PodsOK
  <2> QED
    BY <2>1, NoJobKnows
<1>2. ASSUME NEW err, NEW msg, FailWithStatus(p, j, err, msg) PROVE JobKnows(p)'
  <2> DEFINE k == [j EXCEPT !.err = err, !.msg = msg]
  <2>1. pc'[p] = "writeError" /\ job'[p] = k
    BY <1>2 DEF FailWithStatus, Goto, TypeOK, PodsOK
  <2>2. k.sid = j.sid /\ k.cr = j.cr /\ k.rv = j.rv
    BY DEF Job
  <2> HIDE DEF k
  <2>3. KnowsOf(k)'
    BY <2>2, KnowsOfKept DEF KnowsOf
  <2>4. KnowsAt(p, "writeError", k)'
    BY DEF KnowsAt, Pushing, Committed
  <2> QED
    BY <2>1, <2>3, <2>4 DEF JobKnows
<1> QED
  BY <1>1, <1>2

LEMMA GotoKnows ==
  ASSUME PodsOK, NEW p \in Pods, NEW step, NEW j, Goto(p, step, j),
         UNCHANGED <<kube, source, scw>>, KnowsOf(j), KnowsAt(p, step, j)
  PROVE  JobKnows(p)'
<1>1. pc'[p] = step /\ job'[p] = j
  BY DEF Goto, PodsOK
<1>2. KnowsOf(j)'
  BY DEF KnowsOf, Consented, OptInGranted
<1>3. Around(p, j.cr)' = Around(p, j.cr)
  BY DEF Around, kube
<1>4. \A c : Stale(c)' <=> Stale(c)
  BY DEF Stale
<1>5. \A st : Holds(st)' <=> Holds(st)
  BY DEF Holds, HasVersion, IsAlive
<1>6. live' = live /\ source' = source
  BY DEF kube
<1>7. KnowsAt(p, step, j)'
  BY <1>3, <1>4, <1>5, <1>6 DEF KnowsAt
<1> QED
  BY <1>1, <1>2, <1>7 DEF JobKnows

\* The decision: what it finds in sync is, and what it pushes is not.
LEMMA ActKnows ==
  ASSUME TypeOK, ProjectKnown, Counted', UsersOK', [Next]_vars, NEW p \in Pods,
         NEW j \in Job, NEW keyPresent, Act(p, j, keyPresent),
         UNCHANGED <<kube, source, scw>>, KnowsOf(j), Faithful(j.cr),
         j.rv \in {None, source.rv}
  PROVE  JobKnows(p)'
<1> DEFINE d == DecideNextAction(j, keyPresent)
<1>1. PodsOK
  BY DEF TypeOK
<1>2. d \in {"CreateAndSyncSecret", "PushNewVersion"} => j.rv # None /\ Stale(j.cr)
  BY DEF DecideNextAction, NeedsPush, Faithful, Stale
<1>3. d = "AlreadySynced" => j.cr.status.ogen # None /\ Holds(j.cr.status)
  BY DEF DecideNextAction, NeedsPush, Faithful, Stale
<1> HIDE DEF d
<1>4. CASE \/ \E again : Return(p, again)
           \/ \E err : Fail(p, err)
           \/ \E err, msg : FailWithStatus(p, j, err, msg)
  BY <1>4, FailKnows
<1>5. CASE \/ Goto(p, "addFinalizer", j) \/ Goto(p, "deleteCreds", j)
           \/ Goto(p, "removeFinalizer", j)
  BY <1>5, QuietKnows DEF Quiet
<1>6. CASE d \in {"CreateAndSyncSecret", "PushNewVersion"} /\ Goto(p, "guard", j)
  <2>1. KnowsAt(p, "guard", j)
    BY <1>2, <1>6 DEF KnowsAt, Committed
  <2> QED
    BY <1>1, <1>6, <2>1, GotoKnows
<1>7. CASE d = "AlreadySynced" /\ Goto(p, "writeAlreadySynced", j)
  <2>1. KnowsAt(p, "writeAlreadySynced", j)
    BY <1>3, <1>7 DEF KnowsAt, Committed, Pushing
  <2> QED
    BY <1>1, <1>7, <2>1, GotoKnows
<1> QED
  BY <1>4, <1>5, <1>6, <1>7 DEF Act, d

\* The steps that only read.
LEMMA DecidingKnows ==
  ASSUME TypeOK, ProjectKnown, StepKnows, Counted', UsersOK', [Next]_vars, NEW p \in Pods,
         SnapshotsFaithful(p), JobKnows(p), Checks(p) \/ ReadRole(p) \/ ReadSource(p)
  PROVE  JobKnows(p)'
<1>1. /\ PodsOK /\ job[p] \in Job /\ source.rv \in Nat /\ source.optIn \in BOOLEAN
      /\ job[p].rv = None /\ Faithful(job[p].cr) /\ KnowsOf(job[p])
  BY DEF TypeOK, UsersOK, PodsOK, StepKnows, Told, Checks, ReadRole, ReadSource,
         SnapshotsFaithful, Around, JobKnows
<1>2. UNCHANGED <<kube, source, scw>>
  BY DEF Checks, ReadRole, ReadSource, users
<1>3. CASE Checks(p) \/ ReadRole(p)
  <2>1. \/ \E err, msg : FailWithStatus(p, job[p], err, msg)
        \/ Act(p, job[p], FALSE) \/ Goto(p, "role", job[p]) \/ Goto(p, "source", job[p])
    BY <1>3 DEF Checks, ReadRole
  <2>2. CASE Goto(p, "role", job[p]) \/ Goto(p, "source", job[p])
    BY <1>1, <2>2, QuietKnows DEF Quiet
  <2> QED
    BY <1>1, <1>2, <2>1, <2>2, FailKnows, ActKnows
<1>4. CASE ReadSource(p)
  <2> DEFINE j == [job[p] EXCEPT !.rv = source.rv, !.granted = source.optIn]
  <2>1. /\ j \in Job /\ j.cr = job[p].cr /\ j.sid = job[p].sid /\ j.rv = source.rv
    BY <1>1 DEF Job
  <2>2. \/ \E err, msg : FailWithStatus(p, job[p], err, msg)
        \/ \E err : Fail(p, err)
        \/ Act(p, job[p], FALSE)
        \/ ~OptInGranted(source) /\ Goto(p, "revokeCreds", job[p])
        \/ Goto(p, "writeRevoked", job[p])
        \/ OptInGranted(source) /\ Act(p, j, job[p].cr.spec.key \in source.keys)
    BY <1>4 DEF ReadSource, OptInMissing
  <2> HIDE DEF j
  <2>3. CASE OptInGranted(source) /\ Act(p, j, job[p].cr.spec.key \in source.keys)
    <3>1. KnowsOf(j) /\ Faithful(j.cr)
      BY <1>1, <2>1, <2>3 DEF KnowsOf, Consented
    <3> QED
      BY <1>2, <2>1, <2>3, <3>1, ActKnows
  <2>4. CASE ~OptInGranted(source) /\ Goto(p, "revokeCreds", job[p])
    <3>1. \A c \in Around(p, job[p].cr) : c.status.rv < source.rv
      BY <2>4 DEF SnapshotsFaithful, Faithful, Consented
    <3>2. KnowsAt(p, "revokeCreds", job[p])
      BY <3>1 DEF KnowsAt, Pushing, Committed
    <3> QED
      BY <1>1, <1>2, <2>4, <3>2, GotoKnows
  <2>5. CASE Goto(p, "writeRevoked", job[p])
    BY <1>1, <2>5, QuietKnows DEF Quiet
  <2> QED
    BY <1>1, <1>2, <2>2, <2>3, <2>4, <2>5, FailKnows, ActKnows
<1> QED
  BY <1>3, <1>4

LEMMA PreparingKnows ==
  ASSUME TypeOK, ProjectKnown, StepKnows, Counted', UsersOK', [Next]_vars, NEW p \in Pods,
         SnapshotsFaithful(p), JobKnows(p), CurrentIsLive(p),
         \/ RevokeCreds(p) \/ Guard(p) \/ ReadProject(p) \/ ReadCreds(p) \/ Find(p)
         \/ DeleteCreds(p)
  PROVE  JobKnows(p)'
<1>1. PodsOK /\ job[p] \in Job /\ KnowsOf(job[p]) /\ KnowsAt(p, pc[p], job[p])
  BY DEF TypeOK, PodsOK, JobKnows
<1>2. UNCHANGED <<kube, source, scw>>
  BY DEF RevokeCreds, Guard, ReadProject, ReadCreds, Find, DeleteCreds, users
<1>3. CASE RevokeCreds(p)
  <2>1. CASE Goto(p, "disable", job[p])
    <3>1. KnowsAt(p, "disable", job[p])
      BY <1>1, <1>3 DEF RevokeCreds, KnowsAt, Pushing, Committed
    <3> QED
      BY <1>1, <1>2, <2>1, <3>1, GotoKnows
  <2>2. Goto(p, "disable", job[p]) \/ \E err : Fail(p, err)
    BY <1>3 DEF RevokeCreds
  <2> QED
    BY <1>1, <2>1, <2>2, FailKnows
<1>4. CASE Guard(p)
  <2>1. \/ \E err : Fail(p, err)
        \/ Return(p, TRUE)
        \/ /\ live.exists /\ current[p]
           /\ \/ job[p].cr.status.sid = None /\ Goto(p, "project", job[p])
              \/ job[p].cr.status.sid # None /\ Goto(p, "creds", job[p])
    BY <1>4 DEF Guard, CachedCrIsCurrent
  <2>2. CASE live.exists /\ current[p]
    <3>1. pc[p] = "guard" /\ job[p].cr = live /\ feed[p] = <<live>>
      BY <1>4, <2>2 DEF Guard, CurrentIsLive
    <3>2. job[p].rv # None /\ Stale(job[p].cr) /\ job[p].cr.finalizer
      BY <1>1, <3>1 DEF KnowsAt, Pushing, StepKnows, Told
    <3>3. DOMAIN feed[p] = 1..1 /\ feed[p][1] = live
      BY <3>1
    <3>4. \A c \in Around(p, job[p].cr) : Stale(c)
      BY <3>1, <3>2, <3>3 DEF Around
    <3>5. /\ job[p].cr.status.sid = None => KnowsAt(p, "project", job[p])
          /\ KnowsAt(p, "creds", job[p])
      BY <2>2, <3>1, <3>2, <3>4 DEF KnowsAt, Pushing, Committed
    <3> QED
      BY <1>1, <1>2, <2>1, <3>5, GotoKnows, FailKnows
  <2> QED
    BY <1>1, <2>1, <2>2, FailKnows
<1>5. CASE ReadProject(p)
  <2>1. ASSUME NEW project, Goto(p, "creds", [job[p] EXCEPT !.project = project])
        PROVE  JobKnows(p)'
    <3> DEFINE j == [job[p] EXCEPT !.project = project]
    <3>1. j.sid = job[p].sid /\ j.cr = job[p].cr /\ j.rv = job[p].rv
      BY <1>1 DEF Job
    <3> HIDE DEF j
    <3>2. KnowsOf(j) /\ KnowsAt(p, "creds", j)
      BY <1>1, <1>5, <3>1 DEF ReadProject, KnowsOf, KnowsAt, Pushing, Committed
    <3> QED
      BY <1>1, <1>2, <2>1, <3>2, GotoKnows DEF j
  <2>2. \/ \E err, msg : FailWithStatus(p, job[p], err, msg)
        \/ \E project : Goto(p, "creds", [job[p] EXCEPT !.project = project])
    BY <1>5 DEF ReadProject
  <2> QED
    BY <1>1, <2>1, <2>2, FailKnows
<1>6. CASE ReadCreds(p)
  <2>1. \/ \E err, msg : FailWithStatus(p, job[p], err, msg)
        \/ job[p].cr.status.sid = None /\ Goto(p, "find", job[p])
        \/ job[p].cr.status.sid # None /\ Goto(p, "version", job[p])
    BY <1>6 DEF ReadCreds
  <2>2. /\ job[p].cr.status.sid = None => KnowsAt(p, "find", job[p])
        /\ job[p].cr.status.sid # None => KnowsAt(p, "version", job[p])
    BY <1>1, <1>6 DEF ReadCreds, KnowsOf, KnowsAt, Pushing, Committed
  <2> QED
    BY <1>1, <1>2, <2>1, <2>2, FailKnows, GotoKnows
<1>7. CASE Find(p)
  <2>1. CASE Goto(p, "create", job[p])
    <3>1. KnowsAt(p, "create", job[p])
      BY <1>1, <1>7 DEF Find, KnowsAt, Pushing, Committed
    <3> QED
      BY <1>1, <1>2, <2>1, <3>1, GotoKnows
  <2>2. ASSUME NEW s \in DOMAIN scw, Goto(p, "writePreliminary", [job[p] EXCEPT !.sid = s])
        PROVE  JobKnows(p)'
    <3> DEFINE j == [job[p] EXCEPT !.sid = s]
    <3>1. j.sid = s /\ j.cr = job[p].cr /\ j.rv = job[p].rv
      BY <1>1 DEF Job
    <3> HIDE DEF j
    <3>2. job[p].cr.status.sid = None
      BY <1>1, <1>7 DEF Find, KnowsAt
    <3>3. KnowsOf(j) /\ KnowsAt(p, "writePreliminary", j)
      BY <1>1, <1>7, <3>1, <3>2 DEF Find, KnowsOf, KnowsAt, Pushing, Committed
    <3> QED
      BY <1>1, <1>2, <2>2, <3>3, GotoKnows DEF j
  <2>3. \/ \E err, msg : FailWithStatus(p, job[p], err, msg)
        \/ Goto(p, "create", job[p])
        \/ \E s \in DOMAIN scw : Goto(p, "writePreliminary", [job[p] EXCEPT !.sid = s])
    BY <1>7 DEF Find, SecretsToAdopt, FoundByTags
  <2> QED
    BY <1>1, <2>1, <2>2, <2>3, FailKnows
<1>8. CASE DeleteCreds(p)
  <2>1. \/ \E err : Fail(p, err)
        \/ Goto(p, "delete", job[p]) \/ Goto(p, "removeFinalizer", job[p])
    BY <1>8 DEF DeleteCreds
  <2> QED
    BY <1>1, <2>1, FailKnows, QuietKnows DEF Quiet
<1> QED
  BY <1>3, <1>4, <1>5, <1>6, <1>7, <1>8

LEMMA WritingKnows ==
  ASSUME TypeOK, TypeOK', ProjectKnown, StepKnows, Counted', UsersOK', [Next]_vars, NEW p \in Pods,
         SnapshotsFaithful(p), JobKnows(p),
         \/ WriteRevoked(p) \/ WriteError(p) \/ AddFinalizer(p) \/ WritePreliminary(p)
         \/ WriteSynced(p) \/ WriteAlreadySynced(p) \/ RemoveFinalizer(p)
  PROVE  JobKnows(p)'
<1>1. PodsOK /\ job[p] \in Job /\ KnowsOf(job[p]) /\ live \in CR
  BY DEF TypeOK, PodsOK, KubeOK, JobKnows
<1>2. CASE WritePreliminary(p) /\ Goto(p, "version", job[p])
  <2> DEFINE st == PreliminaryStatus(job[p])
  <2>1. /\ KnowsAt(p, "writePreliminary", job[p]) /\ job[p].rv # None
        /\ UNCHANGED <<source, scw>> /\ pc'[p] = "version" /\ job'[p] = job[p]
        /\ job[p].cr.finalizer /\ \A c \in Around(p, job[p].cr) : Stale(c)
    BY <1>1, <1>2
    DEF WritePreliminary, JobKnows, KnowsAt, Pushing, Committed, Goto, PodsOK, users
  <2>2. live.exists /\ live' = [live EXCEPT !.status = st]
    <3>1. PatchStatus(st, TRUE)
      BY <1>1, <1>2 DEF WritePreliminary, Goto, Fail, Return, PodsOK
    <3> QED
      BY <3>1 DEF PatchStatus, Patch, Store
  <2>3. st.sid = job[p].sid /\ st.rv = None
    <3>1. job[p].cr.status \in Status
      BY <1>1 DEF Job, CR
    <3> QED
      BY <3>1 DEF PreliminaryStatus, Status
  <2>4. live'.exists /\ live'.status.sid = job[p].sid /\ live'.status.rv = None
    BY <1>1, <2>2, <2>3 DEF CR
  <2>5. ASSUME NEW c \in Around(p, job[p].cr)' PROVE Stale(c)'
    <3>1. c = live' \/ c \in Around(p, job[p].cr)
      BY <2>1, <2>5, StepFeed DEF FeedOf, Around
    <3> QED
      BY <2>1, <2>4, <3>1 DEF Stale
  <2>6. PICK j : j = job[p]
    OBVIOUS
  <2>7. j \in Job /\ KnowsOf(j) /\ j.cr.finalizer /\ j.rv # None /\ live'.status.sid = j.sid
    BY <1>1, <2>1, <2>4, <2>6
  <2>8. \A c \in Around(p, j.cr)' : Stale(c)'
    BY <2>1, <2>5, <2>6 DEF Around
  <2>9. KnowsAt(p, "version", j)'
    BY <2>4, <2>7, <2>8 DEF KnowsAt
  <2>10. KnowsOf(j)'
    BY <2>7, KnowsOfKept
  <2> QED
    BY <2>1, <2>6, <2>9, <2>10 DEF JobKnows
<1>3. \/ WritePreliminary(p) /\ Goto(p, "version", job[p])
      \/ \E again : Return(p, again)
      \/ \E err : Fail(p, err)
  BY DEF WriteRevoked, WriteError, AddFinalizer, WritePreliminary, WriteSynced,
         WriteAlreadySynced, RemoveFinalizer
<1> QED
  BY <1>1, <1>2, <1>3, FailKnows

\* The version that a push adds.
LEMMA PushedVersion ==
  ASSUME NEW sc \in Seq(Secret), NEW s, IsAlive(sc, s), NEW j \in Job
  PROVE  LET n == Len(sc[s].versions) + 1
             new == NewVersion(sc, s, PayloadOf(j))
         IN  /\ HasVersion(new, s, n)
             /\ new[s].versions[n] = [payload |-> PayloadOf(j), enabled |-> TRUE]
<1> DEFINE n == Len(sc[s].versions) + 1
           v == [payload |-> PayloadOf(j), enabled |-> TRUE]
           old == IF sc[s].versions = <<>> THEN sc[s].versions
                  ELSE Disable(sc[s].versions, Len(sc[s].versions))
           versions == AddVersion(sc[s].versions, PayloadOf(j))
<1>1. s \in DOMAIN sc /\ sc[s].versions \in Seq(Version) /\ PayloadOf(j) \in Payload
  BY VersionsOfSecret, PayloadType DEF IsAlive
<1>2. v \in Version
  BY <1>1 DEF Version
<1>3. old \in Seq(Version) /\ Len(old) = Len(sc[s].versions)
  <2>1. CASE sc[s].versions = <<>>
    BY <1>1, <2>1
  <2>2. CASE sc[s].versions # <<>>
    <3>1. Len(sc[s].versions) \in DOMAIN sc[s].versions
      BY <1>1, <2>2, EmptySeq, LenProperties
    <3>2. /\ old \in Seq(Version) /\ DOMAIN old = DOMAIN sc[s].versions
      BY <1>1, <2>2, <3>1, DisableHistory, DisableEffect
    <3> QED
      BY <1>1, <3>2, LenProperties
  <2> QED
    BY <2>1, <2>2
<1>4. versions = Append(old, v)
  BY DEF AddVersion
<1> HIDE DEF old, v
<1>5. /\ versions \in Seq(Version) /\ Len(versions) = n /\ versions[n] = v
      /\ n \in Nat /\ n >= 1
  BY <1>1, <1>2, <1>3, <1>4, AppendProperties, LenProperties
<1>6. n \in DOMAIN versions
  BY <1>5, LenProperties
<1>7. NewVersion(sc, s, PayloadOf(j)) = [sc EXCEPT ![s].versions = versions]
  BY <1>1 DEF NewVersion
<1> HIDE DEF versions
<1> DEFINE new == [sc EXCEPT ![s].versions = versions]
<1>8. /\ DOMAIN new = DOMAIN sc /\ new[s].versions = versions
      /\ \A t \in DOMAIN sc : new[t].alive = sc[t].alive
  BY <1>1, <1>5, VersionsEffect
<1> HIDE DEF new
<1> QED
  BY <1>1, <1>5, <1>6, <1>7, <1>8 DEF HasVersion, IsAlive, v, new

LEMMA ScalewayKnows ==
  ASSUME TypeOK, ProjectKnown, StepKnows, Counted', UsersOK', [Next]_vars, NEW p \in Pods,
         SnapshotsFaithful(p), JobKnows(p),
         Disabling(p) \/ Create(p) \/ CreateVersion(p) \/ Delete(p)
  PROVE  JobKnows(p)'
<1>1. /\ PodsOK /\ job[p] \in Job /\ KnowsOf(job[p]) /\ KnowsAt(p, pc[p], job[p])
      /\ scw \in Seq(Secret)
  BY DEF TypeOK, PodsOK, JobKnows
<1>2. UNCHANGED <<kube, source>> /\ live' = live /\ source' = source
  BY DEF Disabling, Create, CreateVersion, Delete, users, kube
<1>3. /\ \A cr : Around(p, cr)' = Around(p, cr)
      /\ \A c : Stale(c)' <=> Stale(c)
  BY <1>2 DEF Around, Stale, kube
<1>4. CASE Disabling(p) \/ Delete(p)
  <2>1. \/ \E err : Fail(p, err)
        \/ Goto(p, "writeRevoked", job[p]) \/ Goto(p, "removeFinalizer", job[p])
    BY <1>4 DEF Disabling, Delete
  <2> QED
    BY <1>1, <2>1, FailKnows, QuietKnows DEF Quiet
<1>5. CASE Create(p)
  <2>1. \/ \E err, msg : FailWithStatus(p, job[p], err, msg)
        \/ /\ scw' = NewSecret(scw, job[p].project)
           /\ Goto(p, "writePreliminary", [job[p] EXCEPT !.sid = Len(scw) + 1])
    BY <1>5 DEF Create, ScalewayCall
  <2>2. CASE /\ scw' = NewSecret(scw, job[p].project)
             /\ Goto(p, "writePreliminary", [job[p] EXCEPT !.sid = Len(scw) + 1])
    <3> PICK j : j = [job[p] EXCEPT !.sid = Len(scw) + 1]
      OBVIOUS
    <3>1. /\ j.sid = Len(scw) + 1 /\ j.cr = job[p].cr /\ j.rv = job[p].rv
          /\ pc'[p] = "writePreliminary" /\ job'[p] = j
      BY <1>1, <2>2 DEF Job, Goto, PodsOK
    <3>2. Len(scw) + 1 \in DOMAIN scw'
      <4> DEFINE e == [project |-> job[p].project, alive |-> TRUE, versions |-> <<>>]
      <4>1. e \in Secret
        BY <1>5, EmptySeq DEF Create, ProjectKnown, ProjectNeeded, Secret
      <4>2. scw' = Append(scw, e)
        BY <2>2 DEF NewSecret
      <4> HIDE DEF e
      <4>3. scw' \in Seq(Secret) /\ Len(scw') = Len(scw) + 1 /\ Len(scw) \in Nat
        BY <1>1, <4>1, <4>2, AppendProperties, LenProperties
      <4> QED
        BY <4>3, LenProperties
    <3>3. /\ job[p].cr.status.sid = None /\ live.status.sid = None /\ job[p].rv # None
          /\ live.exists /\ job[p].cr.finalizer
          /\ \A c \in Around(p, job[p].cr) : Stale(c)
      BY <1>1, <1>5 DEF Create, KnowsAt, Pushing, Committed
    <3>4. KnowsAt(p, "writePreliminary", j)'
      BY <1>2, <1>3, <3>1, <3>3 DEF KnowsAt
    <3>5. KnowsOf(j)'
      BY <1>1, <1>2, <3>1, <3>2, <3>3 DEF KnowsOf, Consented, OptInGranted
    <3> QED
      BY <3>1, <3>4, <3>5 DEF JobKnows
  <2> QED
    BY <1>1, <2>1, <2>2, FailKnows
<1>6. CASE CreateVersion(p)
  <2>1. \/ \E err, msg : FailWithStatus(p, job[p], err, msg)
        \/ /\ IsAlive(scw, job[p].sid)
           /\ scw' = NewVersion(scw, job[p].sid, PayloadOf(job[p]))
           /\ Goto(p, "writeSynced",
                   [job[p] EXCEPT !.ver = Len(scw[job[p].sid].versions) + 1])
    BY <1>6 DEF CreateVersion, ScalewayCall
  <2>2. CASE /\ IsAlive(scw, job[p].sid)
             /\ scw' = NewVersion(scw, job[p].sid, PayloadOf(job[p]))
             /\ Goto(p, "writeSynced",
                     [job[p] EXCEPT !.ver = Len(scw[job[p].sid].versions) + 1])
    <3> PICK n, v : /\ n = Len(scw[job[p].sid].versions) + 1
                    /\ v = [payload |-> PayloadOf(job[p]), enabled |-> TRUE]
      OBVIOUS
    <3> PICK j : j = [job[p] EXCEPT !.ver = n]
      OBVIOUS
    <3>1. n \in Nat /\ scw[job[p].sid].versions \in Seq(Version)
      BY <1>1, <2>2, VersionsOfSecret, LenProperties DEF IsAlive
    <3>2. /\ j.sid = job[p].sid /\ j.cr = job[p].cr /\ j.rv = job[p].rv /\ j.ver = n
          /\ pc'[p] = "writeSynced" /\ job'[p] = j
      BY <1>1, <2>2, <3>1 DEF Job, Goto, PodsOK
    <3>3. HasVersion(scw', job[p].sid, n) /\ scw'[job[p].sid].versions[n] = v
      BY <1>1, <2>2, PushedVersion
    <3>4. job[p].granted
      BY <1>6 DEF CreateVersion, StepKnows, Told, Pushing
    <3>5. Holds(SyncedStatus(j))'
      BY <3>2, <3>3, <3>4 DEF Holds, SyncedStatus, PayloadOf
    <3>6. /\ live.status.sid = job[p].sid /\ job[p].rv # None
          /\ live.exists /\ job[p].cr.finalizer
          /\ \A c \in Around(p, job[p].cr) : Stale(c)
      BY <1>1, <1>6 DEF CreateVersion, KnowsAt, Pushing, Committed
    <3>7. KnowsAt(p, "writeSynced", j)'
      BY <1>2, <1>3, <3>2, <3>5, <3>6 DEF KnowsAt
    <3>8. KnowsOf(j) /\ j \in Job
      BY <1>1, <3>1, <3>2 DEF KnowsOf, Job
    <3>9. KnowsOf(j)'
      BY <3>8, KnowsOfKept
    <3> QED
      BY <3>2, <3>7, <3>9 DEF JobKnows
  <2> QED
    BY <1>1, <2>1, <2>2, FailKnows
<1> QED
  BY <1>4, <1>5, <1>6

\* What the environment does meanwhile does not make it wrong.
LEMMA EnvironmentKnows ==
  ASSUME TypeOK, TypeOK', ProjectKnown, SnapshotsBehind, [Next]_vars,
         NEW p \in Pods, SnapshotsFaithful(p), JobKnows(p),
         UNCHANGED <<scw, pc, job>>, live' = live \/ Reissued
  PROVE  JobKnows(p)'
<1>1. /\ job[p] \in Job /\ KnowsOf(job[p]) /\ KnowsAt(p, pc[p], job[p]) /\ live \in CR
      /\ source.rv \in Nat
  BY DEF TypeOK, PodsOK, KubeOK, UsersOK, JobKnows
<1>2. PICK j : j = job[p]
  OBVIOUS
<1>3. PICK step : step = pc[p]
  OBVIOUS
<1>4. pc'[p] = step /\ job'[p] = j /\ j \in Job /\ KnowsOf(j) /\ KnowsAt(p, step, j)
  BY <1>1, <1>2, <1>3
<1>5. live'.status = live.status
  BY DEF Reissued
<1>6. ASSUME NEW c \in Around(p, j.cr)
      PROVE  /\ Stale(c) => Stale(c)'
             /\ c.status.rv < source.rv => c.status.rv < source'.rv
  <2>1. c.status.rv \in Nat /\ Consented(c.status.rv)
    BY <1>2, AroundType DEF Status, SnapshotsFaithful, Faithful
  <2> QED
    BY <1>1, <2>1, StepConsented DEF Stale, Consented
<1>7. ASSUME NEW c \in Around(p, j.cr)'
      PROVE  /\ (\A d \in Around(p, j.cr) : Stale(d)) => Stale(c)'
             /\ (\A d \in Around(p, j.cr) : d.status.rv < source.rv)
                    => c.status.rv < source'.rv
  <2>1. CASE c \in Around(p, j.cr)
    BY <1>6, <2>1
  <2>2. CASE c = live' /\ Reissued
    <3>1. live.status.ogen \in Nat /\ live.gen \in Nat /\ live.status.ogen <= live.gen
      BY <1>1 DEF SnapshotsFaithful, Faithful, Around, CR, Status
    <3>2. Stale(c)'
      BY <2>2, <3>1 DEF Reissued, Stale
    <3>3. live \in Around(p, j.cr) /\ c.status = live.status
      BY <1>5, <2>2 DEF Around
    <3> QED
      BY <1>6, <3>2, <3>3
  <2> QED
    BY <1>2, <1>4, <1>7, <2>1, <2>2, StepFeed DEF FeedOf, Around
<1>8. step \in Committed => live'.exists
  <2>1. step \in Committed => live.exists /\ j.cr.finalizer
    BY <1>4 DEF KnowsAt
  <2> QED
    BY <1>2, <2>1 DEF SnapshotsBehind, Behind, Reissued
<1>9. \A st : Holds(st)' <=> Holds(st)
  BY DEF Holds, HasVersion, IsAlive
<1>10. Stale(j.cr) => Stale(j.cr)'
  BY <1>6 DEF Around
<1>11. KnowsAt(p, step, j)'
  BY <1>4, <1>5, <1>7, <1>8, <1>9, <1>10 DEF KnowsAt
<1>12. KnowsOf(j)'
  BY <1>4, KnowsOfKept
<1> QED
  BY <1>4, <1>11, <1>12 DEF JobKnows

LEMMA NextJobKnows ==
  ASSUME TypeOK, TypeOK', ProjectKnown, OnePod, SnapshotsBehind, StepKnows, Counted',
         NEW p \in Pods, SnapshotsFaithful(p), CurrentIsLive(p), JobKnows(p), [Next]_vars
  PROVE  JobKnows(p)'
<1>1. UsersOK' /\ PodsOK /\ KubeOK
  BY DEF TypeOK
<1>2. CASE Checks(p) \/ ReadRole(p) \/ ReadSource(p)
  BY <1>1, <1>2, DecidingKnows
<1>3. CASE \/ RevokeCreds(p) \/ Guard(p) \/ ReadProject(p) \/ ReadCreds(p) \/ Find(p)
           \/ DeleteCreds(p)
  BY <1>1, <1>3, PreparingKnows
<1>4. CASE \/ WriteRevoked(p) \/ WriteError(p) \/ AddFinalizer(p) \/ WritePreliminary(p)
           \/ WriteSynced(p) \/ WriteAlreadySynced(p) \/ RemoveFinalizer(p)
  BY <1>1, <1>4, WritingKnows
<1>5. CASE Disabling(p) \/ Create(p) \/ CreateVersion(p) \/ Delete(p)
  BY <1>1, <1>5, ScalewayKnows
<1>6. CASE Crash(p)
  <2>1. pc'[p] = "idle" /\ job'[p] = NoJob
    BY <1>1, <1>6 DEF Crash, PodsOK
  <2> QED
    BY <1>1, <2>1, NoJobKnows
<1>7. CASE Start(p)
  <2>1. PICK open : job' = [job EXCEPT ![p] = JobFor(Head(feed[p]), open)]
    BY <1>7 DEF Start
  <2>2. PICK j : j = JobFor(Head(feed[p]), open)
    OBVIOUS
  <2>3. pc'[p] = "checks" /\ job'[p] = j /\ source' = source /\ scw' = scw
    BY <1>1, <1>7, <2>1, <2>2 DEF Start, PodsOK, users
  <2>4. j.rv = None /\ j.sid = j.cr.status.sid /\ j.cr = Head(feed[p])
    BY <2>2 DEF JobFor
  <2>5. Head(feed[p]) = feed[p][1] /\ 1 \in DOMAIN feed[p]
    BY <1>1, HeadTailProperties, LenProperties, EmptySeq DEF KubeOK
  <2>6. Faithful(j.cr)
    BY <2>4, <2>5 DEF SnapshotsFaithful, Around
  <2>7. source.rv \in Nat /\ source.rv > 0
    BY <1>1, <2>3 DEF Counted, UsersOK
  <2>8. KnowsOf(j)'
    BY <2>3, <2>4, <2>6, <2>7 DEF KnowsOf, Faithful, Consented, None
  <2>9. KnowsAt(p, "checks", j)'
    BY DEF KnowsAt, Pushing, Committed
  <2> QED
    BY <2>3, <2>8, <2>9 DEF JobKnows
<1>8. CASE Deliver(p) \/ EditSource \/ EditNamespace \/ UNCHANGED vars
  <2>1. UNCHANGED <<scw, pc, job>> /\ live' = live
    BY <1>8 DEF Deliver, EditSource, EditNamespace, vars, kube
  <2> QED
    BY <2>1, EnvironmentKnows
<1>9. CASE EditSpec \/ DeleteCR
  <2>1. UNCHANGED <<scw, pc, job>>
    BY <1>9 DEF EditSpec, DeleteCR
  <2>2. live' = live \/ Reissued
    BY <1>1, <1>9, EditedLive
  <2> QED
    BY <2>1, <2>2, EnvironmentKnows
<1>10. [Next]_vars => \/ Reconcile(p) \/ Deliver(p) \/ Crash(p)
                     \/ EditSpec \/ DeleteCR \/ EditSource \/ EditNamespace
                     \/ UNCHANGED vars
  BY DEF Next, OnePod
<1> QED
  BY <1>2, <1>3, <1>4, <1>5, <1>6, <1>7, <1>8, <1>9, <1>10 DEF Reconcile

-----------------------------------------------------------------------------
(* The inductive invariant. *)

LEMMA InitSyncInv == Init => SyncInv
<1> SUFFICES ASSUME Init PROVE SyncInv
  OBVIOUS
<1>1. PICK sp \in Specs : live = NewCR(sp)
  BY DEF Init
<1>2. /\ live.gen = 1 /\ ~live.deleting
      /\ live.status.sid = None /\ live.status.rv = None /\ live.status.ogen = None
      /\ source.rv = 1 /\ ops = 0 /\ None = 0
  BY <1>1 DEF Init, NewCR, NewStatus, None
<1>3. /\ NoJob.cr.gen = 1 /\ ~NoJob.cr.deleting
      /\ NoJob.cr.status = NewStatus /\ NoJob.sid = None /\ NoJob.rv = None
  BY DEF NoJob, JobFor, NewCR, NewStatus
<1>4. Counted
  BY <1>2 DEF Counted
<1>5. ASSUME NEW p \in Pods
      PROVE  SnapshotsFaithful(p) /\ Ordered(p) /\ CurrentIsLive(p) /\ JobKnows(p)
  <2>1. feed[p] = <<live>> /\ pc[p] = "idle" /\ job[p] = NoJob
    BY DEF Init
  <2>2. DOMAIN feed[p] = 1..1 /\ feed[p][1] = live /\ Len(feed[p]) = 1
    BY <2>1
  <2>3. Faithful(live) /\ Faithful(NoJob.cr)
    BY <1>2, <1>3 DEF Faithful, Consented, Stale, NewStatus
  <2>4. SnapshotsFaithful(p)
    BY <2>1, <2>2, <2>3 DEF SnapshotsFaithful, Around
  <2>5. Ordered(p)
    BY <1>2, <1>3, <2>1, <2>2 DEF Ordered, Precedes
  <2>6. KnowsOf(NoJob) /\ KnowsAt(p, "idle", NoJob)
    BY <1>2, <1>3 DEF KnowsOf, KnowsAt, Consented, NewStatus, Pushing, Committed
  <2> QED
    BY <2>1, <2>4, <2>5, <2>6 DEF CurrentIsLive, JobKnows
<1> QED
  BY <1>4, <1>5, InitSafeInv DEF SyncInv

LEMMA NextSyncInv == OnePod /\ SyncInv /\ [Next]_vars => SyncInv'
<1> SUFFICES ASSUME OnePod, SyncInv, [Next]_vars PROVE SyncInv'
  OBVIOUS
<1>1. SafeInv' /\ SafeInv
  BY NextSafeInv DEF SyncInv
<1>2. TypeOK /\ TypeOK' /\ ProjectKnown /\ SnapshotsBehind /\ StepKnows
  BY <1>1 DEF SafeInv, IInv
<1>3. Counted /\ Counted'
  BY <1>2, NextCounted DEF SyncInv
<1>4. ASSUME NEW p \in Pods
      PROVE  (SnapshotsFaithful(p) /\ Ordered(p) /\ CurrentIsLive(p) /\ JobKnows(p))'
  <2>1. SnapshotsFaithful(p) /\ Ordered(p) /\ CurrentIsLive(p) /\ JobKnows(p)
    BY DEF SyncInv
  <2>2. SnapshotsFaithful(p)'
    BY <1>2, <1>3, <2>1, NextSnapshots
  <2>3. Ordered(p)'
    BY <1>2, <2>1, NextOrdered
  <2>4. CurrentIsLive(p)'
    BY <1>2, <2>1, NextCurrent
  <2>5. JobKnows(p)'
    BY <1>2, <1>3, <2>1, NextJobKnows
  <2> QED
    BY <2>2, <2>3, <2>4, <2>5
<1> QED
  BY <1>1, <1>3, <1>4 DEF SyncInv

LEMMA SyncInvariance == OnePod => (Spec => []SyncInv)
<1> SUFFICES ASSUME OnePod PROVE Spec => []SyncInv
  OBVIOUS
<1>1. Init => SyncInv
  BY InitSyncInv
<1>2. SyncInv /\ [Next]_vars => SyncInv'
  BY NextSyncInv
<1> QED
  BY <1>1, <1>2, PTL DEF Spec

-----------------------------------------------------------------------------
(* What the steps show of themselves. *)

\* The version that a step adds goes to the secret that the status names.
LEMMA PushAnchored ==
  ASSUME SyncInv, NEW p \in Pods, CreateVersion(p)
  PROVE  live.exists /\ live.status.sid = job[p].sid
  BY DEF SyncInv, JobKnows, KnowsAt, CreateVersion, Committed

LEMMA ReducedLengths ==
  ASSUME scw \in Seq(Secret), Reduced, NEW s \in DOMAIN scw
  PROVE  Len(scw'[s].versions) <= Len(scw[s].versions)
<1>1. scw[s].versions \in Seq(Version) /\ Len(scw[s].versions) \in Nat
  BY VersionsOfSecret, LenProperties
<1>2. CASE scw' = scw
  BY <1>1, <1>2
<1>3. ASSUME NEW t, NEW r, HasVersion(scw, t, r), scw' = DisableVersion(scw, t, r)
      PROVE  Len(scw'[s].versions) <= Len(scw[s].versions)
  <2> DEFINE versions == Disable(scw[t].versions, r)
  <2>1. t \in DOMAIN scw /\ r \in DOMAIN scw[t].versions /\ scw[t].versions \in Seq(Version)
    BY <1>3, VersionsOfSecret DEF HasVersion, IsAlive
  <2>2. versions \in Seq(Version) /\ scw' = [scw EXCEPT ![t].versions = versions]
    BY <1>3, <2>1, DisableHistory DEF DisableVersion
  <2>3. Len(versions) = Len(scw[t].versions)
    BY <2>1, <2>2, DisableEffect, LenProperties
  <2> HIDE DEF versions
  <2>4. scw'[t].versions = versions /\ \A u \in DOMAIN scw \ {t} : scw'[u] = scw[u]
    BY <2>1, <2>2, VersionsEffect
  <2> QED
    BY <1>1, <2>3, <2>4
<1>4. ASSUME NEW t, IsAlive(scw, t), scw' = DeleteSecret(scw, t)
      PROVE  Len(scw'[s].versions) <= Len(scw[s].versions)
  <2>1. scw'[t].versions = <<>> /\ \A u \in DOMAIN scw \ {t} : scw'[u] = scw[u]
    BY <1>4, DeleteEffect
  <2> QED
    BY <1>1, <2>1
<1> QED
  BY <1>2, <1>3, <1>4 DEF Reduced

\* Reserve-intent: with one pod, whatever is lost and whatever users do in between,
\* a version is only ever created once the status of the CR on the API server holds
\* the id of its secret (write of the preliminary status in CreateAndSyncSecret).
THEOREM AnchoredVersions == OnePod => (Spec => VersionOnAnchoredSecret)
<1> SUFFICES ASSUME OnePod PROVE Spec => VersionOnAnchoredSecret
  OBVIOUS
<1> DEFINE Anchored ==
               \A s \in DOMAIN scw :
                   Len(scw'[s].versions) > Len(scw[s].versions)
                       => live.exists /\ live.status.sid = s
<1>1. SyncInv /\ [Next]_vars => Anchored
  <2> SUFFICES ASSUME SyncInv, [Next]_vars, NEW s \in DOMAIN scw,
                      Len(scw'[s].versions) > Len(scw[s].versions)
               PROVE  live.exists /\ live.status.sid = s
    OBVIOUS
  <2>1. TypeOK /\ ProjectKnown /\ scw \in Seq(Secret) /\ PodsOK
    BY DEF SyncInv, SafeInv, IInv, TypeOK
  <2>2. Len(scw[s].versions) \in Nat
    BY <2>1, VersionsOfSecret, LenProperties
  <2>3. ASSUME Reduced PROVE FALSE
    <3>1. Len(scw'[s].versions) <= Len(scw[s].versions)
      BY <2>1, <2>3, ReducedLengths
    <3>2. Len(scw'[s].versions) \in Nat
      <4>1. scw' \in Seq(Secret) /\ s \in DOMAIN scw'
        BY <2>1, NextIInv, StepAged DEF Aged, SyncInv, SafeInv, IInv, TypeOK
      <4> QED
        BY <4>1, VersionsOfSecret, LenProperties
    <3> QED
      BY <2>2, <3>1, <3>2
  <2>4. ASSUME NEW p \in Pods, Created(p) PROVE FALSE
    <3>1. scw'[s] = scw[s]
      BY <2>1, <2>4, NewSecretEffect DEF Created
    <3> QED
      BY <2>2, <3>1
  <2>5. ASSUME NEW p \in Pods, Pushed(p), s # job[p].sid PROVE FALSE
    <3>1. job[p].sid \in DOMAIN scw /\ PayloadOf(job[p]) \in Payload
      BY <2>1, <2>5, PayloadType DEF Pushed, IsAlive, PodsOK
    <3>2. /\ scw[job[p].sid].versions \in Seq(Version)
          /\ AddVersion(scw[job[p].sid].versions, PayloadOf(job[p])) \in Seq(Version)
      BY <2>1, <3>1, VersionsOfSecret, AddHistory
    <3>3. scw'[s] = scw[s]
      BY <2>1, <2>5, <3>1, <3>2, VersionsEffect DEF Pushed, NewVersion
    <3> QED
      BY <2>2, <3>3
  <2> QED
    BY <2>1, <2>3, <2>4, <2>5, StepSecrets, PushAnchored DEF Pushed
<1> HIDE DEF Anchored
<1>2. Spec => [][Anchored]_vars
  BY <1>1, SyncInvariance, PTL DEF Spec
<1> QED
  BY <1>2 DEF VersionOnAnchoredSecret, Anchored

\* The states of the statuses that writes put in place.
LEMMA WrittenState ==
  ASSUME TypeOK, NEW p \in Pods, NEW st, StatusWritten(p, st)
  PROVE  /\ live'.status = st /\ live'.exists /\ live.exists
         /\ live'.deleting = live.deleting /\ live'.gen = live.gen
         /\ st.state = "Synced" => WriteSynced(p) \/ WriteAlreadySynced(p)
         /\ st.state = "Revoked" => pc[p] = "writeRevoked" /\ st = RevokedStatus(job[p])
<1>1. live \in CR /\ job[p].cr.status \in Status
  BY DEF TypeOK, KubeOK, PodsOK, Job, CR
<1>2. /\ ErrorStatus(job[p]).state = "Error"
      /\ PreliminaryStatus(job[p]).state = "Syncing"
      /\ RevokedStatus(job[p]).state = "Revoked"
      /\ SyncedStatus(job[p]).state = "Synced"
      /\ AlreadySyncedStatus(job[p]).state = "Synced"
  BY <1>1 DEF ErrorStatus, PreliminaryStatus, RevokedStatus, SyncedStatus,
              AlreadySyncedStatus, Status
<1>3. live' = [live EXCEPT !.status = st] /\ live.exists
  BY DEF StatusWritten
<1>4. WriteRevoked(p) => pc[p] = "writeRevoked"
  BY DEF WriteRevoked
<1> QED
  BY <1>1, <1>2, <1>3, <1>4 DEF StatusWritten, CR

\* A status that becomes Synced names a version that holds what it records.
LEMMA WrittenSynced ==
  ASSUME SyncInv, NEW p \in Pods, NEW st, StatusWritten(p, st), st.state = "Synced"
  PROVE  Holds(st)
<1>1. TypeOK /\ job[p].cr.status \in Status /\ KnowsAt(p, pc[p], job[p])
  BY DEF SyncInv, JobKnows, SafeInv, IInv, TypeOK, PodsOK, Job, CR
<1>2. CASE WriteSynced(p) /\ st = SyncedStatus(job[p])
  BY <1>1, <1>2 DEF WriteSynced, KnowsAt
<1>3. CASE WriteAlreadySynced(p) /\ st = AlreadySyncedStatus(job[p])
  <2>1. job[p].cr.status.ogen # None /\ Holds(job[p].cr.status)
    BY <1>1, <1>3 DEF WriteAlreadySynced, KnowsAt
  <2>2. /\ st.sid = job[p].cr.status.sid /\ st.rv = job[p].cr.status.rv
        /\ st.ogen = job[p].cr.status.ogen /\ st.ver = job[p].cr.status.ver
    BY <1>1, <1>3, <2>1 DEF AlreadySyncedStatus, Status
  <2> QED
    BY <2>1, <2>2 DEF Holds
<1>4. CASE \/ WriteRevoked(p) /\ st = RevokedStatus(job[p])
           \/ WriteError(p) /\ st = ErrorStatus(job[p])
           \/ WritePreliminary(p) /\ st = PreliminaryStatus(job[p])
  BY <1>1, <1>4 DEF RevokedStatus, ErrorStatus, PreliminaryStatus, Status
<1> QED
  BY <1>2, <1>3, <1>4 DEF StatusWritten

\* With one pod, a status that becomes Synced tells the truth, whatever status writes
\* were lost, snapshots late, sources edited or opt-ins withdrawn meanwhile: a version
\* is only disabled or replaced once nothing claims it any more.
THEOREM SyncedTellsTruth == OnePod => (Spec => SyncedIsTrue)
<1> SUFFICES ASSUME OnePod PROVE Spec => SyncedIsTrue
  OBVIOUS
<1> DEFINE True ==
               LET st == live'.status IN
               st # live.status /\ st.state = "Synced"
                   => /\ HasVersion(scw, st.sid, st.ver)
                      /\ st.ver \in EnabledVersions(scw, st.sid)
                      /\ scw[st.sid].versions[st.ver].payload.rv = st.rv
                      /\ scw[st.sid].versions[st.ver].payload.gen = st.ogen
<1>1. SyncInv /\ [Next]_vars => True
  <2> SUFFICES ASSUME SyncInv, [Next]_vars, live'.status # live.status,
                      live'.status.state = "Synced"
               PROVE  Holds(live'.status)
    BY DEF Holds, HasVersion, EnabledVersions
  <2>1. TypeOK
    BY DEF SyncInv, SafeInv, IInv
  <2>2. PICK p \in Pods, st \in Status : StatusWritten(p, st)
    BY <2>1, StepLive DEF Marked, Reissued
  <2>3. live'.status = st
    BY <2>1, <2>2, WrittenState
  <2> QED
    BY <2>2, <2>3, WrittenSynced
<1> HIDE DEF True
<1>2. Spec => [][True]_vars
  BY <1>1, SyncInvariance, PTL DEF Spec
<1> QED
  BY <1>2 DEF SyncedIsTrue, True

-----------------------------------------------------------------------------
(* The reconciler keeps the promises of SecretSync. *)

LEMMA PushValue ==
  ASSUME SyncInv, NEW p \in Pods, CreateVersion(p)
  PROVE  PayloadOf(job[p]) \in [rv : 1..(MaxOps + 1), gen : 1..(MaxOps + 1), granted : {TRUE}]
<1>1. /\ job[p] \in Job /\ job[p].rv \in Nat /\ job[p].rv # None /\ job[p].granted
      /\ Consented(job[p].rv) /\ source.rv \in 1..(ops + 1) /\ ops \in 0..MaxOps
      /\ job[p].cr.gen \in 1..live.gen /\ live.gen <= ops + 1 /\ live.gen \in Nat
      /\ source.rv \in Nat
  <2>1. TypeOK /\ StepKnows /\ Counted /\ JobKnows(p) /\ Faithful(job[p].cr)
    BY DEF SyncInv, SafeInv, IInv, SnapshotsFaithful, Around
  <2>2. job[p] \in Job /\ job[p].rv \in Nat /\ ops \in 0..MaxOps /\ live.gen \in Nat
        /\ source.rv \in Nat
    BY <2>1 DEF TypeOK, KubeOK, PodsOK, UsersOK, Job, CR
  <2>3. job[p].rv # None /\ job[p].granted /\ Consented(job[p].rv)
    BY <2>1 DEF CreateVersion, JobKnows, KnowsOf, KnowsAt, StepKnows, Told, Pushing
  <2> QED
    BY <2>1, <2>2, <2>3 DEF Counted, Faithful
<1>2. MaxOps \in Nat
  BY SecretAssumption
<1>3. job[p].rv \in 1..(MaxOps + 1)
  BY <1>1, <1>2 DEF Consented, None
<1>4. job[p].cr.gen \in 1..(MaxOps + 1)
  BY <1>1, <1>2
<1> QED
  BY <1>1, <1>3, <1>4 DEF PayloadOf

\* Both modules speak of the same Secret Manager.
LEMMA SameStore ==
  /\ Abstract!None = None
  /\ \A s : Abstract!IsAlive(scw, s) <=> IsAlive(scw, s)
  /\ \A s, r : Abstract!HasVersion(scw, s, r) <=> HasVersion(scw, s, r)
  /\ \A s : Abstract!EnabledVersions(scw, s) = EnabledVersions(scw, s)
  /\ \A project : Abstract!NewSecret(scw, project) = NewSecret(scw, project)
  /\ \A s, v : Abstract!NewVersion(scw, s, v) = NewVersion(scw, s, v)
  /\ \A s, r : Abstract!DisableVersion(scw, s, r) = DisableVersion(scw, s, r)
  /\ \A s : Abstract!DeleteSecret(scw, s) = DeleteSecret(scw, s)
<1>1. Abstract!None = None
  BY DEF Abstract!None, None
<1>2. \A s : Abstract!IsAlive(scw, s) <=> IsAlive(scw, s)
  BY DEF Abstract!IsAlive, IsAlive
<1>3. \A s, r : Abstract!HasVersion(scw, s, r) <=> HasVersion(scw, s, r)
  BY DEF Abstract!HasVersion, HasVersion, Abstract!IsAlive, IsAlive
<1>4. \A s : Abstract!EnabledVersions(scw, s) = EnabledVersions(scw, s)
  BY DEF Abstract!EnabledVersions, EnabledVersions
<1>5. \A project : Abstract!NewSecret(scw, project) = NewSecret(scw, project)
  BY DEF Abstract!NewSecret, NewSecret
<1>6. \A s, v : Abstract!NewVersion(scw, s, v) = NewVersion(scw, s, v)
  BY DEF Abstract!NewVersion, NewVersion, Abstract!AddVersion, AddVersion,
         Abstract!Disable, Disable
<1>7. \A s, r : Abstract!DisableVersion(scw, s, r) = DisableVersion(scw, s, r)
  BY DEF Abstract!DisableVersion, DisableVersion, Abstract!Disable, Disable
<1>8. \A s : Abstract!DeleteSecret(scw, s) = DeleteSecret(scw, s)
  BY DEF Abstract!DeleteSecret, DeleteSecret
<1> QED
  BY <1>1, <1>2, <1>3, <1>4, <1>5, <1>6, <1>7, <1>8

LEMMA ScalewayImplements ==
  ASSUME SyncInv, NothingToFind, [Next]_vars, NEW p \in Pods, scw' # scw,
         Disabling(p) \/ Delete(p) \/ CreateVersion(p) \/ Created(p)
  PROVE  Abstract!Next
<1>1. UNCHANGED kube /\ live' = live
  BY DEF Disabling, Delete, CreateVersion, Created, Create, kube
<1>2. CASE Disabling(p)
  <2> DEFINE st == job[p].cr.status
  <2>1. HasVersion(scw, st.sid, st.ver) /\ scw' = DisableVersion(scw, st.sid, st.ver)
    BY <1>2 DEF Disabling, ScalewayCall
  <2> HIDE DEF st
  <2>2. Abstract!Withdraw
    BY <1>1, <2>1, SameStore DEF Abstract!Withdraw, HasVersion, IsAlive
  <2> QED
    BY <2>2 DEF Abstract!Next
<1>3. CASE Delete(p)
  <2> DEFINE s == job[p].cr.status.sid
  <2>1. IsAlive(scw, s) /\ scw' = DeleteSecret(scw, s)
    BY <1>3 DEF Delete, ScalewayCall
  <2> HIDE DEF s
  <2>2. live.deleting
    BY <1>3 DEF Delete, SyncInv, SafeInv, StepKnows, Told, Leaving, SnapshotsBehind, Behind
  <2>3. Abstract!Remove
    BY <1>1, <2>1, <2>2, SameStore DEF Abstract!Remove, IsAlive
  <2> QED
    BY <2>3 DEF Abstract!Next
<1>4. CASE CreateVersion(p)
  <2>1. /\ IsAlive(scw, job[p].sid)
        /\ scw' = NewVersion(scw, job[p].sid, PayloadOf(job[p]))
    BY <1>4 DEF CreateVersion, ScalewayCall
  <2>2. live.exists /\ live.status.sid = job[p].sid
    BY <1>4, PushAnchored
  <2>3. Abstract!Push
    BY <1>1, <1>4, <2>1, <2>2, PushValue, SameStore DEF Abstract!Push
  <2> QED
    BY <2>3 DEF Abstract!Next
<1>5. CASE Created(p)
  <2>1. /\ job[p].project \in Projects /\ scw' = NewSecret(scw, job[p].project)
        /\ \A s \in DOMAIN scw : ~IsAlive(scw, s)
    BY <1>5 DEF Created, Create, NothingToFind, IsAlive
  <2>2. live.exists
    BY <1>5 DEF Created, Create, SyncInv, JobKnows, KnowsAt, Committed
  <2>3. Abstract!CreateSecret
    BY <1>1, <2>1, <2>2, SameStore DEF Abstract!CreateSecret
  <2> QED
    BY <2>3 DEF Abstract!Next
<1> QED
  BY <1>2, <1>3, <1>4, <1>5

LEMMA AnnounceImplements ==
  ASSUME SyncInv, SyncInv', NEW p \in Pods, NEW st \in Status, StatusWritten(p, st)
  PROVE  [Abstract!Next]_(Abstract!vars)
<1>1. TypeOK /\ st \in Status
  BY DEF SyncInv, SafeInv, IInv
<1>2. /\ live'.status = st /\ live'.exists /\ live.exists
      /\ live'.deleting = live.deleting /\ live'.gen = live.gen
  BY <1>1, WrittenState
<1>3. scw' = scw
  BY DEF StatusWritten, WriteRevoked, WriteError, WritePreliminary, WriteSynced,
         WriteAlreadySynced
<1>4. st.sid \in {None} \cup DOMAIN scw
  BY <1>2, <1>3 DEF SyncInv, SnapshotsFaithful, Around, Faithful
<1>5. st.state = "Synced" => Holds(st)
  BY WrittenSynced
<1>6. ASSUME st.state = "Revoked", HasVersion(scw, st.sid, st.ver)
      PROVE  st.ver \notin EnabledVersions(scw, st.sid)
  <2>1. pc[p] = "writeRevoked" /\ st = RevokedStatus(job[p])
    BY <1>1, <1>6, WrittenState
  <2>2. st.sid = job[p].cr.status.sid /\ st.ver = job[p].cr.status.ver
    <3>1. job[p].cr.status \in Status
      BY <1>1 DEF TypeOK, PodsOK, Job, CR
    <3> QED
      BY <2>1, <3>1 DEF RevokedStatus, Status
  <2>3. st.ver # None
    <3>1. scw \in Seq(Secret)
      BY <1>1 DEF TypeOK
    <3>2. scw[st.sid].versions \in Seq(Version)
      BY <1>6, <3>1, VersionsOfSecret DEF HasVersion, IsAlive
    <3>3. DOMAIN scw[st.sid].versions = 1..Len(scw[st.sid].versions)
      BY <3>2, LenProperties
    <3> QED
      BY <1>6, <3>3 DEF HasVersion, None
  <2>4. DisabledVersion(job[p].cr.status)
    BY <2>1, <2>2, <2>3 DEF SyncInv, SafeInv, DisabledKnown
  <2> QED
    BY <1>6, <2>2, <2>4 DEF DisabledVersion, EnabledVersions, HasVersion, IsAlive
<1>7. Abstract!Announce \/ UNCHANGED Abstract!vars
  BY <1>2, <1>3, <1>4, <1>5, <1>6, SameStore
  DEF Abstract!Announce, Abstract!vars, Abstract!Claims, Abstract!SyncedIsTrue,
      Abstract!RevokedIsTrue, Holds
<1> QED
  BY <1>7 DEF Abstract!Next

\* A step that moves only the life of the CR forward is a Depart.
LEMMA DepartMoves ==
  ASSUME NEW a, NEW b,
         <<a, b>> \in {<<"present", "deleting">>, <<"present", "gone">>, <<"deleting", "gone">>},
         (IF ~live.exists THEN "gone" ELSE IF live.deleting THEN "deleting" ELSE "present") = a,
         (IF ~live'.exists THEN "gone" ELSE IF live'.deleting THEN "deleting" ELSE "present") = b,
         live'.status = live.status, scw' = scw
  PROVE  Abstract!Depart
<1> DEFINE s == live.status
           claim == IF s.state \in {"Synced", "Revoked"} THEN s.state ELSE "nothing"
           value == [rv |-> s.rv, gen |-> s.ogen, granted |-> TRUE]
           sid == s.sid
           ver == s.ver
           R(l) == [life |-> l, claim |-> claim, sid |-> sid, ver |-> ver, value |-> value]
<1>1. /\ R(a).life = a /\ R(b).life = b
      /\ R(b) = [R(a) EXCEPT !.life = b]
  <2> HIDE DEF claim, value, sid, ver
  <2> QED
    OBVIOUS
<1>2. /\ <<R(a).life, R(b).life>> \in
          {<<"present", "deleting">>, <<"present", "gone">>, <<"deleting", "gone">>}
      /\ R(b) = [R(a) EXCEPT !.life = R(b).life]
  BY <1>1
<1> QED
  BY <1>2, Zenon DEF Abstract!Depart

LEMMA DepartImplements ==
  ASSUME SyncInv, [Next]_vars, Marked \/ Reissued
  PROVE  [Abstract!Next]_(Abstract!vars)
<1>1. TypeOK /\ SnapshotsBehind /\ StepKnows /\ live \in CR /\ live' \in CR
  <2>1. IInv /\ SnapshotsBehind /\ StepKnows
    BY DEF SyncInv, SafeInv
  <2> QED
    BY <2>1, NextIInv DEF IInv, TypeOK, KubeOK
<1>2. Forward
  BY <1>1, StepForward
<1>3. live'.status = live.status /\ scw' = scw
  BY DEF Marked, Reissued
<1>4. /\ live.exists \in BOOLEAN /\ live'.exists \in BOOLEAN
      /\ live.deleting \in BOOLEAN /\ live'.deleting \in BOOLEAN
      /\ live.deleting => live'.deleting
      /\ live'.exists => live.exists
  BY <1>1, <1>2 DEF Forward, CR
<1>5. CASE ~live.exists \/ (live'.exists /\ live'.deleting = live.deleting)
  <2>1. live'.exists = live.exists /\ (live.exists => live'.deleting = live.deleting)
    BY <1>4, <1>5
  <2>2. UNCHANGED Abstract!vars
    BY <1>3, <2>1 DEF Abstract!vars
  <2> QED
    BY <2>2
<1>6. CASE live.exists /\ live'.exists /\ ~live.deleting /\ live'.deleting
  <2>1. Abstract!Depart
    BY <1>3, <1>6, DepartMoves
  <2> QED
    BY <2>1 DEF Abstract!Next
<1>7. CASE live.exists /\ ~live'.exists
  <2>1. Abstract!Depart
    <3>1. CASE live.deleting
      BY <1>3, <1>7, <3>1, DepartMoves
    <3>2. CASE ~live.deleting
      BY <1>3, <1>7, <3>2, DepartMoves
    <3> QED
      BY <3>1, <3>2
  <2> QED
    BY <2>1 DEF Abstract!Next
<1> QED
  BY <1>4, <1>5, <1>6, <1>7

LEMMA InitImplements == Init => Abstract!Init
<1> SUFFICES ASSUME Init PROVE Abstract!Init
  OBVIOUS
<1>1. PICK sp \in Specs : live = NewCR(sp)
  BY DEF Init
<1>2. /\ live.exists /\ ~live.deleting /\ live.status.sid = None
      /\ live.status.state = "Syncing" /\ scw = <<>>
  BY <1>1 DEF Init, NewCR, NewStatus
<1> QED
  BY <1>2, SameStore DEF Abstract!Init

LEMMA StepImplements ==
  ASSUME SyncInv, SyncInv', NothingToFind, [Next]_vars
  PROVE  [Abstract!Next]_(Abstract!vars)
<1>1. TypeOK /\ ProjectKnown
  BY DEF SyncInv, SafeInv, IInv
<1>2. CASE scw' # scw
  BY <1>1, <1>2, StepStore, ScalewayImplements
<1>3. CASE scw' = scw /\ live' = live
  BY <1>3 DEF Abstract!vars
<1>4. CASE live' # live
  BY <1>1, <1>4, StepLive, AnnounceImplements, DepartImplements
<1> QED
  BY <1>2, <1>3, <1>4

\* With one pod and one project, the reconciler implements SecretSync, the abstract
\* specification that the RDB reconciler runs against: one secret at a time, versions
\* in the secret the status names, Synced and Revoked that tell the truth, and nothing
\* deleted before the CR, through lost answers, late snapshots and restarts.
THEOREM Implementation == OnePod /\ OneProject => (Spec => ImplementsSecretSync)
<1> SUFFICES ASSUME OnePod, OneProject PROVE Spec => ImplementsSecretSync
  OBVIOUS
<1>1. Init => Abstract!Init /\ NothingToFind
  <2>1. Init => NothingToFind
    BY DEF Init, NothingToFind
  <2> QED
    BY <2>1, InitImplements
<1>2. SyncInv /\ NothingToFind /\ [Next]_vars => NothingToFind'
  BY NextNothingToFind DEF SyncInv, SafeInv, IInv
<1>3. SyncInv /\ SyncInv' /\ NothingToFind /\ [Next]_vars => [Abstract!Next]_(Abstract!vars)
  BY StepImplements
<1>4. Spec => []SyncInv
  BY SyncInvariance
<1>5. Spec => Abstract!Spec
  BY <1>1, <1>2, <1>3, <1>4, PTL DEF Spec, Abstract!Spec
<1> QED
  BY <1>5 DEF ImplementsSecretSync

-----------------------------------------------------------------------------
(* A value is pushed once.  Failures put it off, but as long as nothing    *)
(* fails, what the versions hold tells what the reconcile may push.        *)

\* A version of the value at rv, pushed under generation gen.
Held(rv, gen) ==
    \E s \in DOMAIN scw : \E r \in DOMAIN scw[s].versions :
        scw[s].versions[r].payload.rv = rv /\ scw[s].versions[r].payload.gen = gen
HeldNow == Held(source.rv, live.gen) /\ ~live.deleting

\* The versions of a step were there before it, but for the one that a push adds.
Inherited(s, r) ==
    /\ s \in DOMAIN scw /\ r \in DOMAIN scw[s].versions
    /\ scw'[s].versions[r].payload = scw[s].versions[r].payload

LEMMA AddLength ==
  ASSUME NEW versions \in Seq(Version), NEW payload \in Payload,
         NEW r \in DOMAIN AddVersion(versions, payload) \ DOMAIN versions
  PROVE  r = Len(versions) + 1
<1> DEFINE old == IF versions = <<>> THEN versions ELSE Disable(versions, Len(versions))
           v == [payload |-> payload, enabled |-> TRUE]
<1>1. v \in Version
  BY DEF Version
<1>2. old \in Seq(Version) /\ Len(old) = Len(versions)
  <2>1. CASE versions = <<>>
    BY <2>1
  <2>2. CASE versions # <<>>
    <3>1. Len(versions) \in DOMAIN versions
      BY <2>2, EmptySeq, LenProperties
    <3> QED
      BY <2>2, <3>1, DisableHistory
  <2> QED
    BY <2>1, <2>2
<1>3. AddVersion(versions, payload) = Append(old, v)
  BY DEF AddVersion
<1> HIDE DEF old, v
<1>4. Append(old, v) \in Seq(Version) /\ Len(Append(old, v)) = Len(old) + 1
  BY <1>1, <1>2, AppendProperties
<1>5. /\ DOMAIN Append(old, v) = 1..(Len(old) + 1) /\ DOMAIN old = 1..Len(old)
      /\ Len(old) \in Nat /\ DOMAIN versions = 1..Len(versions) /\ Len(versions) \in Nat
  BY <1>2, <1>4, LenProperties
<1> QED
  BY <1>2, <1>3, <1>5

LEMMA ReducedInherits ==
  ASSUME scw \in Seq(Secret), Reduced,
         NEW s \in DOMAIN scw', NEW r \in DOMAIN scw'[s].versions
  PROVE  Inherited(s, r)
<1>1. CASE scw' = scw
  BY <1>1 DEF Inherited
<1>2. ASSUME NEW t, NEW q, HasVersion(scw, t, q), scw' = DisableVersion(scw, t, q)
      PROVE  Inherited(s, r)
  <2> DEFINE versions == Disable(scw[t].versions, q)
  <2>1. t \in DOMAIN scw /\ q \in DOMAIN scw[t].versions /\ scw[t].versions \in Seq(Version)
    BY <1>2, VersionsOfSecret DEF HasVersion, IsAlive
  <2>2. versions \in Seq(Version) /\ scw' = [scw EXCEPT ![t].versions = versions]
    BY <1>2, <2>1, DisableHistory DEF DisableVersion
  <2>3. /\ DOMAIN versions = DOMAIN scw[t].versions
        /\ \A k \in DOMAIN scw[t].versions : Kept(scw[t].versions, versions, k)
    BY <2>1, DisableEffect
  <2> HIDE DEF versions
  <2>4. /\ DOMAIN scw' = DOMAIN scw /\ scw'[t].versions = versions
        /\ \A u \in DOMAIN scw \ {t} : scw'[u] = scw[u]
    BY <2>1, <2>2, VersionsEffect
  <2> QED
    BY <2>1, <2>3, <2>4 DEF Inherited, Kept
<1>3. ASSUME NEW t, IsAlive(scw, t), scw' = DeleteSecret(scw, t)
      PROVE  Inherited(s, r)
  <2>1. /\ DOMAIN scw' = DOMAIN scw /\ scw'[t].versions = <<>>
        /\ \A u \in DOMAIN scw \ {t} : scw'[u] = scw[u]
    BY <1>3, DeleteEffect
  <2>2. DOMAIN <<>> = {}
    BY EmptySeq, LenProperties
  <2> QED
    BY <2>1, <2>2 DEF Inherited
<1> QED
  BY <1>1, <1>2, <1>3 DEF Reduced

LEMMA CreatedInherits ==
  ASSUME scw \in Seq(Secret), NEW p \in Pods, Created(p),
         NEW s \in DOMAIN scw', NEW r \in DOMAIN scw'[s].versions
  PROVE  Inherited(s, r)
<1>1. /\ \A t \in DOMAIN scw : scw'[t] = scw[t]
      /\ \A t \in DOMAIN scw' \ DOMAIN scw : scw'[t].versions = <<>>
  BY NewSecretEffect DEF Created
<1>2. DOMAIN <<>> = {}
  BY EmptySeq, LenProperties
<1> QED
  BY <1>1, <1>2 DEF Inherited

LEMMA PushedInherits ==
  ASSUME scw \in Seq(Secret), PodsOK, NEW p \in Pods, Pushed(p),
         NEW s \in DOMAIN scw', NEW r \in DOMAIN scw'[s].versions
  PROVE  \/ Inherited(s, r)
         \/ /\ s = job[p].sid /\ r = Len(scw[s].versions) + 1
            /\ scw'[s].versions[r].payload = PayloadOf(job[p])
<1> DEFINE t == job[p].sid
           versions == AddVersion(scw[t].versions, PayloadOf(job[p]))
<1>1. t \in DOMAIN scw /\ scw[t].versions \in Seq(Version)
  BY VersionsOfSecret DEF Pushed, IsAlive
<1>2. PayloadOf(job[p]) \in Payload
  BY PayloadType DEF PodsOK, PayloadOf
<1>3. versions \in Seq(Version) /\ scw' = [scw EXCEPT ![t].versions = versions]
  BY <1>1, <1>2, AddHistory DEF Pushed, NewVersion
<1>4. /\ \A k \in DOMAIN scw[t].versions : Kept(scw[t].versions, versions, k)
      /\ \A k \in DOMAIN versions \ DOMAIN scw[t].versions :
             versions[k].payload = PayloadOf(job[p]) /\ k = Len(scw[t].versions) + 1
  BY <1>1, <1>2, AddEffect, AddLength
<1> HIDE DEF versions, t
<1>5. /\ DOMAIN scw' = DOMAIN scw /\ scw'[t].versions = versions
      /\ \A u \in DOMAIN scw \ {t} : scw'[u] = scw[u]
  BY <1>1, <1>3, VersionsEffect
<1>6. CASE s = t /\ r \in DOMAIN scw[t].versions
  BY <1>1, <1>4, <1>5, <1>6 DEF Inherited, Kept
<1>7. CASE s = t /\ r \notin DOMAIN scw[t].versions
  BY <1>4, <1>5, <1>7 DEF t
<1>8. CASE s # t
  BY <1>5, <1>8 DEF Inherited
<1> QED
  BY <1>6, <1>7, <1>8

\* Only a push adds a version, and it adds what its reconcile has read.
LEMMA StepHeld ==
  ASSUME TypeOK, ProjectKnown, [Next]_vars, NEW rv, NEW gen, Held(rv, gen)'
  PROVE  \/ Held(rv, gen)
         \/ \E p \in Pods : Pushed(p) /\ rv = job[p].rv /\ gen = job[p].cr.gen
<1> PICK s \in DOMAIN scw' : \E r \in DOMAIN scw'[s].versions :
             scw'[s].versions[r].payload.rv = rv /\ scw'[s].versions[r].payload.gen = gen
  BY DEF Held
<1>1. PICK r \in DOMAIN scw'[s].versions :
          scw'[s].versions[r].payload.rv = rv /\ scw'[s].versions[r].payload.gen = gen
  OBVIOUS
<1>2. CASE Inherited(s, r)
  BY <1>1, <1>2 DEF Inherited, Held
<1>3. ASSUME NEW p \in Pods, Pushed(p), scw'[s].versions[r].payload = PayloadOf(job[p])
      PROVE  rv = job[p].rv /\ gen = job[p].cr.gen
  BY <1>1, <1>3 DEF PayloadOf
<1> QED
  BY <1>2, <1>3, StepSecrets, ReducedInherits, CreatedInherits, PushedInherits DEF TypeOK

\* A user cannot revoke the operator's right to write.
Writable == \A n \in Namespaces : n.role \in WriteRoles /\ n.rbac

\* What was pushed was consented to, and no later snapshot is behind it.
Past(p) ==
    \A rv, gen \in Nat : Held(rv, gen) =>
        /\ Consented(rv)
        /\ \A i \in DOMAIN feed[p] : gen <= feed[p][i].gen
        /\ pc[p] # "idle" => gen <= job[p].cr.gen

\* A generation stands for one spec.
SameSpec(p) ==
    /\ \A i \in DOMAIN feed[p] : feed[p][i].gen = live.gen => feed[p][i].spec = live.spec
    /\ pc[p] # "idle" /\ job[p].cr.gen = live.gen => job[p].cr.spec = live.spec

\* What was pushed could be.
HeldIsPushable ==
    Held(source.rv, live.gen) =>
        live.spec.regionOk /\ ~live.spec.reserved /\ live.spec.key \in source.keys

\* What a reconcile tells of the versions: it pushes none twice, and none of its
\* writes loses track of the current one.
Losing == {"revokeCreds", "disable", "writeRevoked", "writeError"}
Tells(p, step, j) ==
    /\ step \in {"role", "source"} \cup Pushing => j.cr.spec.regionOk /\ ~j.cr.spec.reserved
    /\ step \in Pushing /\ j.rv = source.rv => j.cr.spec.key \in source.keys
    /\ step \in Pushing /\ (step = "guard" => current[p]) => ~Held(j.rv, j.cr.gen)
    /\ step \in Losing => ~HeldNow
    /\ step = "writeAlreadySynced" /\ HeldNow
           => j.cr.status.rv = source.rv /\ j.cr.status.ogen = live.gen
JobTells(p) == Tells(p, pc[p], job[p])

\* The status records the push of the current value, or is about to.
Tracked(p) ==
    HeldNow =>
        \/ live.status.rv = source.rv /\ live.status.ogen = live.gen
        \/ pc[p] = "writeSynced" /\ job[p].rv = source.rv /\ job[p].cr.gen = live.gen

DupFree ==
    \A s \in DOMAIN scw : \A q, r \in DOMAIN scw[s].versions :
        scw[s].versions[q].payload = scw[s].versions[r].payload => q = r

OnceAt(p) == Past(p) /\ SameSpec(p) /\ HeldIsPushable /\ JobTells(p) /\ Tracked(p)
OnceInv == faults = 0 => DupFree /\ \A p \in Pods : OnceAt(p)

LEMMA StepSpec ==
  ASSUME TypeOK, [Next]_vars
  PROVE  (live'.gen = live.gen /\ live'.spec = live.spec) \/ live'.gen = live.gen + 1
<1>1. live \in CR
  BY DEF TypeOK, KubeOK
<1>2. ASSUME NEW p \in Pods, NEW st \in Status, StatusWritten(p, st)
      PROVE  live'.gen = live.gen /\ live'.spec = live.spec
  BY <1>1, <1>2 DEF StatusWritten, CR
<1> QED
  BY <1>2, StepLive DEF Marked, Reissued

LEMMA StepFaults ==
  ASSUME [Next]_vars
  PROVE  faults' \in {faults, faults + 1}
<1>1. ASSUME NEW err, CredsRead(err) PROVE faults' \in {faults, faults + 1}
  BY <1>1 DEF CredsRead, Fault, NoFault
<1>2. ASSUME NEW new, NEW ok, Patch(new, ok) PROVE faults' \in {faults, faults + 1}
  BY <1>2 DEF Patch, Fault, NoFault
<1>3. ASSUME NEW possible, NEW new, NEW ok, ScalewayCall(possible, new, ok)
      PROVE  faults' \in {faults, faults + 1}
  BY <1>3 DEF ScalewayCall, Fault, NoFault
<1>4. ASSUME NEW p \in Pods,
             Start(p) \/ Checks(p) \/ ReadRole(p) \/ ReadSource(p) \/ Deliver(p) \/ Crash(p)
      PROVE  faults' \in {faults, faults + 1}
  BY <1>4 DEF Start, Checks, ReadRole, ReadSource, Deliver, Crash, Fault, NoFault
<1>5. ASSUME NEW p \in Pods, Guard(p) \/ ReadProject(p) \/ Find(p)
      PROVE  faults' \in {faults, faults + 1}
  BY <1>5 DEF Guard, ReadProject, Find, Fault, NoFault
<1>6. ASSUME NEW p \in Pods, RevokeCreds(p) \/ ReadCreds(p) \/ DeleteCreds(p)
      PROVE  faults' \in {faults, faults + 1}
  BY <1>1, <1>6 DEF RevokeCreds, ReadCreds, DeleteCreds
<1>7. ASSUME NEW p \in Pods, Disabling(p) \/ Create(p) \/ CreateVersion(p) \/ Delete(p)
      PROVE  faults' \in {faults, faults + 1}
  BY <1>3, <1>7 DEF Disabling, Create, CreateVersion, Delete
<1>8. ASSUME NEW p \in Pods,
             \/ WriteRevoked(p) \/ WriteError(p) \/ AddFinalizer(p) \/ WritePreliminary(p)
             \/ WriteSynced(p) \/ WriteAlreadySynced(p) \/ RemoveFinalizer(p)
      PROVE  faults' \in {faults, faults + 1}
  BY <1>2, <1>8 DEF WriteRevoked, WriteError, AddFinalizer, WritePreliminary, WriteSynced,
                    WriteAlreadySynced, RemoveFinalizer, PatchStatus
<1>9. CASE EditSpec \/ DeleteCR \/ EditSource \/ EditNamespace \/ UNCHANGED vars
  BY <1>9 DEF EditSpec, DeleteCR, EditSource, EditNamespace, vars
<1> QED
  BY <1>4, <1>5, <1>6, <1>7, <1>8, <1>9 DEF Next, Reconcile

\* The step pushes nothing.
NoPush == ~\E q \in Pods : Pushed(q)

\* Nothing that was pushed is about a resourceVersion or a generation to come.
LEMMA Fresh ==
  ASSUME SyncInv, [Next]_vars, NEW p \in Pods, Past(p), NoPush,
         Held(source.rv, live.gen)'
  PROVE  Held(source.rv, live.gen) /\ source' = source /\ live'.gen = live.gen
<1>1. /\ TypeOK /\ ProjectKnown /\ Ordered(p)
      /\ source.rv \in Nat /\ live.gen \in Nat /\ feed[p] \in Seq(CR) /\ feed[p] # <<>>
  BY DEF SyncInv, SafeInv, IInv, TypeOK, UsersOK, KubeOK, CR
<1>2. /\ source' = source \/ source'.rv = source.rv + 1
      /\ live'.gen \in live.gen..(live.gen + 1)
  BY <1>1, StepConsented, StepPrecedes
<1> PICK rv, gen : rv = source'.rv /\ gen = live'.gen
  OBVIOUS
<1>3. Held(rv, gen)'
  BY DEF Held
<1>4. Held(rv, gen)
  BY <1>1, <1>3, StepHeld DEF NoPush
<1>5. rv \in Nat /\ gen \in Nat
  BY <1>1, <1>2
<1>6. Consented(rv) /\ \A i \in DOMAIN feed[p] : gen <= feed[p][i].gen
  BY <1>4, <1>5 DEF Past
<1>7. gen <= live.gen
  <2>1. Len(feed[p]) \in DOMAIN feed[p] /\ feed[p][Len(feed[p])] = live
    BY <1>1, EmptySeq, LenProperties DEF Ordered
  <2> QED
    BY <1>6, <2>1
<1>8. rv <= source.rv
  BY <1>1, <1>5, <1>6 DEF Consented
<1>9. source' = source /\ gen = live.gen
  BY <1>1, <1>2, <1>5, <1>7, <1>8
<1> QED
  BY <1>4, <1>9

LEMMA FreshNow ==
  ASSUME SyncInv, [Next]_vars, NEW p \in Pods, Past(p), NoPush, HeldNow'
  PROVE  HeldNow /\ source' = source /\ live'.gen = live.gen
<1>1. Held(source.rv, live.gen)' /\ ~live'.deleting
  BY DEF HeldNow
<1>2. Held(source.rv, live.gen) /\ source' = source /\ live'.gen = live.gen
  BY <1>1, Fresh
<1>3. TypeOK /\ SnapshotsBehind /\ StepKnows
  BY DEF SyncInv, SafeInv, IInv
<1>4. Forward
  BY <1>3, StepForward
<1> QED
  BY <1>1, <1>2, <1>4 DEF Forward, HeldNow

\* What a reconcile tells stays true, and goes along with it.
LEMMA TellsKept ==
  ASSUME SyncInv, [Next]_vars, NEW p \in Pods, Past(p), NoPush,
         current'[p] => current[p],
         NEW step, NEW j \in Job, Consented(j.rv), Tells(p, step, j)
  PROVE  Tells(p, step, j)'
<1>1. TypeOK /\ ProjectKnown /\ source.rv \in Nat /\ j.rv \in Nat
  BY DEF SyncInv, SafeInv, IInv, TypeOK, UsersOK, Job
<1>2. j.rv = source'.rv => source' = source
  BY <1>1, StepConsented DEF Consented
<1>3. Held(j.rv, j.cr.gen)' => Held(j.rv, j.cr.gen)
  BY <1>1, StepHeld DEF NoPush
<1>4. HeldNow' => HeldNow /\ source' = source /\ live'.gen = live.gen
  BY FreshNow
<1> QED
  BY <1>2, <1>3, <1>4 DEF Tells

LEMMA GotoTells ==
  ASSUME SyncInv, [Next]_vars, NEW p \in Pods, Past(p), NoPush,
         current'[p] => current[p],
         NEW step, NEW j \in Job, Consented(j.rv), Tells(p, step, j), Goto(p, step, j)
  PROVE  JobTells(p)'
<1>1. pc'[p] = step /\ job'[p] = j
  BY DEF Goto, SyncInv, SafeInv, IInv, TypeOK, PodsOK
<1>2. Tells(p, step, j)'
  BY TellsKept
<1> QED
  BY <1>1, <1>2 DEF JobTells

\* The steps that tell nothing.
Mute == {"idle", "checks", "addFinalizer", "deleteCreds", "delete", "removeFinalizer",
         "writeSynced"}

LEMMA MuteTells ==
  ASSUME NEW p \in Pods, pc'[p] \in Mute
  PROVE  JobTells(p)'
<1>1. PICK step : step = pc'[p]
  OBVIOUS
<1>2. PICK j : j = job'[p]
  OBVIOUS
<1>3. Tells(p, step, j)'
  BY <1>1 DEF Tells, Mute, Pushing, Losing
<1> QED
  BY <1>1, <1>2, <1>3 DEF JobTells

LEMMA FailTells ==
  ASSUME SyncInv, [Next]_vars, NEW p \in Pods, Past(p), NoPush,
         \/ \E again : Return(p, again) \/ Fail(p, again)
         \/ ~HeldNow /\ \E j, err, msg : FailWithStatus(p, j, err, msg)
  PROVE  JobTells(p)'
<1>1. PodsOK
  BY DEF SyncInv, SafeInv, IInv, TypeOK
<1>2. CASE \E again : Return(p, again) \/ Fail(p, again)
  <2>1. pc'[p] = "idle"
    BY <1>1, <1>2 DEF Return, Fail, PodsOK
  <2> QED
    BY <2>1, MuteTells DEF Mute
<1>3. ASSUME ~HeldNow, NEW j, NEW err, NEW msg, FailWithStatus(p, j, err, msg)
      PROVE  JobTells(p)'
  <2>1. pc'[p] = "writeError"
    BY <1>1, <1>3 DEF FailWithStatus, Goto, PodsOK
  <2>2. ~HeldNow'
    BY <1>3, FreshNow
  <2>3. PICK k : k = job'[p]
    OBVIOUS
  <2>4. Tells(p, "writeError", k)'
    BY <2>2 DEF Tells, Pushing
  <2> QED
    BY <2>1, <2>3, <2>4 DEF JobTells
<1> QED
  BY <1>2, <1>3

\* While a version of the current value is held, the reconcile sees what was pushed.
LEMMA Alike ==
  ASSUME SyncInv, NEW p \in Pods, OnceAt(p), pc[p] # "idle", HeldNow
  PROVE  /\ job[p].cr.gen = live.gen /\ OptInGranted(source) /\ ~job[p].cr.deleting
         /\ job[p].cr.spec.regionOk /\ ~job[p].cr.spec.reserved
         /\ job[p].cr.spec.key \in source.keys /\ job[p].cr.spec.key # NoKey
<1>1. /\ source.rv \in Nat /\ live.gen \in Nat /\ Faithful(job[p].cr)
      /\ source.keys \subseteq Keys /\ Behind(job[p].cr, live) /\ job[p].cr.gen \in Nat
  BY DEF SyncInv, SafeInv, IInv, TypeOK, UsersOK, KubeOK, PodsOK, Job, CR,
         SnapshotsFaithful, Around, SnapshotsBehind
<1>2. Consented(source.rv) /\ live.gen <= job[p].cr.gen
  BY <1>1 DEF OnceAt, Past, HeldNow
<1>3. job[p].cr.gen = live.gen
  BY <1>1, <1>2 DEF Faithful
<1>4. OptInGranted(source)
  BY <1>1, <1>2 DEF Consented
<1>5. job[p].cr.spec = live.spec
  BY <1>3 DEF OnceAt, SameSpec
<1> QED
  BY <1>1, <1>3, <1>4, <1>5, SecretAssumption DEF OnceAt, HeldIsPushable, HeldNow, Behind

\* What is about to be pushed is not held yet.
LEMMA StaleLive ==
  ASSUME SyncInv, NEW p \in Pods, Tracked(p), pc[p] # "writeSynced", Stale(live)
  PROVE  ~HeldNow
<1>1. source.rv # None
  BY DEF SyncInv, Counted, None
<1> QED
  BY <1>1 DEF Tracked, Stale, HeldNow

LEMMA PushingLive ==
  ASSUME SyncInv, NEW p \in Pods, OnceAt(p), pc[p] \in Pushing, pc[p] # "guard"
  PROVE  ~HeldNow
<1>1. Stale(live)
  BY DEF SyncInv, JobKnows, KnowsAt, Pushing, Committed, Around
<1> QED
  BY <1>1, StaleLive DEF OnceAt, Pushing

-----------------------------------------------------------------------------
(* Every step of a reconcile keeps what it tells. *)

\* The decision: what it is about to push is not held, what it gives up is not either.
LEMMA ActTells ==
  ASSUME SyncInv, [Next]_vars, NEW p \in Pods, OnceAt(p), NoPush,
         UNCHANGED <<kube, source, scw>>, pc[p] # "idle", pc[p] # "writeSynced",
         NEW j \in Job, j.cr = job[p].cr, NEW keyPresent, Act(p, j, keyPresent),
         \/ j.rv = None /\ (j.cr.deleting \/ ~HeldNow)
         \/ /\ j.rv = source.rv /\ Consented(source.rv)
            /\ keyPresent = (j.cr.spec.key \in source.keys)
            /\ j.cr.spec.regionOk /\ ~j.cr.spec.reserved
  PROVE  JobTells(p)'
<1> DEFINE d == DecideNextAction(j, keyPresent)
<1>1. /\ PodsOK /\ Past(p) /\ source.rv # None /\ Faithful(j.cr) /\ CurrentIsLive(p)
      /\ JobKnows(p)
  BY DEF SyncInv, SafeInv, IInv, TypeOK, OnceAt, Counted, None, SnapshotsFaithful, Around
<1>2. current'[p] = current[p]
  BY DEF kube
<1>3. HeldNow => /\ j.cr.gen = live.gen /\ ~j.cr.deleting
                 /\ j.cr.spec.key \in source.keys /\ j.cr.spec.key # NoKey
  BY Alike
<1>4. d \in {"ErrorSourceNotConfigured", "ErrorKsSecretNotFound", "ErrorKsKeyNotFound"}
          => ~HeldNow
  BY <1>1, <1>3 DEF DecideNextAction
<1>5. d \in {"CreateAndSyncSecret", "PushNewVersion"}
          => /\ j.rv = source.rv /\ Consented(j.rv) /\ ~j.cr.deleting /\ Stale(j.cr)
             /\ j.cr.spec.key \in source.keys
             /\ j.cr.spec.regionOk /\ ~j.cr.spec.reserved
  BY <1>1 DEF DecideNextAction, NeedsPush, Faithful, Stale
<1>6. d = "AlreadySynced"
          => /\ j.rv = source.rv /\ Consented(j.rv)
             /\ j.cr.status.rv = source.rv /\ j.cr.status.ogen = j.cr.gen
  BY <1>1 DEF DecideNextAction, NeedsPush, Faithful
<1> HIDE DEF d
<1>7. CASE \/ \E again : Return(p, again)
           \/ \E err : Fail(p, err)
           \/ ~HeldNow /\ \E err, msg : FailWithStatus(p, j, err, msg)
  BY <1>1, <1>7, FailTells
<1>8. CASE \/ Goto(p, "addFinalizer", j) \/ Goto(p, "deleteCreds", j)
           \/ Goto(p, "removeFinalizer", j)
  <2>1. pc'[p] \in {"addFinalizer", "deleteCreds", "removeFinalizer"}
    BY <1>1, <1>8 DEF Goto, PodsOK
  <2> QED
    BY <2>1, MuteTells DEF Mute
<1>9. CASE d \in {"CreateAndSyncSecret", "PushNewVersion"} /\ Goto(p, "guard", j)
  <2>1. ASSUME current[p] PROVE ~Held(j.rv, j.cr.gen)
    <3>1. j.cr = live
      BY <1>1, <2>1 DEF CurrentIsLive
    <3>2. ~HeldNow
      BY <1>5, <1>9, <3>1, StaleLive DEF OnceAt
    <3> QED
      BY <1>5, <1>9, <3>1, <3>2 DEF HeldNow
  <2>2. Tells(p, "guard", j)
    BY <1>5, <1>9, <2>1 DEF Tells, Losing
  <2> QED
    BY <1>1, <1>2, <1>5, <1>9, <2>2, GotoTells
<1>10. CASE d = "AlreadySynced" /\ Goto(p, "writeAlreadySynced", j)
  <2>1. Tells(p, "writeAlreadySynced", j)
    BY <1>3, <1>6, <1>10 DEF Tells, Losing, Pushing
  <2> QED
    BY <1>1, <1>2, <1>6, <1>10, <2>1, GotoTells
<1> QED
  BY <1>4, <1>7, <1>8, <1>9, <1>10 DEF Act, d

LEMMA DecidingTells ==
  ASSUME SyncInv, [Next]_vars, NEW p \in Pods, OnceAt(p), NoPush, Writable, faults' = faults,
         Checks(p) \/ ReadRole(p) \/ ReadSource(p)
  PROVE  JobTells(p)'
<1> DEFINE j == job[p]
<1>1. /\ PodsOK /\ j \in Job /\ source.rv \in Nat /\ source.optIn \in BOOLEAN
      /\ j.rv = None /\ KnowsOf(j) /\ Past(p) /\ JobTells(p) /\ ns \in Namespaces
      /\ pc[p] \in {"checks", "role", "source"}
  <2>1. TypeOK /\ StepKnows /\ JobKnows(p)
    BY DEF SyncInv, SafeInv, IInv
  <2>2. pc[p] \in {"checks", "role", "source"}
    BY DEF Checks, ReadRole, ReadSource
  <2>3. PodsOK /\ j \in Job /\ source.rv \in Nat /\ source.optIn \in BOOLEAN /\ ns \in Namespaces
    BY <2>1 DEF TypeOK, UsersOK, PodsOK
  <2> QED
    BY <2>1, <2>2, <2>3 DEF StepKnows, Told, JobKnows, OnceAt
<1>2. UNCHANGED <<kube, source, scw>> /\ current'[p] = current[p] /\ ~Fault
  <2>1. UNCHANGED <<kube, source, scw>>
    BY DEF Checks, ReadRole, ReadSource, users
  <2>2. faults \in Nat
    BY DEF SyncInv, SafeInv, IInv, TypeOK, FaultsOK
  <2> QED
    BY <2>1, <2>2 DEF kube, Fault
<1>3. ns.role \in WriteRoles /\ ns.rbac
  BY <1>1 DEF Writable
<1>4. HeldNow => /\ OptInGranted(source) /\ ~j.cr.deleting /\ j.cr.spec.regionOk
                 /\ ~j.cr.spec.reserved /\ j.cr.spec.key # NoKey
  BY <1>1, Alike
<1>5. Consented(j.rv)
  BY <1>1 DEF KnowsOf
<1> HIDE DEF j
<1>6. CASE Checks(p)
  <2>1. \/ ~HeldNow /\ \E err, msg : FailWithStatus(p, j, err, msg)
        \/ (j.cr.deleting \/ ~HeldNow) /\ Act(p, j, FALSE)
        \/ /\ j.cr.spec.regionOk /\ ~j.cr.spec.reserved
           /\ Goto(p, "role", j) \/ Goto(p, "source", j)
    BY <1>4, <1>6 DEF Checks, j
  <2>2. CASE Act(p, j, FALSE) /\ (j.cr.deleting \/ ~HeldNow)
    BY <1>1, <1>2, <2>2, ActTells DEF j
  <2>3. CASE /\ j.cr.spec.regionOk /\ ~j.cr.spec.reserved
             /\ Goto(p, "role", j) \/ Goto(p, "source", j)
    <3>1. Tells(p, "role", j) /\ Tells(p, "source", j)
      BY <2>3 DEF Tells, Pushing, Losing
    <3> QED
      BY <1>1, <1>2, <1>5, <2>3, <3>1, GotoTells
  <2> QED
    BY <1>1, <2>1, <2>2, <2>3, FailTells
<1>7. CASE ReadRole(p)
  <2>1. \/ Goto(p, "source", j)
        \/ j.cr.spec.key = NoKey /\ Act(p, j, FALSE)
    BY <1>2, <1>3, <1>7 DEF ReadRole, WriteRoles, j
  <2>2. Tells(p, "source", j)
    BY <1>1, <1>7 DEF ReadRole, JobTells, Tells, Pushing, Losing, j
  <2>3. CASE Goto(p, "source", j)
    BY <1>1, <1>2, <1>5, <2>2, <2>3, GotoTells
  <2>4. CASE j.cr.spec.key = NoKey /\ Act(p, j, FALSE)
    BY <1>1, <1>2, <1>4, <2>4, ActTells DEF j
  <2> QED
    BY <2>1, <2>3, <2>4
<1>8. CASE ReadSource(p)
  <2> DEFINE k == [j EXCEPT !.rv = source.rv, !.granted = source.optIn]
  <2>1. k \in Job /\ k.cr = job[p].cr /\ k.rv = source.rv
    BY <1>1 DEF Job, j
  <2>2. j.cr.spec.regionOk /\ ~j.cr.spec.reserved
    BY <1>1, <1>8 DEF ReadSource, JobTells, Tells, j
  <2>3. \/ ~HeldNow /\ Act(p, j, FALSE)
        \/ ~HeldNow /\ OptInMissing(p, j)
        \/ OptInGranted(source) /\ Act(p, k, j.cr.spec.key \in source.keys)
    BY <1>2, <1>3, <1>4, <1>8 DEF ReadSource, OptInGranted, j
  <2> HIDE DEF k
  <2>4. CASE ~HeldNow /\ Act(p, j, FALSE)
    BY <1>1, <1>2, <2>4, ActTells DEF j
  <2>5. CASE ~HeldNow /\ OptInMissing(p, j)
    <3>1. \/ \E err : Fail(p, err)
          \/ \E err, msg : FailWithStatus(p, j, err, msg)
          \/ Goto(p, "revokeCreds", j) \/ Goto(p, "writeRevoked", j)
      BY <2>5 DEF OptInMissing
    <3>2. Tells(p, "revokeCreds", j) /\ Tells(p, "writeRevoked", j)
      BY <2>5 DEF Tells, Pushing, Losing
    <3> QED
      BY <1>1, <1>2, <1>5, <2>5, <3>1, <3>2, GotoTells, FailTells
  <2>6. CASE OptInGranted(source) /\ Act(p, k, j.cr.spec.key \in source.keys)
    <3>1. Consented(source.rv)
      BY <2>6 DEF Consented
    <3> QED
      BY <1>1, <1>2, <2>1, <2>2, <2>6, <3>1, ActTells DEF j
  <2> QED
    BY <2>3, <2>4, <2>5, <2>6
<1> QED
  BY <1>6, <1>7, <1>8

LEMMA NoFaultHere ==
  ASSUME SyncInv, faults' = faults
  PROVE  ~Fault
<1>1. faults \in Nat
  BY DEF SyncInv, SafeInv, IInv, TypeOK, FaultsOK
<1> QED
  BY <1>1 DEF Fault

LEMMA PreparingTells ==
  ASSUME SyncInv, [Next]_vars, NEW p \in Pods, OnceAt(p), NoPush, faults' = faults,
         \/ RevokeCreds(p) \/ Guard(p) \/ ReadProject(p) \/ ReadCreds(p) \/ Find(p)
         \/ DeleteCreds(p)
  PROVE  JobTells(p)'
<1> DEFINE j == job[p]
<1>1. PodsOK /\ j \in Job /\ Consented(j.rv) /\ Past(p) /\ Tells(p, pc[p], j)
  <2>1. TypeOK /\ JobKnows(p)
    BY DEF SyncInv, SafeInv, IInv
  <2> QED
    BY <2>1 DEF TypeOK, PodsOK, JobKnows, KnowsOf, OnceAt, JobTells
<1>2. UNCHANGED kube /\ current'[p] = current[p] /\ ~Fault
  <2>1. UNCHANGED kube
    BY DEF RevokeCreds, Guard, ReadProject, ReadCreds, Find, DeleteCreds
  <2> QED
    BY <2>1, NoFaultHere DEF kube
<1>3. pc[p] \in Pushing /\ pc[p] # "guard" => ~HeldNow
  BY PushingLive
<1> HIDE DEF j
<1>4. CASE RevokeCreds(p)
  <2>1. Goto(p, "disable", j) \/ \E err : Fail(p, err)
    BY <1>4 DEF RevokeCreds, j
  <2>2. Tells(p, "disable", j)
    BY <1>1, <1>4 DEF RevokeCreds, Tells, Pushing, Losing
  <2> QED
    BY <1>1, <1>2, <2>1, <2>2, FailTells, GotoTells
<1>5. CASE Guard(p)
  <2>1. \/ \E again : Return(p, again) \/ Fail(p, again)
        \/ current[p] /\ (Goto(p, "project", j) \/ Goto(p, "creds", j))
    BY <1>5 DEF Guard, CachedCrIsCurrent, j
  <2>2. current[p] => Tells(p, "project", j) /\ Tells(p, "creds", j)
    BY <1>1, <1>5 DEF Guard, Tells, Pushing, Losing
  <2> QED
    BY <1>1, <1>2, <2>1, <2>2, FailTells, GotoTells
<1>6. CASE ReadProject(p)
  <2>1. pc[p] = "project"
    BY <1>6 DEF ReadProject
  <2>2. \/ \E err, msg : FailWithStatus(p, j, err, msg)
        \/ \E project \in Projects : Goto(p, "creds", [j EXCEPT !.project = project])
    <3>1. ns.project \in Projects \cup {NoProject}
      BY SecretAssumption DEF SyncInv, SafeInv, IInv, TypeOK, UsersOK, Namespace0
    <3> QED
      BY <1>6, <3>1 DEF ReadProject, j
  <2>3. ASSUME NEW project \in Projects, Goto(p, "creds", [j EXCEPT !.project = project])
        PROVE  JobTells(p)'
    <3>1. PICK k : k = [j EXCEPT !.project = project]
      OBVIOUS
    <3>2. k \in Job /\ k.cr = j.cr /\ k.rv = j.rv
      BY <1>1, <3>1 DEF Job
    <3>3. Tells(p, "creds", k)
      BY <1>1, <2>1, <3>2 DEF Tells, Pushing, Losing
    <3> QED
      BY <1>1, <1>2, <2>3, <3>1, <3>2, <3>3, GotoTells
  <2> QED
    BY <1>1, <1>3, <2>1, <2>2, <2>3, FailTells DEF Pushing
<1>7. CASE ReadCreds(p)
  <2>1. pc[p] = "creds"
    BY <1>7 DEF ReadCreds
  <2>2. \/ \E err, msg : FailWithStatus(p, j, err, msg)
        \/ Goto(p, "find", j) \/ Goto(p, "version", j)
    BY <1>7 DEF ReadCreds, j
  <2>3. Tells(p, "find", j) /\ Tells(p, "version", j)
    BY <1>1, <2>1 DEF Tells, Pushing, Losing
  <2> QED
    BY <1>1, <1>2, <1>3, <2>1, <2>2, <2>3, FailTells, GotoTells DEF Pushing
<1>8. CASE Find(p)
  <2>1. pc[p] = "find"
    BY <1>8 DEF Find
  <2>2. \/ Goto(p, "create", j)
        \/ \E s \in DOMAIN scw : Goto(p, "writePreliminary", [j EXCEPT !.sid = s])
    BY <1>2, <1>8 DEF Find, SecretsToAdopt, FoundByTags, j
  <2>3. ASSUME NEW s \in DOMAIN scw, Goto(p, "writePreliminary", [j EXCEPT !.sid = s])
        PROVE  JobTells(p)'
    <3>1. PICK k : k = [j EXCEPT !.sid = s]
      OBVIOUS
    <3>2. s \in Nat
      BY LenProperties DEF SyncInv, SafeInv, IInv, TypeOK
    <3>3. k \in Job /\ k.cr = j.cr /\ k.rv = j.rv
      BY <1>1, <3>1, <3>2 DEF Job
    <3>4. Tells(p, "writePreliminary", k)
      BY <1>1, <2>1, <3>3 DEF Tells, Pushing, Losing
    <3> QED
      BY <1>1, <1>2, <2>3, <3>1, <3>3, <3>4, GotoTells
  <2>4. Tells(p, "create", j)
    BY <1>1, <2>1 DEF Tells, Pushing, Losing
  <2> QED
    BY <1>1, <1>2, <2>2, <2>3, <2>4, GotoTells
<1>9. CASE DeleteCreds(p)
  <2>1. \/ \E err : Fail(p, err)
        \/ Goto(p, "delete", j) \/ Goto(p, "removeFinalizer", j)
    BY <1>9 DEF DeleteCreds, j
  <2>2. Tells(p, "delete", j) /\ Tells(p, "removeFinalizer", j)
    BY DEF Tells, Pushing, Losing
  <2> QED
    BY <1>1, <1>2, <2>1, <2>2, FailTells, GotoTells
<1> QED
  BY <1>4, <1>5, <1>6, <1>7, <1>8, <1>9

\* No step makes a snapshot current again.
LEMMA StepCurrent ==
  ASSUME TypeOK, [Next]_vars, NEW p \in Pods, current'[p]
  PROVE  current[p] \/ Start(p) \/ pc'[p] = "idle"
  BY StepFeedMoved DEF FeedMoved

LEMMA WritingTells ==
  ASSUME SyncInv, [Next]_vars, NEW p \in Pods, OnceAt(p), NoPush,
         \/ WriteRevoked(p) \/ WriteError(p) \/ AddFinalizer(p) \/ WritePreliminary(p)
         \/ WriteSynced(p) \/ WriteAlreadySynced(p) \/ RemoveFinalizer(p)
  PROVE  JobTells(p)'
<1>1. PodsOK /\ job[p] \in Job /\ Consented(job[p].rv) /\ Past(p) /\ Tells(p, pc[p], job[p])
      /\ TypeOK
  <2>1. TypeOK /\ JobKnows(p)
    BY DEF SyncInv, SafeInv, IInv
  <2> QED
    BY <2>1 DEF TypeOK, PodsOK, JobKnows, KnowsOf, OnceAt, JobTells
<1>2. \/ \E again : Return(p, again) \/ Fail(p, again)
      \/ WritePreliminary(p) /\ Goto(p, "version", job[p])
  BY DEF WriteRevoked, WriteError, AddFinalizer, WritePreliminary, WriteSynced,
         WriteAlreadySynced, RemoveFinalizer
<1>3. CASE WritePreliminary(p) /\ Goto(p, "version", job[p])
  <2>1. pc[p] = "writePreliminary" /\ pc'[p] = "version"
    BY <1>1, <1>3 DEF WritePreliminary, Goto, PodsOK
  <2>2. current'[p] => current[p]
    <3>1. ~Start(p)
      BY <2>1 DEF Start
    <3> QED
      BY <1>1, <2>1, <3>1, StepCurrent
  <2>3. Tells(p, "version", job[p])
    BY <1>1, <2>1 DEF Tells, Pushing, Losing
  <2>4. PICK j : j = job[p]
    OBVIOUS
  <2> QED
    BY <1>1, <1>3, <2>2, <2>3, <2>4, GotoTells
<1> QED
  BY <1>1, <1>2, <1>3, FailTells

LEMMA ScalewayTells ==
  ASSUME SyncInv, [Next]_vars, NEW p \in Pods, OnceAt(p), NoPush, faults' = faults,
         Disabling(p) \/ Create(p) \/ CreateVersion(p) \/ Delete(p)
  PROVE  JobTells(p)'
<1> DEFINE j == job[p]
<1>1. PodsOK /\ j \in Job /\ Consented(j.rv) /\ Past(p) /\ Tells(p, pc[p], j)
  <2>1. TypeOK /\ JobKnows(p)
    BY DEF SyncInv, SafeInv, IInv
  <2> QED
    BY <2>1 DEF TypeOK, PodsOK, JobKnows, KnowsOf, OnceAt, JobTells
<1>2. UNCHANGED kube /\ current'[p] = current[p] /\ ~Fault
  <2>1. UNCHANGED kube
    BY DEF Disabling, Create, CreateVersion, Delete
  <2> QED
    BY <2>1, NoFaultHere DEF kube
<1>3. pc[p] \in Pushing /\ pc[p] # "guard" => ~HeldNow
  BY PushingLive
<1> HIDE DEF j
<1>4. CASE Disabling(p)
  <2>1. Goto(p, "writeRevoked", j) \/ \E err : Fail(p, err)
    BY <1>4 DEF Disabling, j
  <2>2. Tells(p, "writeRevoked", j)
    BY <1>1, <1>4 DEF Disabling, Tells, Pushing, Losing
  <2> QED
    BY <1>1, <1>2, <2>1, <2>2, FailTells, GotoTells
<1>5. CASE Create(p)
  <2>1. pc[p] = "create" /\ Goto(p, "writePreliminary", [j EXCEPT !.sid = Len(scw) + 1])
    BY <1>2, <1>5 DEF Create, ScalewayCall, j
  <2>2. PICK k : k = [j EXCEPT !.sid = Len(scw) + 1]
    OBVIOUS
  <2>3. Len(scw) + 1 \in Nat
    BY LenProperties DEF SyncInv, SafeInv, IInv, TypeOK
  <2>4. k \in Job /\ k.cr = j.cr /\ k.rv = j.rv
    BY <1>1, <2>2, <2>3 DEF Job
  <2>5. Tells(p, "writePreliminary", k)
    BY <1>1, <2>1, <2>4 DEF Tells, Pushing, Losing
  <2> QED
    BY <1>1, <1>2, <2>1, <2>2, <2>4, <2>5, GotoTells
<1>6. CASE CreateVersion(p)
  <2>1. pc[p] = "version"
    BY <1>6 DEF CreateVersion
  <2>2. \/ \E err, msg : FailWithStatus(p, j, err, msg)
        \/ pc'[p] = "writeSynced"
    BY <1>1, <1>6 DEF CreateVersion, Goto, PodsOK, j
  <2> QED
    BY <1>1, <1>3, <2>1, <2>2, FailTells, MuteTells DEF Pushing, Mute
<1>7. CASE Delete(p)
  <2>1. Goto(p, "removeFinalizer", j) \/ \E err : Fail(p, err)
    BY <1>7 DEF Delete, j
  <2>2. Tells(p, "removeFinalizer", j)
    BY DEF Tells, Pushing, Losing
  <2> QED
    BY <1>1, <1>2, <2>1, <2>2, FailTells, GotoTells
<1> QED
  BY <1>4, <1>5, <1>6, <1>7

\* A push, when it succeeds.
LEMMA PushMoves ==
  ASSUME SyncInv, NEW p \in Pods, Pushed(p), faults' = faults
  PROVE  /\ pc[p] = "version" /\ pc'[p] = "writeSynced"
         /\ job'[p].cr = job[p].cr /\ job'[p].rv = job[p].rv
         /\ UNCHANGED <<kube, source>>
<1>1. PodsOK /\ job[p] \in Job /\ ~Fault
  BY NoFaultHere DEF SyncInv, SafeInv, IInv, TypeOK, PodsOK
<1>2. CreateVersion(p) /\ IsAlive(scw, job[p].sid)
  BY DEF Pushed
<1> PICK n : n = Len(scw[job[p].sid].versions) + 1
  OBVIOUS
<1>3. /\ pc[p] = "version" /\ UNCHANGED <<kube, source>>
      /\ Goto(p, "writeSynced", [job[p] EXCEPT !.ver = n])
  BY <1>1, <1>2 DEF CreateVersion, ScalewayCall, users
<1>4. [job[p] EXCEPT !.ver = n].cr = job[p].cr /\ [job[p] EXCEPT !.ver = n].rv = job[p].rv
  BY <1>1 DEF Job
<1> QED
  BY <1>1, <1>3, <1>4 DEF Goto, PodsOK

LEMMA NextTells ==
  ASSUME OnePod, Writable, SyncInv, [Next]_vars, NEW p \in Pods, OnceAt(p), faults' = faults
  PROVE  JobTells(p)'
<1>1. TypeOK /\ PodsOK /\ Past(p) /\ job[p] \in Job /\ Consented(job[p].rv)
  <2>1. TypeOK /\ JobKnows(p)
    BY DEF SyncInv, SafeInv, IInv
  <2> QED
    BY <2>1 DEF TypeOK, PodsOK, JobKnows, KnowsOf, OnceAt
<1>2. CASE ~NoPush
  <2>1. Pushed(p)
    BY <1>2 DEF NoPush, OnePod
  <2> QED
    BY <2>1, PushMoves, MuteTells DEF Mute
<1>3. CASE NoPush
  <2>1. CASE Checks(p) \/ ReadRole(p) \/ ReadSource(p)
    BY <1>3, <2>1, DecidingTells
  <2>2. CASE \/ RevokeCreds(p) \/ Guard(p) \/ ReadProject(p) \/ ReadCreds(p) \/ Find(p)
             \/ DeleteCreds(p)
    BY <1>3, <2>2, PreparingTells
  <2>3. CASE \/ WriteRevoked(p) \/ WriteError(p) \/ AddFinalizer(p) \/ WritePreliminary(p)
             \/ WriteSynced(p) \/ WriteAlreadySynced(p) \/ RemoveFinalizer(p)
    BY <1>3, <2>3, WritingTells
  <2>4. CASE Disabling(p) \/ Create(p) \/ CreateVersion(p) \/ Delete(p)
    BY <1>3, <2>4, ScalewayTells
  <2>5. CASE Start(p)
    <3>1. pc'[p] = "checks"
      BY <1>1, <2>5 DEF Start, PodsOK
    <3> QED
      BY <3>1, MuteTells DEF Mute
  <2>6. CASE Crash(p)
    BY <2>6, NoFaultHere DEF Crash
  <2>7. CASE \/ Deliver(p) \/ EditSpec \/ DeleteCR \/ EditSource \/ EditNamespace
             \/ UNCHANGED vars
    <3>1. UNCHANGED <<pc, job>>
      BY <2>7 DEF Deliver, EditSpec, DeleteCR, EditSource, EditNamespace, vars
    <3>2. CASE pc[p] = "idle"
      BY <3>1, <3>2, MuteTells DEF Mute
    <3>3. CASE pc[p] # "idle"
      <4>1. current'[p] => current[p]
        BY <1>1, <3>1, <3>3, StepCurrent DEF Start
      <4>2. PICK step : step = pc[p]
        OBVIOUS
      <4>3. PICK j : j = job[p]
        OBVIOUS
      <4>4. Tells(p, step, j)
        BY <4>2, <4>3 DEF OnceAt, JobTells
      <4>5. Tells(p, step, j)'
        BY <1>1, <1>3, <4>1, <4>3, <4>4, TellsKept
      <4>6. pc'[p] = step /\ job'[p] = j
        BY <3>1, <4>2, <4>3
      <4> QED
        BY <4>5, <4>6 DEF JobTells
    <3> QED
      BY <3>2, <3>3
  <2> QED
    BY <2>1, <2>2, <2>3, <2>4, <2>5, <2>6, <2>7 DEF Next, Reconcile, OnePod
<1> QED
  BY <1>2, <1>3

-----------------------------------------------------------------------------
(* What the versions tell is kept. *)

LEMMA NextPast ==
  ASSUME OnePod, SyncInv, SyncInv', [Next]_vars, NEW p \in Pods, OnceAt(p), faults' = faults
  PROVE  Past(p)'
<1> SUFFICES ASSUME NEW rv \in Nat, NEW gen \in Nat, Held(rv, gen)'
             PROVE  /\ Consented(rv)'
                    /\ \A i \in DOMAIN feed'[p] : gen <= feed'[p][i].gen
                    /\ pc'[p] # "idle" => gen <= job'[p].cr.gen
  BY DEF Past
<1>1. /\ TypeOK /\ TypeOK' /\ ProjectKnown /\ Ordered(p) /\ live.gen \in Nat /\ live'.gen \in Nat
      /\ feed[p] \in Seq(CR) /\ feed[p] # <<>> /\ PodsOK
  BY DEF SyncInv, SafeInv, IInv, TypeOK, KubeOK, CR
<1>2. /\ Consented(rv)
      /\ \A i \in DOMAIN feed[p] : gen <= feed[p][i].gen
      /\ pc[p] # "idle" => gen <= job[p].cr.gen
  <2>1. CASE Held(rv, gen)
    BY <2>1 DEF OnceAt, Past
  <2>2. CASE Pushed(p) /\ rv = job[p].rv /\ gen = job[p].cr.gen
    <3>1. Consented(rv)
      BY <2>2 DEF SyncInv, JobKnows, KnowsOf
    <3> QED
      BY <1>1, <2>2, <3>1 DEF Ordered, Precedes
  <2> QED
    BY <1>1, <2>1, <2>2, StepHeld DEF OnePod
<1>3. Consented(rv)'
  BY <1>1, <1>2, StepConsented
<1>4. gen <= live'.gen
  <2>1. Len(feed[p]) \in DOMAIN feed[p] /\ feed[p][Len(feed[p])] = live
    BY <1>1, EmptySeq, LenProperties DEF Ordered
  <2>2. gen <= live.gen /\ live.gen <= live'.gen
    BY <1>1, <1>2, <2>1, StepPrecedes
  <2> QED
    BY <1>1, <2>2
<1>5. \A i \in DOMAIN feed'[p] : gen <= feed'[p][i].gen
  BY <1>1, <1>2, <1>4, StepFeed DEF FeedOf
<1>6. pc'[p] # "idle" => gen <= job'[p].cr.gen
  <2>1. CASE Start(p)
    <3>1. job'[p].cr = Head(feed[p])
      BY <1>1, <2>1 DEF Start, JobFor, PodsOK
    <3>2. Head(feed[p]) = feed[p][1] /\ 1 \in DOMAIN feed[p]
      BY <1>1, HeadTailProperties, LenProperties, EmptySeq
    <3> QED
      BY <1>2, <3>1, <3>2
  <2> QED
    BY <1>1, <1>2, <2>1, StepBusy DEF Busy
<1> QED
  BY <1>3, <1>5, <1>6

LEMMA NextSameSpec ==
  ASSUME SyncInv, SyncInv', [Next]_vars, NEW p \in Pods, SameSpec(p)
  PROVE  SameSpec(p)'
<1>1. /\ TypeOK /\ TypeOK' /\ live.gen \in Nat /\ feed[p] \in Seq(CR) /\ feed[p] # <<>>
      /\ PodsOK
  BY DEF SyncInv, SafeInv, IInv, TypeOK, KubeOK, CR
<1>2. /\ live'.gen \in live.gen..(live.gen + 1)
      /\ live'.gen = live.gen => live'.spec = live.spec
  BY <1>1, StepPrecedes, StepSpec
<1>3. ASSUME NEW c \in Around(p, job[p].cr), c.gen = live.gen => c.spec = live.spec,
             c.gen = live'.gen
      PROVE  c.spec = live'.spec
  <2>1. c.gen \in 1..live.gen
    BY DEF SyncInv, SnapshotsFaithful, Faithful
  <2>2. c.gen = live.gen /\ live'.gen = live.gen
    BY <1>1, <1>2, <1>3, <2>1
  <2> QED
    BY <1>2, <1>3, <2>2
<1>4. ASSUME NEW i \in DOMAIN feed[p], feed[p][i].gen = live'.gen
      PROVE  feed[p][i].spec = live'.spec
  <2>1. feed[p][i] \in Around(p, job[p].cr)
    BY DEF Around
  <2> QED
    BY <1>3, <1>4, <2>1 DEF SameSpec
<1>5. \A i \in DOMAIN feed'[p] :
          feed'[p][i].gen = live'.gen => feed'[p][i].spec = live'.spec
  BY <1>1, <1>4, StepFeed DEF FeedOf
<1>6. pc'[p] # "idle" /\ job'[p].cr.gen = live'.gen => job'[p].cr.spec = live'.spec
  <2>1. CASE Start(p)
    <3>1. job'[p].cr = Head(feed[p])
      BY <1>1, <2>1 DEF Start, JobFor, PodsOK
    <3>2. Head(feed[p]) = feed[p][1] /\ 1 \in DOMAIN feed[p]
      BY <1>1, HeadTailProperties, LenProperties, EmptySeq
    <3> QED
      BY <1>4, <3>1, <3>2
  <2>2. CASE pc[p] # "idle" /\ job'[p].cr = job[p].cr
    BY <1>3, <2>2 DEF SameSpec, Around
  <2> QED
    BY <1>1, <2>1, <2>2, StepBusy DEF Busy
<1> QED
  BY <1>5, <1>6 DEF SameSpec

LEMMA NextHeldIsPushable ==
  ASSUME OnePod, SyncInv, [Next]_vars, NEW p \in Pods, OnceAt(p), faults' = faults
  PROVE  HeldIsPushable'
<1> SUFFICES ASSUME Held(source.rv, live.gen)'
             PROVE  /\ live'.spec.regionOk /\ ~live'.spec.reserved
                    /\ live'.spec.key \in source'.keys
  BY DEF HeldIsPushable
<1>1. TypeOK /\ ProjectKnown /\ live.gen \in Nat
  BY DEF SyncInv, SafeInv, IInv, TypeOK, KubeOK, CR
<1>2. CASE Held(source.rv, live.gen) /\ source' = source /\ live'.gen = live.gen
  <2>1. live'.spec = live.spec
    BY <1>1, <1>2, StepSpec
  <2> QED
    BY <1>2, <2>1 DEF OnceAt, HeldIsPushable
<1>3. CASE ~NoPush
  <2>1. Pushed(p)
    BY <1>3 DEF NoPush, OnePod
  <2>2. pc[p] = "version" /\ source' = source /\ live' = live
    BY <2>1, PushMoves DEF kube
  <2>3. PICK rv : rv = source.rv
    OBVIOUS
  <2>4. PICK gen : gen = live.gen
    OBVIOUS
  <2>5. Held(rv, gen)'
    BY <2>2, <2>3, <2>4 DEF Held
  <2>6. CASE rv = job[p].rv /\ gen = job[p].cr.gen
    <3>1. job[p].cr.spec = live.spec
      BY <2>2, <2>4, <2>6 DEF OnceAt, SameSpec
    <3>2. Tells(p, "version", job[p])
      BY <2>2 DEF OnceAt, JobTells
    <3> QED
      BY <2>2, <2>3, <2>6, <3>1, <3>2 DEF Tells, Pushing
  <2> QED
    BY <1>1, <1>2, <2>2, <2>3, <2>4, <2>5, <2>6, StepHeld DEF OnePod
<1>4. CASE NoPush
  <2>1. Held(source.rv, live.gen) /\ source' = source /\ live'.gen = live.gen
    BY <1>4, Fresh DEF OnceAt
  <2> QED
    BY <1>2, <2>1
<1> QED
  BY <1>3, <1>4

\* Only a write ends the step that records the push.
LEMMA SyncedWaits ==
  ASSUME OnePod, SyncInv, [Next]_vars, NEW p \in Pods, faults' = faults,
         pc[p] = "writeSynced"
  PROVE  \/ pc'[p] = pc[p] /\ job'[p] = job[p]
         \/ live.exists /\ live' = [live EXCEPT !.status = SyncedStatus(job[p])]
<1>1. ~Fault
  BY NoFaultHere
<1>2. CASE WriteSynced(p)
  <2>1. live.exists
    BY DEF SyncInv, JobKnows, KnowsAt, Committed
  <2> QED
    BY <1>1, <1>2, <2>1 DEF WriteSynced, PatchStatus, Patch, Store
<1>3. CASE ~Reconcile(p)
  <2>1. \/ Deliver(p) \/ EditSpec \/ DeleteCR \/ EditSource \/ EditNamespace
        \/ UNCHANGED vars
    BY <1>1, <1>3 DEF Next, OnePod, Crash
  <2> QED
    BY <2>1 DEF Deliver, EditSpec, DeleteCR, EditSource, EditNamespace, vars
<1>4. Reconcile(p) => WriteSynced(p)
  BY DEF Reconcile, Start, Checks, ReadRole, ReadSource, RevokeCreds, Disabling, WriteRevoked,
         WriteError, AddFinalizer, Guard, ReadProject, ReadCreds, Find, Create,
         WritePreliminary, CreateVersion, WriteAlreadySynced, DeleteCreds, Delete,
         RemoveFinalizer
<1> QED
  BY <1>2, <1>3, <1>4

LEMMA NextTracked ==
  ASSUME OnePod, SyncInv, [Next]_vars, NEW p \in Pods, OnceAt(p), faults' = faults
  PROVE  Tracked(p)'
<1> SUFFICES ASSUME HeldNow'
             PROVE  \/ live'.status.rv = source'.rv /\ live'.status.ogen = live'.gen
                    \/ /\ pc'[p] = "writeSynced" /\ job'[p].rv = source'.rv
                       /\ job'[p].cr.gen = live'.gen
  BY DEF Tracked
<1>1. /\ TypeOK /\ ProjectKnown /\ live.gen \in Nat /\ live \in CR /\ Tracked(p)
      /\ source.rv # None /\ JobKnows(p) /\ job[p] \in Job
  <2>1. TypeOK /\ ProjectKnown /\ source.rv # None /\ JobKnows(p) /\ Tracked(p)
    BY DEF SyncInv, SafeInv, IInv, OnceAt, Counted, None
  <2>2. live \in CR /\ job[p] \in Job
    BY <2>1 DEF TypeOK, KubeOK, PodsOK
  <2> QED
    BY <2>1, <2>2 DEF CR
<1>2. CASE ~NoPush
  <2>1. Pushed(p)
    BY <1>2 DEF NoPush, OnePod
  <2>2. /\ pc[p] = "version" /\ source' = source /\ live' = live
        /\ pc'[p] = "writeSynced" /\ job'[p].cr = job[p].cr /\ job'[p].rv = job[p].rv
    BY <2>1, PushMoves DEF kube
  <2>3. PICK rv : rv = source.rv
    OBVIOUS
  <2>4. PICK gen : gen = live.gen
    OBVIOUS
  <2>5. Held(rv, gen)' /\ ~live.deleting
    BY <2>2, <2>3, <2>4 DEF HeldNow, Held
  <2>6. ~Held(rv, gen)
    <3>1. ~HeldNow
      BY <2>2, PushingLive DEF Pushing
    <3> QED
      BY <2>3, <2>4, <2>5, <3>1 DEF HeldNow
  <2> QED
    BY <1>1, <2>2, <2>3, <2>4, <2>5, <2>6, StepHeld DEF OnePod
<1>3. CASE NoPush
  <2>1. HeldNow /\ source' = source /\ live'.gen = live.gen
    BY <1>3, FreshNow DEF OnceAt
  <2>2. CASE pc[p] = "writeSynced"
    <3>1. Stale(live) /\ ~live.deleting
      BY <1>1, <2>1, <2>2 DEF JobKnows, KnowsAt, Committed, Around, HeldNow
    <3>2. job[p].rv = source.rv /\ job[p].cr.gen = live.gen
      BY <1>1, <2>1, <3>1 DEF Tracked, Stale
    <3>3. CASE live.exists /\ live' = [live EXCEPT !.status = SyncedStatus(job[p])]
      <4>1. live'.status = SyncedStatus(job[p])
        BY <1>1, <3>3 DEF CR
      <4>2. SyncedStatus(job[p]).rv = job[p].rv /\ SyncedStatus(job[p]).ogen = job[p].cr.gen
        BY DEF SyncedStatus
      <4> QED
        BY <2>1, <3>2, <4>1, <4>2
    <3> QED
      BY <2>1, <2>2, <3>2, <3>3, SyncedWaits
  <2>3. CASE pc[p] # "writeSynced"
    <3>1. live.status.rv = source.rv /\ live.status.ogen = live.gen
      BY <1>1, <2>1, <2>3 DEF Tracked
    <3>2. CASE live'.status = live.status
      BY <2>1, <3>1, <3>2
    <3>3. ASSUME NEW st \in Status, StatusWritten(p, st)
          PROVE  live'.status.rv = source'.rv /\ live'.status.ogen = live'.gen
      <4>1. pc[p] \notin Losing /\ pc[p] # "writePreliminary"
        BY <2>1, PushingLive DEF OnceAt, JobTells, Tells, Pushing
      <4>2. WriteAlreadySynced(p) /\ st = AlreadySyncedStatus(job[p])
        BY <2>3, <3>3, <4>1
        DEF StatusWritten, WriteRevoked, WriteError, WritePreliminary, WriteSynced, Losing
      <4>3. job[p].cr.status.rv = source.rv /\ job[p].cr.status.ogen = live.gen
        BY <2>1, <4>2 DEF WriteAlreadySynced, OnceAt, JobTells, Tells
      <4>4. live.gen # None
        BY DEF SyncInv, SnapshotsFaithful, Around, Faithful, None
      <4>5. st.rv = source.rv /\ st.ogen = live.gen
        <5>1. job[p].cr.status \in Status
          BY <1>1 DEF Job, CR
        <5> QED
          BY <4>2, <4>3, <4>4, <5>1 DEF AlreadySyncedStatus, Status
      <4>6. live'.status = st
        BY <1>1, <3>3, WrittenState
      <4> QED
        BY <2>1, <4>5, <4>6
    <3>4. \/ live'.status = live.status
          \/ \E st \in Status : StatusWritten(p, st)
      BY <1>1, StepLive DEF Marked, Reissued, OnePod
    <3> QED
      BY <3>2, <3>3, <3>4
  <2> QED
    BY <2>2, <2>3
<1> QED
  BY <1>2, <1>3

LEMMA NextDupFree ==
  ASSUME SyncInv, [Next]_vars, \A p \in Pods : OnceAt(p), DupFree, faults' = faults
  PROVE  DupFree'
<1>1. TypeOK /\ ProjectKnown /\ scw \in Seq(Secret) /\ PodsOK
  BY DEF SyncInv, SafeInv, IInv, TypeOK
<1> SUFFICES ASSUME NEW s \in DOMAIN scw', NEW q \in DOMAIN scw'[s].versions,
                    NEW r \in DOMAIN scw'[s].versions,
                    scw'[s].versions[q].payload = scw'[s].versions[r].payload
             PROVE  q = r
  BY DEF DupFree
<1>2. CASE Inherited(s, q) /\ Inherited(s, r)
  BY <1>2 DEF Inherited, DupFree
<1>3. ASSUME NEW p \in Pods, Pushed(p) PROVE q = r
  <2> DEFINE New(k) == /\ s = job[p].sid /\ k = Len(scw[s].versions) + 1
                       /\ scw'[s].versions[k].payload = PayloadOf(job[p])
  <2>1. \A k \in DOMAIN scw'[s].versions : Inherited(s, k) \/ New(k)
    BY <1>1, <1>3, PushedInherits
  <2>2. ASSUME NEW k, Inherited(s, k), scw'[s].versions[k].payload = PayloadOf(job[p])
        PROVE  FALSE
    <3>1. /\ s \in DOMAIN scw /\ k \in DOMAIN scw[s].versions
          /\ scw[s].versions[k].payload.rv = job[p].rv
          /\ scw[s].versions[k].payload.gen = job[p].cr.gen
      BY <2>2 DEF Inherited, PayloadOf
    <3>2. pc[p] = "version" /\ Tells(p, pc[p], job[p])
      BY <1>3, PushMoves DEF OnceAt, JobTells
    <3>3. Held(job[p].rv, job[p].cr.gen)
      BY <3>1 DEF Held
    <3> QED
      BY <3>2, <3>3 DEF Tells, Pushing
  <2> QED
    BY <1>2, <2>1, <2>2
<1> QED
  BY <1>1, <1>2, <1>3, StepSecrets, ReducedInherits, CreatedInherits

LEMMA InitOnce == Init => OnceInv
<1> SUFFICES ASSUME Init PROVE OnceInv
  OBVIOUS
<1>1. DOMAIN scw = {}
  BY EmptySeq, LenProperties DEF Init
<1>2. ASSUME NEW p \in Pods PROVE OnceAt(p)
  <2>1. pc[p] = "idle" /\ feed[p] = <<live>>
    BY DEF Init
  <2>2. DOMAIN feed[p] = 1..1 /\ feed[p][1] = live
    BY <2>1
  <2>3. Past(p) /\ HeldIsPushable /\ Tracked(p)
    BY <1>1 DEF Past, HeldIsPushable, Tracked, HeldNow, Held
  <2>4. SameSpec(p)
    BY <2>1, <2>2 DEF SameSpec
  <2>5. JobTells(p)
    BY <2>1 DEF JobTells, Tells, Pushing, Losing
  <2> QED
    BY <2>3, <2>4, <2>5 DEF OnceAt
<1> QED
  BY <1>1, <1>2 DEF OnceInv, DupFree

LEMMA NextOnce ==
  ASSUME OnePod, Writable, SyncInv, SyncInv', OnceInv, [Next]_vars
  PROVE  OnceInv'
<1> SUFFICES ASSUME faults' = 0 PROVE DupFree' /\ \A p \in Pods : OnceAt(p)'
  BY DEF OnceInv
<1>1. faults = 0
  BY StepFaults DEF SyncInv, SafeInv, IInv, TypeOK, FaultsOK
<1>2. faults' = faults /\ DupFree /\ \A p \in Pods : OnceAt(p)
  BY <1>1 DEF OnceInv
<1>3. DupFree'
  BY <1>2, NextDupFree
<1>4. ASSUME NEW p \in Pods PROVE OnceAt(p)'
  <2>1. OnceAt(p) /\ SameSpec(p)
    BY <1>2 DEF OnceAt
  <2>2. Past(p)'
    BY <1>2, <2>1, NextPast
  <2>3. SameSpec(p)'
    BY <1>2, <2>1, NextSameSpec
  <2>4. HeldIsPushable'
    BY <1>2, <2>1, NextHeldIsPushable
  <2>5. JobTells(p)'
    BY <1>2, <2>1, NextTells
  <2>6. Tracked(p)'
    BY <1>2, <2>1, NextTracked
  <2> QED
    BY <2>2, <2>3, <2>4, <2>5, <2>6 DEF OnceAt
<1> QED
  BY <1>3, <1>4

\* With one pod whose right to write is never taken away, a value is pushed once as
\* long as nothing fails, however late the cache is: is_cached_cr_current keeps a
\* reconcile that has not seen the last status from pushing again, and no error status
\* makes the CR forget that the current value was pushed.
THEOREM ValuesPushedOnce == OnePod /\ Writable => (Spec => []NoDuplicateVersion)
<1> SUFFICES ASSUME OnePod, Writable PROVE Spec => []NoDuplicateVersion
  OBVIOUS
<1>1. SyncInv /\ SyncInv' /\ OnceInv /\ [Next]_vars => OnceInv'
  BY NextOnce
<1>2. OnceInv => NoDuplicateVersion
  BY DEF OnceInv, DupFree, NoDuplicateVersion
<1>3. Spec => []SyncInv
  BY SyncInvariance
<1> QED
  BY <1>1, <1>2, <1>3, InitOnce, PTL DEF Spec

=============================================================================
