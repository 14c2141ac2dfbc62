----------------------- MODULE ScalewaySecret_safety -----------------------
(***************************************************************************)
(* The safety of ScalewaySecret across the steps of a reconcile: what each *)
(* step knows of the CR, of the consent and of Secret Manager, and what    *)
(* follows for the finalizer, the values pushed, the revocations and the   *)
(* number of secrets.                                                      *)
(***************************************************************************)
EXTENDS ScalewaySecret_proofs

-----------------------------------------------------------------------------
(* What the calls do to the secrets. *)

\* The versions of `after` that were there in `before`, whose payload stays and
\* of which none is enabled anew.
Kept(before, after, r) ==
    /\ r \in DOMAIN before /\ after[r].payload = before[r].payload
    /\ after[r].enabled => before[r].enabled

LEMMA DisableEffect ==
  ASSUME NEW versions \in Seq(Version), NEW r \in DOMAIN versions
  PROVE  /\ DOMAIN Disable(versions, r) = DOMAIN versions
         /\ \A q \in DOMAIN versions : Kept(versions, Disable(versions, r), q)
         /\ ~Disable(versions, r)[r].enabled
<1> DEFINE e == [versions[r] EXCEPT !.enabled = FALSE]
<1>1. r \in 1..Len(versions) /\ DOMAIN versions = 1..Len(versions)
  BY LenProperties
<1>2. versions[r] \in Version
  BY <1>1, ElementOfSeq
<1>3. e \in Version /\ ~e.enabled /\ e.payload = versions[r].payload
  BY <1>2 DEF Version
<1>4. Disable(versions, r) = [versions EXCEPT ![r] = e]
  BY DEF Disable
<1> HIDE DEF e
<1>5. /\ Disable(versions, r) \in Seq(Version)
      /\ Len(Disable(versions, r)) = Len(versions)
      /\ \A q \in 1..Len(versions) :
            Disable(versions, r)[q] = IF q = r THEN e ELSE versions[q]
  BY <1>1, <1>3, <1>4, ExceptSeq
<1>6. DOMAIN Disable(versions, r) = 1..Len(versions)
  BY <1>5, LenProperties
<1> QED
  BY <1>1, <1>3, <1>5, <1>6 DEF Kept

LEMMA AddEffect ==
  ASSUME NEW versions \in Seq(Version), NEW payload \in Payload
  PROVE  LET new == AddVersion(versions, payload) IN
         /\ DOMAIN versions \subseteq DOMAIN new
         /\ \A r \in DOMAIN versions : Kept(versions, new, r)
         /\ \A r \in DOMAIN new \ DOMAIN versions : new[r].payload = payload
<1> DEFINE old == IF versions = <<>> THEN versions ELSE Disable(versions, Len(versions))
           v == [payload |-> payload, enabled |-> TRUE]
<1>1. v \in Version /\ v.payload = payload
  BY DEF Version
<1>2. versions # <<>> => Len(versions) \in DOMAIN versions
  BY EmptySeq, LenProperties
<1>3. /\ old \in Seq(Version) /\ DOMAIN old = DOMAIN versions
      /\ \A q \in DOMAIN versions : Kept(versions, old, q)
  <2>1. CASE versions = <<>>
    BY <2>1 DEF Kept
  <2>2. CASE versions # <<>>
    BY <2>2, <1>2, DisableHistory, DisableEffect
  <2> QED
    BY <2>1, <2>2
<1>4. AddVersion(versions, payload) = Append(old, v)
  BY DEF AddVersion
<1> HIDE DEF old, v
<1>5. /\ Append(old, v) \in Seq(Version)
      /\ Len(Append(old, v)) = Len(old) + 1
      /\ Append(old, v)[Len(old) + 1] = v
      /\ \A i \in 1..Len(old) : Append(old, v)[i] = old[i]
  BY <1>1, <1>3, AppendProperties
<1>6. /\ DOMAIN Append(old, v) = 1..(Len(old) + 1)
      /\ DOMAIN old = 1..Len(old) /\ Len(old) \in Nat
  BY <1>3, <1>5, LenProperties
<1>7. \A r \in DOMAIN Append(old, v) \ DOMAIN old : r = Len(old) + 1
  BY <1>6
<1>8. \A r \in DOMAIN versions : Kept(versions, Append(old, v), r)
  BY <1>3, <1>5, <1>6 DEF Kept
<1>9. DOMAIN versions \subseteq DOMAIN Append(old, v)
  BY <1>3, <1>6
<1>10. \A r \in DOMAIN Append(old, v) \ DOMAIN versions : Append(old, v)[r].payload = payload
  BY <1>1, <1>3, <1>5, <1>7
<1> QED
  BY <1>4, <1>8, <1>9, <1>10

LEMMA NewSecretEffect ==
  ASSUME NEW sc \in Seq(Secret), NEW project \in Projects
  PROVE  LET new == NewSecret(sc, project) IN
         /\ DOMAIN sc \subseteq DOMAIN new
         /\ \A s \in DOMAIN sc : new[s] = sc[s]
         /\ \A s \in DOMAIN new \ DOMAIN sc : s = Len(sc) + 1 /\ new[s].versions = <<>>
<1> DEFINE e == [project |-> project, alive |-> TRUE, versions |-> <<>>]
           new == NewSecret(sc, project)
<1>1. e \in Secret /\ e.versions = <<>>
  BY EmptySeq DEF Secret
<1>2. new = Append(sc, e)
  BY DEF NewSecret
<1> HIDE DEF e, new
<1>3. /\ new \in Seq(Secret) /\ Len(new) = Len(sc) + 1 /\ new[Len(sc) + 1] = e
      /\ \A i \in 1..Len(sc) : new[i] = sc[i]
  BY <1>1, <1>2, AppendProperties
<1>4. /\ DOMAIN new = 1..(Len(sc) + 1) /\ DOMAIN sc = 1..Len(sc)
      /\ Len(sc) \in Nat
  BY <1>3, LenProperties
<1>5. \A s \in DOMAIN new \ DOMAIN sc : s = Len(sc) + 1
  BY <1>4
<1>6. DOMAIN sc \subseteq DOMAIN new
  BY <1>4
<1>7. /\ \A s \in DOMAIN sc : new[s] = sc[s]
      /\ \A s \in DOMAIN new \ DOMAIN sc : s = Len(sc) + 1 /\ new[s].versions = <<>>
  BY <1>1, <1>3, <1>4, <1>5
<1> QED
  BY <1>6, <1>7 DEF new

\* Replacing the versions of one secret.
LEMMA VersionsEffect ==
  ASSUME NEW sc \in Seq(Secret), NEW s \in DOMAIN sc, NEW versions \in Seq(Version)
  PROVE  LET new == [sc EXCEPT ![s].versions = versions] IN
         /\ DOMAIN new = DOMAIN sc /\ new[s].versions = versions
         /\ \A t \in DOMAIN sc : new[t].alive = sc[t].alive
         /\ \A t \in DOMAIN sc \ {s} : new[t] = sc[t]
<1> DEFINE e == [sc[s] EXCEPT !.versions = versions]
<1>1. s \in 1..Len(sc) /\ DOMAIN sc = 1..Len(sc)
  BY LenProperties
<1>2. sc[s] \in Secret
  BY <1>1, ElementOfSeq
<1>3. e \in Secret /\ e.versions = versions /\ e.alive = sc[s].alive
  BY <1>2 DEF Secret
<1>4. [sc EXCEPT ![s].versions = versions] = [sc EXCEPT ![s] = e]
  OBVIOUS
<1> HIDE DEF e
<1>5. /\ [sc EXCEPT ![s] = e] \in Seq(Secret) /\ Len([sc EXCEPT ![s] = e]) = Len(sc)
      /\ \A t \in 1..Len(sc) : [sc EXCEPT ![s] = e][t] = IF t = s THEN e ELSE sc[t]
  BY <1>1, <1>3, ExceptSeq
<1>6. DOMAIN [sc EXCEPT ![s] = e] = DOMAIN sc
  BY <1>1, <1>5, LenProperties
<1> QED
  BY <1>1, <1>3, <1>4, <1>5, <1>6

LEMMA DeleteEffect ==
  ASSUME NEW sc \in Seq(Secret), NEW s, IsAlive(sc, s)
  PROVE  LET new == DeleteSecret(sc, s) IN
         /\ DOMAIN new = DOMAIN sc /\ ~new[s].alive /\ new[s].versions = <<>>
         /\ \A t \in DOMAIN sc \ {s} : new[t] = sc[t]
<1> DEFINE e == [sc[s] EXCEPT !.alive = FALSE, !.versions = <<>>]
<1>1. s \in 1..Len(sc) /\ DOMAIN sc = 1..Len(sc)
  BY LenProperties DEF IsAlive
<1>2. sc[s] \in Secret
  BY <1>1, ElementOfSeq
<1>3. e \in Secret /\ e.versions = <<>> /\ ~e.alive
  BY <1>2, EmptySeq DEF Secret
<1>4. DeleteSecret(sc, s) = [sc EXCEPT ![s] = e]
  BY <1>1 DEF DeleteSecret
<1> HIDE DEF e
<1>5. /\ [sc EXCEPT ![s] = e] \in Seq(Secret) /\ Len([sc EXCEPT ![s] = e]) = Len(sc)
      /\ \A t \in 1..Len(sc) : [sc EXCEPT ![s] = e][t] = IF t = s THEN e ELSE sc[t]
  BY <1>1, <1>3, ExceptSeq
<1>6. DOMAIN [sc EXCEPT ![s] = e] = DOMAIN sc
  BY <1>1, <1>5, LenProperties
<1> QED
  BY <1>1, <1>3, <1>4, <1>5, <1>6

-----------------------------------------------------------------------------
(* How a step changes the secrets. *)

Reduced ==
    \/ scw' = scw
    \/ \E s, r : HasVersion(scw, s, r) /\ scw' = DisableVersion(scw, s, r)
    \/ \E s : IsAlive(scw, s) /\ scw' = DeleteSecret(scw, s)
Created(p) ==
    /\ Create(p) /\ job[p].project \in Projects
    /\ scw' = NewSecret(scw, job[p].project)
Pushed(p) ==
    /\ CreateVersion(p) /\ IsAlive(scw, job[p].sid)
    /\ scw' = NewVersion(scw, job[p].sid, PayloadOf(job[p]))

LEMMA StepSecrets ==
  ASSUME ProjectKnown, [Next]_vars
  PROVE  Reduced \/ \E p \in Pods : Created(p) \/ Pushed(p)
<1>1. ASSUME NEW p \in Pods, Disabling(p) PROVE Reduced
  BY <1>1, ScalewayCallOutcome DEF Disabling, Reduced
<1>2. ASSUME NEW p \in Pods, Delete(p) PROVE Reduced
  <2> DEFINE s == job[p].cr.status.sid
  <2>1. scw' = scw \/ scw' = IF IsAlive(scw, s) THEN DeleteSecret(scw, s) ELSE scw
    BY <1>2 DEF Delete, ScalewayCall
  <2> HIDE DEF s
  <2> QED
    BY <2>1 DEF Reduced
<1>3. ASSUME NEW p \in Pods, Create(p) PROVE Reduced \/ Created(p)
  <2>1. job[p].project \in Projects
    BY <1>3 DEF Create, ProjectKnown, ProjectNeeded
  <2>2. scw' = scw \/ scw' = NewSecret(scw, job[p].project)
    BY <1>3 DEF Create, ScalewayCall
  <2> QED
    BY <1>3, <2>1, <2>2 DEF Reduced, Created
<1>4. ASSUME NEW p \in Pods, CreateVersion(p) PROVE Reduced \/ Pushed(p)
  <2>1. \/ scw' = scw
        \/ /\ IsAlive(scw, job[p].sid)
           /\ scw' = NewVersion(scw, job[p].sid, PayloadOf(job[p]))
    BY <1>4 DEF CreateVersion, ScalewayCall
  <2> QED
    BY <1>4, <2>1 DEF Reduced, Pushed
<1>5. ASSUME NEW p \in Pods,
             \/ Start(p) \/ Checks(p) \/ ReadRole(p) \/ ReadSource(p) \/ RevokeCreds(p)
             \/ WriteRevoked(p) \/ WriteError(p) \/ AddFinalizer(p) \/ Guard(p)
             \/ ReadProject(p) \/ ReadCreds(p) \/ Find(p) \/ WritePreliminary(p)
             \/ WriteSynced(p) \/ WriteAlreadySynced(p) \/ DeleteCreds(p)
             \/ RemoveFinalizer(p) \/ Deliver(p) \/ Crash(p)
      PROVE  Reduced
  <2>1. scw' = scw
    BY <1>5 DEF Start, Checks, ReadRole, ReadSource, RevokeCreds, WriteRevoked, WriteError,
                AddFinalizer, Guard, ReadProject, ReadCreds, Find, WritePreliminary,
                WriteSynced, WriteAlreadySynced, DeleteCreds, RemoveFinalizer, Deliver, Crash
  <2> QED
    BY <2>1 DEF Reduced
<1>6. CASE EditSpec \/ DeleteCR \/ EditSource \/ EditNamespace \/ UNCHANGED vars
  <2>1. scw' = scw
    BY <1>6 DEF EditSpec, DeleteCR, EditSource, EditNamespace, vars
  <2> QED
    BY <2>1 DEF Reduced
<1> QED
  BY <1>1, <1>2, <1>3, <1>4, <1>5, <1>6 DEF Next, Reconcile

\* Secrets do not come back to life, nor versions vanish from a living one, nor
\* become enabled again.
Aged ==
    /\ DOMAIN scw \subseteq DOMAIN scw'
    /\ \A s \in DOMAIN scw : scw'[s].alive =>
           /\ scw[s].alive
           /\ \A r \in DOMAIN scw[s].versions :
                  /\ r \in DOMAIN scw'[s].versions
                  /\ scw'[s].versions[r].enabled => scw[s].versions[r].enabled

\* Only a creation adds a secret.
NoneAppears == \A s \in DOMAIN scw' : scw'[s].alive => IsAlive(scw, s)

LEMMA ReducedEffect ==
  ASSUME scw \in Seq(Secret), Reduced
  PROVE  /\ Aged /\ NoneAppears
         /\ OnlyGrantedPayload => OnlyGrantedPayload'
<1>1. CASE scw' = scw
  BY <1>1 DEF Aged, NoneAppears, IsAlive, OnlyGrantedPayload
<1>2. ASSUME NEW s, NEW r, HasVersion(scw, s, r), scw' = DisableVersion(scw, s, r)
      PROVE  /\ Aged /\ NoneAppears
             /\ OnlyGrantedPayload => OnlyGrantedPayload'
  <2> DEFINE versions == Disable(scw[s].versions, r)
  <2>1. s \in DOMAIN scw /\ r \in DOMAIN scw[s].versions /\ scw[s].versions \in Seq(Version)
    BY <1>2, VersionsOfSecret DEF HasVersion, IsAlive
  <2>2. versions \in Seq(Version) /\ scw' = [scw EXCEPT ![s].versions = versions]
    BY <1>2, <2>1, DisableHistory DEF DisableVersion
  <2>3. /\ DOMAIN versions = DOMAIN scw[s].versions
        /\ \A q \in DOMAIN scw[s].versions : Kept(scw[s].versions, versions, q)
    BY <2>1, DisableEffect
  <2> HIDE DEF versions
  <2>4. /\ DOMAIN scw' = DOMAIN scw /\ scw'[s].versions = versions
        /\ \A t \in DOMAIN scw : scw'[t].alive = scw[t].alive
        /\ \A t \in DOMAIN scw \ {s} : scw'[t] = scw[t]
    BY <2>1, <2>2, VersionsEffect
  <2>5. Aged /\ NoneAppears
    BY <2>3, <2>4 DEF Aged, NoneAppears, IsAlive, Kept
  <2>6. OnlyGrantedPayload => OnlyGrantedPayload'
    BY <2>1, <2>3, <2>4 DEF OnlyGrantedPayload, Kept
  <2> QED
    BY <2>5, <2>6
<1>3. ASSUME NEW s, IsAlive(scw, s), scw' = DeleteSecret(scw, s)
      PROVE  /\ Aged /\ NoneAppears
             /\ OnlyGrantedPayload => OnlyGrantedPayload'
  <2>1. /\ DOMAIN scw' = DOMAIN scw /\ ~scw'[s].alive /\ scw'[s].versions = <<>>
        /\ \A t \in DOMAIN scw \ {s} : scw'[t] = scw[t]
    BY <1>3, DeleteEffect
  <2>2. Aged /\ NoneAppears
    BY <2>1 DEF Aged, NoneAppears, IsAlive
  <2>3. DOMAIN <<>> = {}
    BY EmptySeq, LenProperties
  <2>4. OnlyGrantedPayload => OnlyGrantedPayload'
    BY <2>1, <2>3 DEF OnlyGrantedPayload
  <2> QED
    BY <2>2, <2>4
<1> QED
  BY <1>1, <1>2, <1>3 DEF Reduced

LEMMA PushedEffect ==
  ASSUME scw \in Seq(Secret), PodsOK, NEW p \in Pods, Pushed(p)
  PROVE  /\ Aged /\ NoneAppears
         /\ OnlyGrantedPayload /\ job[p].granted => OnlyGrantedPayload'
<1> DEFINE s == job[p].sid
           versions == AddVersion(scw[s].versions, PayloadOf(job[p]))
<1>1. s \in DOMAIN scw /\ scw[s].versions \in Seq(Version)
  BY VersionsOfSecret DEF Pushed, IsAlive
<1>2. PayloadOf(job[p]) \in Payload /\ PayloadOf(job[p]).granted = job[p].granted
  BY PayloadType DEF PodsOK, PayloadOf
<1>3. versions \in Seq(Version) /\ scw' = [scw EXCEPT ![s].versions = versions]
  BY <1>1, <1>2, AddHistory DEF Pushed, NewVersion
<1>4. /\ DOMAIN scw[s].versions \subseteq DOMAIN versions
      /\ \A r \in DOMAIN scw[s].versions : Kept(scw[s].versions, versions, r)
      /\ \A r \in DOMAIN versions \ DOMAIN scw[s].versions :
             versions[r].payload = PayloadOf(job[p])
  BY <1>1, <1>2, AddEffect
<1> HIDE DEF versions, s
<1>5. /\ DOMAIN scw' = DOMAIN scw /\ scw'[s].versions = versions
      /\ \A t \in DOMAIN scw : scw'[t].alive = scw[t].alive
      /\ \A t \in DOMAIN scw \ {s} : scw'[t] = scw[t]
  BY <1>1, <1>3, VersionsEffect
<1>6. Aged /\ NoneAppears
  BY <1>4, <1>5 DEF Aged, NoneAppears, IsAlive, Kept
<1>7. OnlyGrantedPayload /\ job[p].granted => OnlyGrantedPayload'
  BY <1>1, <1>2, <1>4, <1>5 DEF OnlyGrantedPayload, Kept
<1> QED
  BY <1>6, <1>7

LEMMA CreatedEffect ==
  ASSUME scw \in Seq(Secret), NEW p \in Pods, Created(p)
  PROVE  /\ Aged
         /\ OnlyGrantedPayload => OnlyGrantedPayload'
<1>1. /\ DOMAIN scw \subseteq DOMAIN scw'
      /\ \A s \in DOMAIN scw : scw'[s] = scw[s]
      /\ \A s \in DOMAIN scw' \ DOMAIN scw : s = Len(scw) + 1 /\ scw'[s].versions = <<>>
  BY NewSecretEffect DEF Created
<1>2. DOMAIN <<>> = {}
  BY EmptySeq, LenProperties
<1> QED
  BY <1>1, <1>2 DEF Aged, OnlyGrantedPayload

LEMMA StepAged ==
  ASSUME TypeOK, ProjectKnown, [Next]_vars
  PROVE  Aged /\ (NoneAppears \/ \E p \in Pods : Created(p))
  BY StepSecrets, ReducedEffect, PushedEffect, CreatedEffect DEF TypeOK

-----------------------------------------------------------------------------
(* What a step of a reconcile takes for granted. *)

Pushing ==
    {"guard", "project", "creds", "find", "create", "writePreliminary", "version"}
Leaving == {"deleteCreds", "delete", "removeFinalizer"}

\* The source is read once, after the checks; a push follows from a finalizer and a
\* consent that were seen, the end of the CR from its deletion.
Told(step, j) ==
    /\ step \in {"checks", "role", "source"} => j.rv = None
    /\ step \in Pushing => j.cr.finalizer /\ j.granted
    /\ step \in Leaving => j.cr.deleting
StepKnows == \A p \in Pods : Told(pc[p], job[p])

LEMMA GotoTold ==
  ASSUME PodsOK, StepKnows, NEW p \in Pods, NEW step, NEW j, Goto(p, step, j), Told(step, j)
  PROVE  StepKnows'
<1>1. pc'[p] = step /\ job'[p] = j
  BY DEF PodsOK, Goto
<1>2. \A q \in Pods \ {p} : pc'[q] = pc[q] /\ job'[q] = job[q]
  BY DEF PodsOK, Goto
<1> QED
  BY <1>1, <1>2 DEF StepKnows, Told

LEMMA ReturnTold ==
  ASSUME PodsOK, StepKnows, NEW p \in Pods, NEW again, Return(p, again)
  PROVE  StepKnows'
<1>1. pc'[p] = "idle"
  BY DEF PodsOK, Return
<1>2. \A q \in Pods \ {p} : pc'[q] = pc[q] /\ job'[q] = job[q]
  BY DEF PodsOK, Return
<1> QED
  BY <1>1, <1>2 DEF StepKnows, Told, Pushing, Leaving

LEMMA FailTold ==
  ASSUME PodsOK, StepKnows, NEW p \in Pods,
         \/ \E err : Fail(p, err)
         \/ \E j, err, msg : FailWithStatus(p, j, err, msg)
  PROVE  StepKnows'
<1>1. ASSUME NEW err, Fail(p, err) PROVE StepKnows'
  BY <1>1, ReturnTold DEF Fail
<1>2. ASSUME NEW j, NEW err, NEW msg, FailWithStatus(p, j, err, msg) PROVE StepKnows'
  BY <1>2, GotoTold DEF FailWithStatus, Told, Pushing, Leaving
<1> QED
  BY <1>1, <1>2

LEMMA ActTold ==
  ASSUME PodsOK, StepKnows, NEW p \in Pods, NEW j, NEW keyPresent, Act(p, j, keyPresent),
         j.rv # None => j.granted
  PROVE  StepKnows'
<1> DEFINE d == DecideNextAction(j, keyPresent)
<1>1. d \in {"DeleteSecret", "RemoveFinalizer"} => j.cr.deleting
  BY DEF DecideNextAction
<1>2. d \in {"CreateAndSyncSecret", "PushNewVersion"} => j.cr.finalizer /\ j.rv # None
  BY DEF DecideNextAction
<1> HIDE DEF d
<1>3. CASE (\E err : Fail(p, err)) \/ (\E err, msg : FailWithStatus(p, j, err, msg))
  BY <1>3, FailTold
<1>4. CASE Return(p, TRUE)
  BY <1>4, ReturnTold
<1>5. CASE Goto(p, "addFinalizer", j) \/ Goto(p, "writeAlreadySynced", j)
  BY <1>5, GotoTold DEF Told, Pushing, Leaving
<1>6. CASE d \in {"CreateAndSyncSecret", "PushNewVersion"} /\ Goto(p, "guard", j)
  BY <1>2, <1>6, GotoTold DEF Told, Pushing, Leaving
<1>7. CASE /\ d \in {"DeleteSecret", "RemoveFinalizer"}
           /\ Goto(p, "deleteCreds", j) \/ Goto(p, "removeFinalizer", j)
  BY <1>1, <1>7, GotoTold DEF Told, Pushing, Leaving
<1> QED
  BY <1>3, <1>4, <1>5, <1>6, <1>7 DEF Act, d

LEMMA NextStepKnows ==
  ASSUME TypeOK, StepKnows, [Next]_vars
  PROVE  StepKnows'
<1>1. PodsOK /\ KubeOK
  BY DEF TypeOK
<1>2. ASSUME NEW p \in Pods, Start(p) PROVE StepKnows'
  <2>1. PICK open : job' = [job EXCEPT ![p] = JobFor(Head(feed[p]), open)]
    BY <1>2 DEF Start
  <2>2. pc'[p] = "checks" /\ job'[p].rv = None
    BY <1>1, <1>2, <2>1 DEF Start, PodsOK, JobFor
  <2>3. \A q \in Pods \ {p} : pc'[q] = pc[q] /\ job'[q] = job[q]
    BY <1>1, <1>2, <2>1 DEF Start, PodsOK
  <2> QED
    BY <2>2, <2>3 DEF StepKnows, Told, Pushing, Leaving
<1>3. ASSUME NEW p \in Pods, Checks(p) \/ ReadRole(p) PROVE StepKnows'
  <2>1. Told(pc[p], job[p]) /\ job[p].rv = None
    BY <1>3 DEF StepKnows, Told, Checks, ReadRole
  <2>2. \/ \E err, msg : FailWithStatus(p, job[p], err, msg)
        \/ Act(p, job[p], FALSE) \/ Goto(p, "role", job[p]) \/ Goto(p, "source", job[p])
    BY <1>3 DEF Checks, ReadRole
  <2> QED
    BY <1>1, <2>1, <2>2, FailTold, ActTold, GotoTold DEF Told, Pushing, Leaving
<1>4. ASSUME NEW p \in Pods, ReadSource(p) PROVE StepKnows'
  <2> DEFINE j == [job[p] EXCEPT !.rv = source.rv, !.granted = source.optIn]
  <2>1. job[p] \in Job /\ job[p].rv = None
    BY <1>1, <1>4 DEF PodsOK, StepKnows, Told, ReadSource
  <2>2. j.granted = source.optIn
    BY <2>1 DEF Job
  <2>3. \/ \E err, msg : FailWithStatus(p, job[p], err, msg)
        \/ \E err : Fail(p, err)
        \/ Act(p, job[p], FALSE)
        \/ Goto(p, "revokeCreds", job[p]) \/ Goto(p, "writeRevoked", job[p])
        \/ OptInGranted(source) /\ Act(p, j, job[p].cr.spec.key \in source.keys)
    BY <1>4 DEF ReadSource, OptInMissing
  <2> HIDE DEF j
  <2> QED
    BY <1>1, <2>1, <2>2, <2>3, FailTold, ActTold, GotoTold
    DEF OptInGranted, Told, Pushing, Leaving
<1>5. ASSUME NEW p \in Pods,
             RevokeCreds(p) \/ Disabling(p) \/ WriteRevoked(p) \/ WriteError(p)
      PROVE  StepKnows'
  <2>1. \/ \E err : Fail(p, err)
        \/ Goto(p, "disable", job[p]) \/ Goto(p, "writeRevoked", job[p])
    BY <1>5 DEF RevokeCreds, Disabling, WriteRevoked, WriteError
  <2> QED
    BY <1>1, <2>1, FailTold, GotoTold DEF Told, Pushing, Leaving
<1>6. ASSUME NEW p \in Pods,
             \/ Guard(p) \/ ReadProject(p) \/ ReadCreds(p) \/ Find(p) \/ Create(p)
             \/ WritePreliminary(p) \/ CreateVersion(p)
      PROVE  StepKnows'
  <2>1. job[p] \in Job /\ job[p].cr.finalizer /\ job[p].granted
    BY <1>1, <1>6 DEF PodsOK, StepKnows, Told, Pushing, Guard, ReadProject, ReadCreds, Find,
                      Create, WritePreliminary, CreateVersion
  <2>2. \/ \E err : Fail(p, err)
        \/ \E err, msg : FailWithStatus(p, job[p], err, msg)
        \/ Return(p, TRUE)
        \/ \E step \in {"project", "creds", "find", "create", "writePreliminary", "version",
                        "writeSynced"} : \E project, s, ver :
               \/ Goto(p, step, job[p])
               \/ Goto(p, step, [job[p] EXCEPT !.project = project])
               \/ Goto(p, step, [job[p] EXCEPT !.sid = s])
               \/ Goto(p, step, [job[p] EXCEPT !.ver = ver])
    BY <1>6 DEF Guard, ReadProject, ReadCreds, Find, Create, WritePreliminary, CreateVersion
  <2>3. \A project, s, ver :
            /\ [job[p] EXCEPT !.project = project].cr = job[p].cr
            /\ [job[p] EXCEPT !.project = project].granted = job[p].granted
            /\ [job[p] EXCEPT !.sid = s].cr = job[p].cr
            /\ [job[p] EXCEPT !.sid = s].granted = job[p].granted
            /\ [job[p] EXCEPT !.ver = ver].cr = job[p].cr
            /\ [job[p] EXCEPT !.ver = ver].granted = job[p].granted
    BY <2>1 DEF Job
  <2>4. ASSUME NEW step \in {"project", "creds", "find", "create", "writePreliminary",
                             "version", "writeSynced"},
               NEW j, Goto(p, step, j), j.cr = job[p].cr, j.granted = job[p].granted
        PROVE  StepKnows'
    BY <1>1, <2>1, <2>4, GotoTold DEF Told, Leaving
  <2> QED
    BY <1>1, <2>2, <2>3, <2>4, FailTold, ReturnTold
<1>7. ASSUME NEW p \in Pods, DeleteCreds(p) \/ Delete(p) PROVE StepKnows'
  <2>1. job[p].cr.deleting
    BY <1>7 DEF StepKnows, Told, Leaving, DeleteCreds, Delete
  <2>2. \/ \E err : Fail(p, err)
        \/ Goto(p, "delete", job[p]) \/ Goto(p, "removeFinalizer", job[p])
    BY <1>7 DEF DeleteCreds, Delete
  <2> QED
    BY <1>1, <2>1, <2>2, FailTold, GotoTold DEF Told, Pushing
<1>8. ASSUME NEW p \in Pods,
             \/ AddFinalizer(p) \/ WriteSynced(p) \/ WriteAlreadySynced(p)
             \/ RemoveFinalizer(p)
      PROVE  StepKnows'
  BY <1>1, <1>8, ReturnTold DEF AddFinalizer, WriteSynced, WriteAlreadySynced, RemoveFinalizer
<1>9. ASSUME NEW p \in Pods, Crash(p) PROVE StepKnows'
  <2>1. pc'[p] = "idle" /\ \A q \in Pods \ {p} : pc'[q] = pc[q] /\ job'[q] = job[q]
    BY <1>1, <1>9 DEF Crash, PodsOK
  <2> QED
    BY <2>1 DEF StepKnows, Told, Pushing, Leaving
<1>10. CASE \/ \E p \in Pods : Deliver(p)
            \/ EditSpec \/ DeleteCR \/ EditSource \/ EditNamespace \/ UNCHANGED vars
  <2>1. pc' = pc /\ job' = job
    BY <1>10 DEF Deliver, EditSpec, DeleteCR, EditSource, EditNamespace, vars
  <2> QED
    BY <2>1 DEF StepKnows
<1> QED
  BY <1>2, <1>3, <1>4, <1>5, <1>6, <1>7, <1>8, <1>9, <1>10 DEF Next, Reconcile

-----------------------------------------------------------------------------
(* What snapshots know of the CR: it never loses its finalizer while it    *)
(* exists, nor its deletion mark.                                          *)

Behind(cr, later) ==
    /\ cr.finalizer /\ later.exists => later.finalizer
    /\ cr.deleting => later.deleting
SnapshotsBehind ==
    \A p \in Pods :
        Behind(job[p].cr, live) /\ \A i \in DOMAIN feed[p] : Behind(feed[p][i], live)

\* How a step moves the CR ...
Forward ==
    /\ live.deleting => live'.deleting
    /\ live'.exists => live.exists /\ (live.finalizer => live'.finalizer)

LEMMA StepForward ==
  ASSUME TypeOK, SnapshotsBehind, StepKnows, [Next]_vars
  PROVE  Forward
<1>1. live \in CR
  BY DEF TypeOK, KubeOK
<1>2. ASSUME NEW p \in Pods, AddFinalizer(p) PROVE Forward
  BY <1>1, <1>2 DEF AddFinalizer, Patch, Store, kube, Forward, CR
<1>3. ASSUME NEW p \in Pods, RemoveFinalizer(p) PROVE Forward
  <2>1. live.deleting
    BY <1>3 DEF RemoveFinalizer, StepKnows, Told, Leaving, SnapshotsBehind, Behind
  <2> QED
    BY <1>1, <1>3, <2>1 DEF RemoveFinalizer, Patch, Store, kube, Forward, CR
<1>4. ASSUME NEW p \in Pods,
             \/ WriteRevoked(p) \/ WriteError(p) \/ WritePreliminary(p) \/ WriteSynced(p)
             \/ WriteAlreadySynced(p)
      PROVE  Forward
  <2>1. \E status : live' = live \/ live' = [live EXCEPT !.status = status]
    BY <1>4 DEF WriteRevoked, WriteError, WritePreliminary, WriteSynced, WriteAlreadySynced,
                PatchStatus, Patch, Store, kube
  <2> QED
    BY <1>1, <2>1 DEF Forward, CR
<1>5. CASE EditSpec \/ DeleteCR
  BY <1>1, <1>5 DEF EditSpec, DeleteCR, Store, Forward, CR
<1>6. CASE \/ \E p \in Pods :
                 \/ Start(p) \/ Checks(p) \/ ReadRole(p) \/ ReadSource(p) \/ RevokeCreds(p)
                 \/ Disabling(p) \/ Guard(p) \/ ReadProject(p) \/ ReadCreds(p) \/ Find(p)
                 \/ Create(p) \/ CreateVersion(p) \/ DeleteCreds(p) \/ Delete(p)
                 \/ Deliver(p) \/ Crash(p)
           \/ EditSource \/ EditNamespace \/ UNCHANGED vars
  <2>1. live' = live
    BY <1>6 DEF Start, Checks, ReadRole, ReadSource, RevokeCreds, Disabling, Guard,
                ReadProject, ReadCreds, Find, Create, CreateVersion, DeleteCreds, Delete,
                Deliver, Crash, EditSource, EditNamespace, vars, kube
  <2> QED
    BY <2>1 DEF Forward
<1> QED
  BY <1>2, <1>3, <1>4, <1>5, <1>6 DEF Next, Reconcile

\* ... the snapshots on their way to a pod ...
FeedOf(q) ==
    \A i \in DOMAIN feed'[q] :
        feed'[q][i] = live' \/ \E k \in DOMAIN feed[q] : feed'[q][i] = feed[q][k]

LEMMA StoreFeed ==
  ASSUME KubeOK, NEW new \in CR, Store(new), NEW q \in Pods
  PROVE  FeedOf(q)
<1>1. CASE feed' = feed
  BY <1>1 DEF FeedOf
<1>2. CASE feed' = [p \in Pods |-> Append(feed[p], new)]
  <2>1. feed[q] \in Seq(CR) /\ feed'[q] = Append(feed[q], new) /\ live' = new
    BY <1>2 DEF KubeOK, Store
  <2> QED
    BY <2>1, AppendProperties, LenProperties DEF FeedOf
<1> QED
  BY <1>1, <1>2 DEF Store

LEMMA StepFeed ==
  ASSUME TypeOK, TypeOK', [Next]_vars, NEW q \in Pods
  PROVE  FeedOf(q)
<1>1. /\ KubeOK /\ feed[q] \in Seq(CR) /\ feed[q] # <<>> /\ live \in CR /\ live' \in CR
      /\ feed \in [Pods -> Seq(CR)]
  BY DEF TypeOK, KubeOK
<1>2. CASE feed'[q] = feed[q]
  BY <1>2 DEF FeedOf
<1>3. ASSUME NEW p \in Pods, Deliver(p) PROVE FeedOf(q)
  <2>1. CASE p = q
    <3>1. feed'[q] = Tail(feed[q])
      BY <1>1, <1>3, <2>1 DEF Deliver
    <3>2. /\ Len(feed[q]) \in Nat /\ DOMAIN feed[q] = 1..Len(feed[q])
          /\ Tail(feed[q]) \in Seq(CR) /\ Len(Tail(feed[q])) = Len(feed[q]) - 1
          /\ DOMAIN Tail(feed[q]) = 1..Len(Tail(feed[q]))
          /\ \A i \in 1..Len(Tail(feed[q])) : Tail(feed[q])[i] = feed[q][i + 1]
      BY <1>1, HeadTailProperties, LenProperties
    <3>3. ASSUME NEW i \in DOMAIN feed'[q]
          PROVE  feed'[q][i] = feed[q][i + 1] /\ i + 1 \in DOMAIN feed[q]
      BY <3>1, <3>2, <3>3
    <3> QED
      BY <3>3 DEF FeedOf
  <2>2. CASE p # q
    BY <1>1, <1>2, <1>3, <2>2 DEF Deliver
  <2> QED
    BY <2>1, <2>2
<1>4. ASSUME NEW p \in Pods, Crash(p) PROVE FeedOf(q)
  <2>1. CASE p = q
    <3>1. feed'[q] = <<live>> /\ live' = live
      BY <1>1, <1>4, <2>1 DEF Crash
    <3> QED
      BY <3>1 DEF FeedOf
  <2>2. CASE p # q
    BY <1>1, <1>2, <1>4, <2>2 DEF Crash
  <2> QED
    BY <2>1, <2>2
<1>5. CASE \/ \E p \in Pods :
                 \/ WriteRevoked(p) \/ WriteError(p) \/ WritePreliminary(p) \/ WriteSynced(p)
                 \/ WriteAlreadySynced(p) \/ AddFinalizer(p) \/ RemoveFinalizer(p)
           \/ EditSpec \/ DeleteCR
  <2>1. PICK new : Store(new) \/ UNCHANGED kube
    BY <1>5 DEF WriteRevoked, WriteError, WritePreliminary, WriteSynced, WriteAlreadySynced,
                AddFinalizer, RemoveFinalizer, EditSpec, DeleteCR, PatchStatus, Patch
  <2>2. CASE Store(new)
    <3>1. new \in CR
      BY <1>1, <2>2 DEF Store
    <3> QED
      BY <1>1, <2>2, <3>1, StoreFeed
  <2> QED
    BY <1>2, <2>1, <2>2 DEF kube
<1>6. CASE \/ \E p \in Pods :
                 \/ Start(p) \/ Checks(p) \/ ReadRole(p) \/ ReadSource(p) \/ RevokeCreds(p)
                 \/ Disabling(p) \/ Guard(p) \/ ReadProject(p) \/ ReadCreds(p) \/ Find(p)
                 \/ Create(p) \/ CreateVersion(p) \/ DeleteCreds(p) \/ Delete(p)
           \/ EditSource \/ EditNamespace \/ UNCHANGED vars
  <2>1. feed' = feed
    BY <1>6 DEF Start, Checks, ReadRole, ReadSource, RevokeCreds, Disabling, Guard,
                ReadProject, ReadCreds, Find, Create, CreateVersion, DeleteCreds, Delete,
                EditSource, EditNamespace, vars, kube
  <2> QED
    BY <1>2, <2>1
<1> QED
  BY <1>3, <1>4, <1>5, <1>6 DEF Next, Reconcile

\* ... and the snapshots of the reconciles under way.
SnapshotOf(q) ==
    \/ job'[q] = NoJob
    \/ job'[q].cr = job[q].cr
    \/ \E k \in DOMAIN feed[q] : job'[q].cr = feed[q][k]

LEMMA StepJob ==
  ASSUME TypeOK, [Next]_vars, NEW q \in Pods
  PROVE  SnapshotOf(q)
<1>1. /\ PodsOK /\ job \in [Pods -> Job] /\ job[q] \in Job
      /\ feed[q] \in Seq(CR) /\ feed[q] # <<>>
  BY DEF TypeOK, KubeOK, PodsOK
<1>2. CASE job'[q] = job[q]
  BY <1>2 DEF SnapshotOf
<1>3. ASSUME NEW p \in Pods, NEW j, job' = [job EXCEPT ![p] = j],
             p = q => j = NoJob \/ j.cr = job[q].cr
      PROVE  SnapshotOf(q)
  BY <1>1, <1>2, <1>3 DEF SnapshotOf
<1>4. ASSUME NEW p \in Pods, Start(p) PROVE SnapshotOf(q)
  <2>1. PICK open : job' = [job EXCEPT ![p] = JobFor(Head(feed[p]), open)]
    BY <1>4 DEF Start
  <2>2. CASE p = q
    <3>1. Head(feed[q]) = feed[q][1] /\ 1 \in DOMAIN feed[q]
      BY <1>1, HeadTailProperties, LenProperties, EmptySeq
    <3>2. job'[q].cr = Head(feed[q])
      BY <1>1, <2>1, <2>2 DEF JobFor
    <3> QED
      BY <3>1, <3>2 DEF SnapshotOf
  <2>3. CASE p # q
    BY <1>1, <1>2, <2>1, <2>3
  <2> QED
    BY <2>2, <2>3
<1>5. ASSUME NEW p \in Pods,
             \/ \E again : Return(p, again)
             \/ \E err : Fail(p, err)
             \/ \E err, msg : FailWithStatus(p, job[p], err, msg)
             \/ \E step : Goto(p, step, job[p])
      PROVE  SnapshotOf(q)
  <2>1. \/ job' = [job EXCEPT ![p] = NoJob]
        \/ job' = [job EXCEPT ![p] = job[p]]
        \/ \E err, msg : job' = [job EXCEPT ![p] = [job[p] EXCEPT !.err = err, !.msg = msg]]
    BY <1>5 DEF Return, Fail, FailWithStatus, Goto
  <2>2. \A err, msg : p = q => [job[p] EXCEPT !.err = err, !.msg = msg].cr = job[q].cr
    BY <1>1 DEF Job
  <2> QED
    BY <1>3, <2>1, <2>2
<1>6. ASSUME NEW p \in Pods, NEW j, NEW keyPresent, Act(p, j, keyPresent),
             j \in Job, j.cr = job[p].cr
      PROVE  SnapshotOf(q)
  <2>1. \/ job' = [job EXCEPT ![p] = NoJob]
        \/ job' = [job EXCEPT ![p] = j]
        \/ \E err, msg : job' = [job EXCEPT ![p] = [j EXCEPT !.err = err, !.msg = msg]]
    BY <1>6 DEF Act, Return, Fail, FailWithStatus, Goto
  <2>2. \A err, msg : [j EXCEPT !.err = err, !.msg = msg].cr = job[p].cr
    BY <1>6 DEF Job
  <2> QED
    BY <1>3, <1>6, <2>1, <2>2
<1>7. ASSUME NEW p \in Pods,
             \/ Checks(p) \/ ReadRole(p) \/ RevokeCreds(p) \/ Disabling(p) \/ WriteRevoked(p)
             \/ WriteError(p) \/ AddFinalizer(p) \/ Guard(p) \/ ReadCreds(p)
             \/ WritePreliminary(p) \/ WriteSynced(p) \/ WriteAlreadySynced(p)
             \/ DeleteCreds(p) \/ Delete(p) \/ RemoveFinalizer(p)
      PROVE  SnapshotOf(q)
  <2>1. \/ \E again : Return(p, again)
        \/ \E err : Fail(p, err)
        \/ \E err, msg : FailWithStatus(p, job[p], err, msg)
        \/ \E step : Goto(p, step, job[p])
        \/ Act(p, job[p], FALSE)
    BY <1>7 DEF Checks, ReadRole, RevokeCreds, Disabling, WriteRevoked, WriteError,
                AddFinalizer, Guard, ReadCreds, WritePreliminary, WriteSynced,
                WriteAlreadySynced, DeleteCreds, Delete, RemoveFinalizer
  <2>2. job[p] \in Job
    BY <1>1
  <2> QED
    BY <1>5, <1>6, <2>1, <2>2
<1>8. ASSUME NEW p \in Pods,
             ReadSource(p) \/ ReadProject(p) \/ Find(p) \/ Create(p) \/ CreateVersion(p)
      PROVE  SnapshotOf(q)
  <2> DEFINE j == [job[p] EXCEPT !.rv = source.rv, !.granted = source.optIn]
  <2>1. job[p] \in Job /\ source.rv \in Nat /\ source.optIn \in BOOLEAN
    BY <1>1 DEF TypeOK, UsersOK
  <2>2. j \in Job /\ j.cr = job[p].cr
    BY <2>1 DEF Job
  <2>3. \/ \E err : Fail(p, err)
        \/ \E err, msg : FailWithStatus(p, job[p], err, msg)
        \/ \E step : Goto(p, step, job[p])
        \/ Act(p, job[p], FALSE)
        \/ Act(p, j, job[p].cr.spec.key \in source.keys)
        \/ \E step, project, s, ver :
               \/ Goto(p, step, [job[p] EXCEPT !.project = project])
               \/ Goto(p, step, [job[p] EXCEPT !.sid = s])
               \/ Goto(p, step, [job[p] EXCEPT !.ver = ver])
    BY <1>8 DEF ReadSource, OptInMissing, ReadProject, Find, Create, CreateVersion
  <2> HIDE DEF j
  <2>4. \A project, s, ver :
            /\ [job[p] EXCEPT !.project = project].cr = job[p].cr
            /\ [job[p] EXCEPT !.sid = s].cr = job[p].cr
            /\ [job[p] EXCEPT !.ver = ver].cr = job[p].cr
    BY <2>1 DEF Job
  <2>5. ASSUME NEW step, NEW k, Goto(p, step, k), k.cr = job[p].cr PROVE SnapshotOf(q)
    BY <1>3, <2>5 DEF Goto
  <2> QED
    BY <1>5, <1>6, <2>1, <2>2, <2>3, <2>4, <2>5
<1>9. ASSUME NEW p \in Pods, Crash(p) PROVE SnapshotOf(q)
  BY <1>3, <1>9 DEF Crash
<1>10. CASE \/ \E p \in Pods : Deliver(p)
            \/ EditSpec \/ DeleteCR \/ EditSource \/ EditNamespace \/ UNCHANGED vars
  BY <1>2, <1>10 DEF Deliver, EditSpec, DeleteCR, EditSource, EditNamespace, vars
<1> QED
  BY <1>4, <1>7, <1>8, <1>9, <1>10 DEF Next, Reconcile

LEMMA NextSnapshotsBehind ==
  ASSUME TypeOK, TypeOK', SnapshotsBehind, StepKnows, [Next]_vars
  PROVE  SnapshotsBehind'
<1>1. Forward
  BY StepForward
<1>2. ASSUME NEW cr, Behind(cr, live) PROVE Behind(cr, live')
  BY <1>1, <1>2 DEF Behind, Forward
<1>3. ASSUME NEW q \in Pods, NEW i \in DOMAIN feed'[q] PROVE Behind(feed'[q][i], live')
  <2>1. CASE feed'[q][i] = live'
    BY <2>1 DEF Behind
  <2>2. ASSUME NEW k \in DOMAIN feed[q], feed'[q][i] = feed[q][k]
        PROVE  Behind(feed'[q][i], live')
    BY <1>2, <2>2 DEF SnapshotsBehind
  <2> QED
    BY <1>3, <2>1, <2>2, StepFeed DEF FeedOf
<1>4. ASSUME NEW q \in Pods PROVE Behind(job'[q].cr, live')
  <2>1. CASE job'[q] = NoJob
    BY <2>1 DEF NoJob, JobFor, NewCR, Behind
  <2>2. CASE job'[q].cr = job[q].cr
    BY <1>2, <2>2 DEF SnapshotsBehind
  <2>3. ASSUME NEW k \in DOMAIN feed[q], job'[q].cr = feed[q][k]
        PROVE  Behind(job'[q].cr, live')
    BY <1>2, <2>3 DEF SnapshotsBehind
  <2> QED
    BY <2>1, <2>2, <2>3, StepJob DEF SnapshotOf
<1> QED
  BY <1>3, <1>4 DEF SnapshotsBehind

-----------------------------------------------------------------------------
(* How a reconcile gets to the steps that follow from an answer. *)

\* What it has just done, if it was not there already.
Entered(q) ==
    \/ pc'[q] = pc[q] /\ job'[q] = job[q]
    \/ pc'[q] = "writeRevoked" /\ (Disabling(q) \/ job'[q].cr.status.ver = None)
    \/ pc'[q] = "create" /\ Find(q)
    \/ /\ pc'[q] = "removeFinalizer"
       /\ \/ Delete(q)
          \/ job'[q].cr.status.sid = None
          \/ DeleteCreds(q) /\ ~ns.creds
    \/ pc'[q] \notin {"writeRevoked", "create", "removeFinalizer"}

LEMMA ActEntered ==
  ASSUME PodsOK, NEW p \in Pods, NEW j, NEW keyPresent, Act(p, j, keyPresent)
  PROVE  Entered(p)
<1> DEFINE d == DecideNextAction(j, keyPresent)
<1>1. d = "RemoveFinalizer" => j.cr.status.sid = None
  BY DEF DecideNextAction
<1> HIDE DEF d
<1>2. CASE d = "RemoveFinalizer" /\ Goto(p, "removeFinalizer", j)
  BY <1>1, <1>2 DEF Entered, Goto, PodsOK
<1>3. CASE \/ \E err : Fail(p, err)
           \/ \E err, msg : FailWithStatus(p, j, err, msg)
           \/ Return(p, TRUE)
           \/ Goto(p, "addFinalizer", j) \/ Goto(p, "guard", j)
           \/ Goto(p, "writeAlreadySynced", j) \/ Goto(p, "deleteCreds", j)
  <2>1. pc'[p] \in {"idle", "writeError", "addFinalizer", "guard", "writeAlreadySynced",
                    "deleteCreds"}
    BY <1>3 DEF Fail, FailWithStatus, Return, Goto, PodsOK
  <2> QED
    BY <2>1 DEF Entered
<1> QED
  BY <1>2, <1>3 DEF Act, d

LEMMA StepEntered ==
  ASSUME TypeOK, [Next]_vars, NEW q \in Pods
  PROVE  Entered(q)
<1>1. PodsOK
  BY DEF TypeOK
<1>2. CASE pc'[q] = pc[q] /\ job'[q] = job[q]
  BY <1>2 DEF Entered
<1>3. ASSUME NEW p \in Pods,
             \/ \E again : Return(p, again)
             \/ \E err : Fail(p, err)
             \/ \E j, err, msg : FailWithStatus(p, j, err, msg)
             \/ \E j, step : /\ Goto(p, step, j)
                             /\ step \notin {"writeRevoked", "create", "removeFinalizer"}
      PROVE  Entered(q)
  <2>1. CASE p = q
    <3>1. pc'[q] \notin {"writeRevoked", "create", "removeFinalizer"}
      BY <1>1, <1>3, <2>1 DEF Return, Fail, FailWithStatus, Goto, PodsOK
    <3> QED
      BY <3>1 DEF Entered
  <2>2. CASE p # q
    BY <1>1, <1>2, <1>3, <2>2 DEF Return, Fail, FailWithStatus, Goto, PodsOK
  <2> QED
    BY <2>1, <2>2
<1>4. ASSUME NEW p \in Pods, NEW j, NEW keyPresent, Act(p, j, keyPresent) PROVE Entered(q)
  <2>1. CASE p = q
    BY <1>1, <1>4, <2>1, ActEntered
  <2>2. CASE p # q
    <3>1. \E k, step, err, msg, again :
              Return(p, again) \/ Fail(p, err) \/ FailWithStatus(p, j, err, msg)
              \/ Goto(p, step, k)
      BY <1>4 DEF Act
    <3> QED
      BY <1>1, <1>2, <2>2, <3>1 DEF Return, Fail, FailWithStatus, Goto, PodsOK
  <2> QED
    BY <2>1, <2>2
<1>5. ASSUME NEW p \in Pods, NEW step, Goto(p, step, job[p]),
             \/ step = "writeRevoked" /\ (Disabling(p) \/ job[p].cr.status.ver = None)
             \/ step = "create" /\ Find(p)
             \/ step = "removeFinalizer" /\ (Delete(p) \/ (DeleteCreds(p) /\ ~ns.creds))
      PROVE  Entered(q)
  <2>1. CASE p = q
    BY <1>1, <1>5, <2>1 DEF Goto, PodsOK, Entered
  <2>2. CASE p # q
    BY <1>1, <1>2, <1>5, <2>2 DEF Goto, PodsOK
  <2> QED
    BY <2>1, <2>2
<1>6. ASSUME NEW p \in Pods, Start(p) \/ Crash(p) PROVE Entered(q)
  <2>1. CASE p = q
    <3>1. pc'[q] \in {"checks", "idle"}
      BY <1>1, <1>6, <2>1 DEF Start, Crash, PodsOK
    <3> QED
      BY <3>1 DEF Entered
  <2>2. CASE p # q
    <3>1. pc'[q] = pc[q] /\ \E j : job' = [job EXCEPT ![p] = j]
      BY <1>1, <1>6, <2>2 DEF Start, Crash, PodsOK
    <3> QED
      BY <1>1, <1>2, <2>2, <3>1 DEF PodsOK
  <2> QED
    BY <2>1, <2>2
<1>7. ASSUME NEW p \in Pods, Checks(p) \/ ReadRole(p) PROVE Entered(q)
  <2>1. \/ \E err, msg : FailWithStatus(p, job[p], err, msg)
        \/ Act(p, job[p], FALSE) \/ Goto(p, "role", job[p]) \/ Goto(p, "source", job[p])
    BY <1>7 DEF Checks, ReadRole
  <2>2. ASSUME Goto(p, "role", job[p]) \/ Goto(p, "source", job[p]) PROVE Entered(q)
    BY <1>3, <2>2
  <2>3. ASSUME NEW err, NEW msg, FailWithStatus(p, job[p], err, msg) PROVE Entered(q)
    BY <1>3, <2>3
  <2>4. ASSUME Act(p, job[p], FALSE) PROVE Entered(q)
    BY <1>4, <2>4
  <2> QED
    BY <2>1, <2>2, <2>3, <2>4
<1>8. ASSUME NEW p \in Pods, ReadSource(p) PROVE Entered(q)
  <2>1. \/ \E err, msg : FailWithStatus(p, job[p], err, msg)
        \/ \E err : Fail(p, err)
        \/ Act(p, job[p], FALSE)
        \/ Goto(p, "revokeCreds", job[p])
        \/ job[p].cr.status.ver = None /\ Goto(p, "writeRevoked", job[p])
        \/ \E j : Act(p, j, job[p].cr.spec.key \in source.keys)
    BY <1>8 DEF ReadSource, OptInMissing
  <2>2. ASSUME NEW err, NEW msg, FailWithStatus(p, job[p], err, msg) \/ Fail(p, err)
        PROVE  Entered(q)
    BY <1>3, <2>2
  <2>3. ASSUME NEW j, NEW keyPresent, Act(p, j, keyPresent) PROVE Entered(q)
    BY <1>4, <2>3
  <2>4. ASSUME Goto(p, "revokeCreds", job[p]) PROVE Entered(q)
    BY <1>3, <2>4
  <2>5. ASSUME job[p].cr.status.ver = None, Goto(p, "writeRevoked", job[p])
        PROVE  Entered(q)
    BY <1>5, <2>5
  <2> QED
    BY <2>1, <2>2, <2>3, <2>4, <2>5
<1>9. ASSUME NEW p \in Pods,
             \/ RevokeCreds(p) \/ WriteRevoked(p) \/ WriteError(p) \/ AddFinalizer(p)
             \/ Guard(p) \/ ReadProject(p) \/ ReadCreds(p) \/ Create(p) \/ WritePreliminary(p)
             \/ CreateVersion(p) \/ WriteSynced(p) \/ WriteAlreadySynced(p)
             \/ RemoveFinalizer(p)
      PROVE  Entered(q)
  <2>1. \/ \E again : Return(p, again)
        \/ \E err : Fail(p, err)
        \/ \E err, msg : FailWithStatus(p, job[p], err, msg)
        \/ \E j, step : /\ Goto(p, step, j)
                        /\ step \in {"disable", "project", "creds", "find", "version",
                                     "writePreliminary", "writeSynced"}
    BY <1>9 DEF RevokeCreds, WriteRevoked, WriteError, AddFinalizer, Guard, ReadProject,
                ReadCreds, Create, WritePreliminary, CreateVersion, WriteSynced,
                WriteAlreadySynced, RemoveFinalizer
  <2> QED
    BY <1>3, <2>1
<1>10. ASSUME NEW p \in Pods, Disabling(p) \/ Find(p) \/ DeleteCreds(p) \/ Delete(p)
       PROVE  Entered(q)
  <2>1. \/ \E err : Fail(p, err)
        \/ \E err, msg : FailWithStatus(p, job[p], err, msg)
        \/ \E j : Goto(p, "writePreliminary", j) \/ Goto(p, "delete", j)
        \/ Disabling(p) /\ Goto(p, "writeRevoked", job[p])
        \/ Find(p) /\ Goto(p, "create", job[p])
        \/ /\ Delete(p) \/ (DeleteCreds(p) /\ ~ns.creds)
           /\ Goto(p, "removeFinalizer", job[p])
    <3>1. CASE DeleteCreds(p)
      BY <1>10, <3>1 DEF DeleteCreds, CredsRead, IsPermanent, PermanentErrors
    <3> QED
      BY <1>10, <3>1 DEF Disabling, Find, Delete
  <2> QED
    BY <1>3, <1>5, <2>1
<1>11. CASE \/ \E p \in Pods : Deliver(p)
            \/ EditSpec \/ DeleteCR \/ EditSource \/ EditNamespace \/ UNCHANGED vars
  BY <1>2, <1>11 DEF Deliver, EditSpec, DeleteCR, EditSource, EditNamespace, vars
<1> QED
  BY <1>6, <1>7, <1>8, <1>9, <1>10, <1>11 DEF Next, Reconcile

-----------------------------------------------------------------------------
(* The finalizer and the consent. *)

LEMMA NextFinalizer ==
  ASSUME TypeOK, ProjectKnown, SnapshotsBehind, StepKnows, FinalizerBeforeSecret, [Next]_vars
  PROVE  FinalizerBeforeSecret'
<1>1. Forward
  BY StepForward
<1>2. CASE NoneAppears
  BY <1>1, <1>2 DEF FinalizerBeforeSecret, NoneAppears, Forward, IsAlive
<1>3. ASSUME NEW p \in Pods, Created(p) PROVE FinalizerBeforeSecret'
  <2>1. job[p].cr.finalizer /\ live' = live
    BY <1>3 DEF Created, Create, StepKnows, Told, Pushing, kube
  <2>2. live.exists => live.finalizer
    BY <2>1 DEF SnapshotsBehind, Behind
  <2> QED
    BY <2>1, <2>2 DEF FinalizerBeforeSecret
<1> QED
  BY <1>2, <1>3, StepAged

LEMMA NextGranted ==
  ASSUME TypeOK, ProjectKnown, StepKnows, OnlyGrantedPayload, [Next]_vars
  PROVE  OnlyGrantedPayload'
<1>1. PodsOK /\ scw \in Seq(Secret)
  BY DEF TypeOK
<1>2. ASSUME NEW p \in Pods, Pushed(p) PROVE OnlyGrantedPayload'
  <2>1. job[p].granted
    BY <1>2 DEF Pushed, CreateVersion, StepKnows, Told, Pushing
  <2> QED
    BY <1>1, <1>2, <2>1, PushedEffect
<1>3. ASSUME NEW p \in Pods, Created(p) PROVE OnlyGrantedPayload'
  BY <1>1, <1>3, CreatedEffect
<1>4. CASE Reduced
  BY <1>1, <1>4, ReducedEffect
<1> QED
  BY <1>2, <1>3, <1>4, StepSecrets

-----------------------------------------------------------------------------
(* Revocations. *)

\* A revocation about to be announced has disabled the version its snapshot names,
\* unless the secret is gone since.
DisabledVersion(st) ==
    /\ st.sid \in DOMAIN scw
    /\ scw[st.sid].alive =>
           /\ st.ver \in DOMAIN scw[st.sid].versions
           /\ ~scw[st.sid].versions[st.ver].enabled
DisabledKnown ==
    \A p \in Pods :
        pc[p] = "writeRevoked" /\ job[p].cr.status.ver # None
            => DisabledVersion(job[p].cr.status)

LEMMA DisablingEffect ==
  ASSUME TypeOK, NEW p \in Pods, Disabling(p), pc'[p] = "writeRevoked"
  PROVE  LET st == job[p].cr.status IN
         /\ job'[p] = job[p]
         /\ st.sid \in DOMAIN scw'
         /\ st.ver \in DOMAIN scw'[st.sid].versions
         /\ ~scw'[st.sid].versions[st.ver].enabled
<1> DEFINE s == job[p].cr.status.sid
           r == job[p].cr.status.ver
           versions == Disable(scw[s].versions, r)
<1>1. PodsOK /\ scw \in Seq(Secret)
  BY DEF TypeOK
<1>2. /\ HasVersion(scw, s, r) /\ scw' = DisableVersion(scw, s, r)
      /\ Goto(p, "writeRevoked", job[p])
  BY <1>1 DEF Disabling, Fail, Return, ScalewayCall, PodsOK
<1>3. s \in DOMAIN scw /\ r \in DOMAIN scw[s].versions /\ scw[s].versions \in Seq(Version)
  BY <1>1, <1>2, VersionsOfSecret DEF HasVersion, IsAlive
<1>4. versions \in Seq(Version) /\ scw' = [scw EXCEPT ![s].versions = versions]
  BY <1>2, <1>3, DisableHistory DEF DisableVersion
<1>5. r \in DOMAIN versions /\ ~versions[r].enabled
  BY <1>3, DisableEffect
<1> HIDE DEF versions
<1>6. s \in DOMAIN scw' /\ scw'[s].versions = versions
  BY <1>1, <1>3, <1>4, VersionsEffect
<1>7. job'[p] = job[p]
  BY <1>1, <1>2 DEF Goto, PodsOK
<1> QED
  BY <1>5, <1>6, <1>7

LEMMA NextDisabled ==
  ASSUME TypeOK, ProjectKnown, DisabledKnown, [Next]_vars
  PROVE  DisabledKnown'
<1> SUFFICES ASSUME NEW q \in Pods, pc'[q] = "writeRevoked", job'[q].cr.status.ver # None
             PROVE  LET st == job'[q].cr.status IN
                    /\ st.sid \in DOMAIN scw'
                    /\ scw'[st.sid].alive =>
                           /\ st.ver \in DOMAIN scw'[st.sid].versions
                           /\ ~scw'[st.sid].versions[st.ver].enabled
  BY DEF DisabledKnown, DisabledVersion
<1>1. CASE pc'[q] = pc[q] /\ job'[q] = job[q]
  <2>1. DisabledVersion(job[q].cr.status)
    BY <1>1 DEF DisabledKnown
  <2>2. Aged
    BY StepAged
  <2> QED
    BY <1>1, <2>1, <2>2 DEF DisabledVersion, Aged
<1>2. CASE Disabling(q)
  BY <1>2, DisablingEffect
<1> QED
  BY <1>1, <1>2, StepEntered DEF Entered

LEMMA StepRevoked ==
  ASSUME TypeOK, [Next]_vars, live'.status # live.status, live'.status.state = "Revoked"
  PROVE  \E p \in Pods :
             pc[p] = "writeRevoked" /\ live'.status = RevokedStatus(job[p])
<1>1. live \in CR /\ job \in [Pods -> Job]
  BY DEF TypeOK, KubeOK, PodsOK
<1>2. ASSUME NEW p \in Pods, NEW status, NEW ok, PatchStatus(status, ok)
      PROVE  live'.status = status
  BY <1>1, <1>2 DEF PatchStatus, Patch, Store, kube, CR
<1>3. ASSUME NEW p \in Pods
      PROVE  /\ job[p].cr.status \in Status
             /\ ErrorStatus(job[p]).state = "Error"
             /\ PreliminaryStatus(job[p]).state = "Syncing"
             /\ SyncedStatus(job[p]).state = "Synced"
             /\ AlreadySyncedStatus(job[p]).state = "Synced"
  <2>1. job[p].cr.status \in Status
    BY <1>1 DEF Job, CR
  <2> QED
    BY <2>1 DEF ErrorStatus, PreliminaryStatus, SyncedStatus, AlreadySyncedStatus, Status
<1>4. ASSUME NEW p \in Pods,
             \/ WriteError(p) \/ WritePreliminary(p) \/ WriteSynced(p)
             \/ WriteAlreadySynced(p)
      PROVE  FALSE
  <2>1. \/ live'.status = ErrorStatus(job[p]) \/ live'.status = PreliminaryStatus(job[p])
        \/ live'.status = SyncedStatus(job[p]) \/ live'.status = AlreadySyncedStatus(job[p])
    BY <1>2, <1>4 DEF WriteError, WritePreliminary, WriteSynced, WriteAlreadySynced
  <2> QED
    BY <1>3, <2>1
<1>5. CASE \/ \E p \in Pods :
                 \/ Start(p) \/ Checks(p) \/ ReadRole(p) \/ ReadSource(p) \/ RevokeCreds(p)
                 \/ Disabling(p) \/ Guard(p) \/ ReadProject(p) \/ ReadCreds(p) \/ Find(p)
                 \/ Create(p) \/ CreateVersion(p) \/ DeleteCreds(p) \/ Delete(p)
                 \/ Deliver(p) \/ Crash(p)
           \/ EditSource \/ EditNamespace \/ UNCHANGED vars
  <2>1. live' = live
    BY <1>5 DEF Start, Checks, ReadRole, ReadSource, RevokeCreds, Disabling, Guard,
                ReadProject, ReadCreds, Find, Create, CreateVersion, DeleteCreds, Delete,
                Deliver, Crash, EditSource, EditNamespace, vars, kube
  <2> QED
    BY <2>1
<1>6. ASSUME NEW p \in Pods, AddFinalizer(p) \/ RemoveFinalizer(p) PROVE FALSE
  <2>1. live'.status = live.status
    BY <1>1, <1>6 DEF AddFinalizer, RemoveFinalizer, Patch, Store, kube, CR
  <2> QED
    BY <2>1
<1>7. CASE EditSpec \/ DeleteCR
  <2>1. live'.status = live.status
    BY <1>1, <1>7 DEF EditSpec, DeleteCR, Store, CR
  <2> QED
    BY <2>1
<1>8. ASSUME NEW p \in Pods, WriteRevoked(p)
      PROVE  pc[p] = "writeRevoked" /\ live'.status = RevokedStatus(job[p])
  BY <1>2, <1>8 DEF WriteRevoked
<1> QED
  BY <1>4, <1>5, <1>6, <1>7, <1>8 DEF Next, Reconcile

-----------------------------------------------------------------------------
(* One pod. *)

OnePod == \A p, q \in Pods : p = q
OneProject == \A a, b \in Projects : a = b

\* A creation follows from a search that found nothing, and nothing has appeared
\* since.
NothingToFind ==
    \A p \in Pods : pc[p] = "create" => \A s \in DOMAIN scw : ~scw[s].alive

LEMMA NextNothingToFind ==
  ASSUME TypeOK, ProjectKnown, OnePod, OneProject, NothingToFind, [Next]_vars
  PROVE  NothingToFind'
<1> SUFFICES ASSUME NEW q \in Pods, pc'[q] = "create"
             PROVE  \A s \in DOMAIN scw' : ~scw'[s].alive
  BY DEF NothingToFind
<1>1. NoneAppears
  <2>1. ASSUME NEW p \in Pods, Created(p) PROVE FALSE
    <3>1. pc'[p] \in {"writePreliminary", "writeError"} /\ p = q
      BY <2>1 DEF Created, Create, FailWithStatus, Goto, OnePod, TypeOK, PodsOK
    <3> QED
      BY <3>1
  <2> QED
    BY <2>1, StepAged
<1>2. \A s \in DOMAIN scw : ~scw[s].alive
  <2>1. CASE pc[q] = "create"
    BY <2>1 DEF NothingToFind
  <2>2. CASE pc[q] # "create"
    <3>1. Find(q)
      BY <2>2, StepEntered DEF Entered
    <3>2. job[q].project \in Projects /\ FoundByTags(scw, job[q].project) = {}
      BY <3>1 DEF Find, FailWithStatus, Goto, SecretsToAdopt, ProjectKnown, ProjectNeeded,
                  TypeOK, PodsOK
    <3>3. ASSUME NEW s \in DOMAIN scw PROVE scw[s].project \in Projects
      <4>1. scw \in Seq(Secret) /\ DOMAIN scw = 1..Len(scw)
        BY LenProperties DEF TypeOK
      <4>2. scw[s] \in Secret
        BY <4>1, ElementOfSeq
      <4> QED
        BY <4>2 DEF Secret
    <3> QED
      BY <3>2, <3>3 DEF FoundByTags, OneProject
  <2> QED
    BY <2>1, <2>2
<1> QED
  BY <1>1, <1>2 DEF NoneAppears, IsAlive

LEMMA NextOneSecret ==
  ASSUME TypeOK, ProjectKnown, NothingToFind, AtMostOneSecret, [Next]_vars
  PROVE  AtMostOneSecret'
<1>1. CASE NoneAppears
  BY <1>1 DEF NoneAppears, AtMostOneSecret, IsAlive
<1>2. ASSUME NEW p \in Pods, Created(p) PROVE AtMostOneSecret'
  <2>1. \A s \in DOMAIN scw : ~scw[s].alive
    BY <1>2 DEF Created, Create, NothingToFind
  <2>2. /\ \A s \in DOMAIN scw : scw'[s] = scw[s]
        /\ \A s \in DOMAIN scw' \ DOMAIN scw : s = Len(scw) + 1
    BY <1>2, NewSecretEffect DEF TypeOK, Created
  <2>3. \A s \in DOMAIN scw' : scw'[s].alive => s = Len(scw) + 1
    BY <2>1, <2>2
  <2> QED
    BY <2>3 DEF AtMostOneSecret, IsAlive
<1> QED
  BY <1>1, <1>2, StepAged

LEMMA NextFinalizerKept ==
  ASSUME TypeOK, ProjectKnown, OnePod, \A n \in Namespaces : n.creds,
         FinalizerKeptUntilDeleted, [Next]_vars
  PROVE  FinalizerKeptUntilDeleted'
<1> SUFFICES ASSUME NEW q \in Pods, pc'[q] = "removeFinalizer", job'[q].cr.status.sid # None
             PROVE  ~IsAlive(scw', job'[q].cr.status.sid)
  BY DEF FinalizerKeptUntilDeleted
<1>1. PodsOK /\ scw \in Seq(Secret) /\ ns.creds
  BY DEF TypeOK, UsersOK
<1>2. CASE pc'[q] = pc[q] /\ job'[q] = job[q]
  <2>1. NoneAppears
    <3>1. ASSUME NEW p \in Pods, Created(p) PROVE FALSE
      BY <1>2, <3>1 DEF Created, Create, OnePod
    <3> QED
      BY <3>1, StepAged
  <2> QED
    BY <1>2, <2>1 DEF FinalizerKeptUntilDeleted, NoneAppears, IsAlive
<1>3. CASE Delete(q)
  <2> DEFINE s == job[q].cr.status.sid
  <2>1. job'[q] = job[q] /\ scw' = IF IsAlive(scw, s) THEN DeleteSecret(scw, s) ELSE scw
    BY <1>1, <1>3 DEF Delete, ScalewayCall, Fail, Return, Goto, PodsOK
  <2> HIDE DEF s
  <2>2. ~IsAlive(scw', s)
    BY <1>1, <2>1, DeleteEffect DEF IsAlive
  <2> QED
    BY <2>1, <2>2 DEF s
<1> QED
  BY <1>1, <1>2, <1>3, StepEntered DEF Entered

-----------------------------------------------------------------------------
(* The inductive invariant. *)

SafeInv ==
    /\ IInv
    /\ SnapshotsBehind /\ StepKnows /\ DisabledKnown
    /\ FinalizerBeforeSecret /\ OnlyGrantedPayload

LEMMA InitSafeInv == Init => SafeInv
<1> SUFFICES ASSUME Init PROVE SafeInv
  OBVIOUS
<1>1. DOMAIN scw = {}
  BY EmptySeq, LenProperties DEF Init
<1>2. \A p \in Pods : pc[p] = "idle" /\ job[p].cr = NoJob.cr
  BY DEF Init
<1>3. StepKnows /\ DisabledKnown
  BY <1>2 DEF StepKnows, Told, Pushing, Leaving, DisabledKnown
<1>4. FinalizerBeforeSecret /\ OnlyGrantedPayload
  BY <1>1 DEF FinalizerBeforeSecret, OnlyGrantedPayload
<1>5. SnapshotsBehind
  <2>1. ASSUME NEW p \in Pods PROVE Behind(job[p].cr, live)
    <3>1. ~NoJob.cr.finalizer /\ ~NoJob.cr.deleting
      BY DEF NoJob, JobFor, NewCR
    <3> QED
      BY <1>2, <3>1 DEF Behind
  <2>2. ASSUME NEW p \in Pods, NEW i \in DOMAIN feed[p] PROVE Behind(feed[p][i], live)
    <3>1. feed[p] = <<live>>
      BY DEF Init
    <3>2. feed[p][i] = live
      BY <2>2, <3>1
    <3> QED
      BY <3>2 DEF Behind
  <2> QED
    BY <2>1, <2>2 DEF SnapshotsBehind
<1> QED
  BY <1>3, <1>4, <1>5, InitIInv DEF SafeInv

LEMMA NextSafeInv == SafeInv /\ [Next]_vars => SafeInv'
<1> SUFFICES ASSUME SafeInv, [Next]_vars PROVE SafeInv'
  OBVIOUS
<1>1. IInv' /\ TypeOK /\ ProjectKnown /\ TypeOK'
  BY NextIInv DEF SafeInv, IInv
<1>2. SnapshotsBehind'
  BY <1>1, NextSnapshotsBehind DEF SafeInv
<1>3. StepKnows'
  BY <1>1, NextStepKnows DEF SafeInv
<1>4. DisabledKnown'
  BY <1>1, NextDisabled DEF SafeInv
<1>5. FinalizerBeforeSecret'
  BY <1>1, NextFinalizer DEF SafeInv
<1>6. OnlyGrantedPayload'
  BY <1>1, NextGranted DEF SafeInv
<1> QED
  BY <1>1, <1>2, <1>3, <1>4, <1>5, <1>6 DEF SafeInv

LEMMA SafeInvariance == Spec => []SafeInv
<1>1. Init => SafeInv
  BY InitSafeInv
<1>2. SafeInv /\ [Next]_vars => SafeInv'
  BY NextSafeInv
<1> QED
  BY <1>1, <1>2, PTL DEF Spec

\* A CR that has a secret keeps the finalizer that protects it, for any number of
\* pods: the decision to add it comes first (DecideNextAction), and a snapshot is
\* never ahead of the API server, which removes it from deleted CRs only.
THEOREM FinalizerFirst == Spec => []FinalizerBeforeSecret
<1>1. SafeInv => FinalizerBeforeSecret
  BY DEF SafeInv
<1> QED
  BY <1>1, SafeInvariance, PTL

\* Whatever is edited, lost or restarted in between, what is pushed is the value of
\* a read that also saw the opt-in (read_k8s_secret_source), for any number of pods.
THEOREM ConsentFirst == Spec => []OnlyGrantedPayload
<1>1. SafeInv => OnlyGrantedPayload
  BY DEF SafeInv
<1> QED
  BY <1>1, SafeInvariance, PTL

\* No revocation is announced while the version the status names is enabled, for any
\* number of pods: nothing enables a version again after it was disabled
\* (handle_opt_in_revocation).
THEOREM RevocationKept == Spec => RevokedVersionDisabled
<1> DEFINE Withdrawn ==
               LET st == live'.status IN
               st # live.status /\ st.state = "Revoked" /\ st.ver # None
                 /\ IsAlive(scw, st.sid)
                   => st.ver \notin EnabledVersions(scw, st.sid)
<1>1. SafeInv /\ [Next]_vars => Withdrawn
  <2> SUFFICES ASSUME SafeInv, [Next]_vars, live'.status # live.status,
                      live'.status.state = "Revoked", live'.status.ver # None,
                      IsAlive(scw, live'.status.sid)
               PROVE  live'.status.ver \notin EnabledVersions(scw, live'.status.sid)
    OBVIOUS
  <2>1. TypeOK
    BY DEF SafeInv, IInv
  <2>2. PICK p \in Pods : pc[p] = "writeRevoked" /\ live'.status = RevokedStatus(job[p])
    BY <2>1, StepRevoked
  <2>3. live'.status.sid = job[p].cr.status.sid /\ live'.status.ver = job[p].cr.status.ver
    <3>1. job[p].cr.status \in Status
      BY <2>1 DEF TypeOK, PodsOK, Job, CR
    <3> QED
      BY <2>2, <3>1 DEF RevokedStatus, Status
  <2>4. DisabledVersion(job[p].cr.status)
    BY <2>2, <2>3 DEF SafeInv, DisabledKnown
  <2> QED
    BY <2>3, <2>4 DEF DisabledVersion, EnabledVersions, IsAlive
<1> HIDE DEF Withdrawn
<1>2. Spec => [][Withdrawn]_vars
  BY <1>1, SafeInvariance, PTL DEF Spec
<1> QED
  BY <1>2 DEF RevokedVersionDisabled, Withdrawn

\* With one pod and one project, the operator never holds two secrets for a CR, for
\* any number of lost answers and restarts: adoption by tags finds what an earlier
\* attempt has created (CreateAndSyncSecret).
THEOREM NoSecondSecret == OnePod /\ OneProject => (Spec => []AtMostOneSecret)
<1> SUFFICES ASSUME OnePod, OneProject PROVE Spec => []AtMostOneSecret
  OBVIOUS
<1> DEFINE Inv == IInv /\ NothingToFind /\ AtMostOneSecret
<1>1. Init => Inv
  <2> SUFFICES ASSUME Init PROVE Inv
    OBVIOUS
  <2>1. DOMAIN scw = {} /\ \A p \in Pods : pc[p] = "idle"
    BY EmptySeq, LenProperties DEF Init
  <2> QED
    BY <2>1, InitIInv DEF NothingToFind, AtMostOneSecret
<1>2. Inv /\ [Next]_vars => Inv'
  <2> SUFFICES ASSUME Inv, [Next]_vars PROVE Inv'
    OBVIOUS
  <2>1. IInv' /\ TypeOK /\ ProjectKnown
    BY NextIInv DEF IInv
  <2>2. NothingToFind'
    BY <2>1, NextNothingToFind
  <2>3. AtMostOneSecret'
    BY <2>1, NextOneSecret
  <2> QED
    BY <2>1, <2>2, <2>3
<1>3. Inv => AtMostOneSecret
  OBVIOUS
<1> HIDE DEF Inv
<1> QED
  BY <1>1, <1>2, <1>3, PTL DEF Spec

\* With one pod, and as long as the namespace keeps its credentials, the finalizer
\* is not taken off before the secret the reconcile knows is gone: failures of the
\* API server or of Scaleway only put it off (DeleteSecret).
THEOREM FinalizerHolds ==
  OnePod /\ (\A n \in Namespaces : n.creds) => (Spec => []FinalizerKeptUntilDeleted)
<1> SUFFICES ASSUME OnePod, \A n \in Namespaces : n.creds
             PROVE  Spec => []FinalizerKeptUntilDeleted
  OBVIOUS
<1> DEFINE Inv == IInv /\ FinalizerKeptUntilDeleted
<1>1. Init => Inv
  <2> SUFFICES ASSUME Init PROVE Inv
    OBVIOUS
  <2>1. \A p \in Pods : pc[p] = "idle"
    BY DEF Init
  <2> QED
    BY <2>1, InitIInv DEF FinalizerKeptUntilDeleted
<1>2. Inv /\ [Next]_vars => Inv'
  <2> SUFFICES ASSUME Inv, [Next]_vars PROVE Inv'
    OBVIOUS
  <2>1. IInv' /\ TypeOK /\ ProjectKnown
    BY NextIInv DEF IInv
  <2>2. FinalizerKeptUntilDeleted'
    BY <2>1, NextFinalizerKept
  <2> QED
    BY <2>1, <2>2
<1>3. Inv => FinalizerKeptUntilDeleted
  OBVIOUS
<1> HIDE DEF Inv
<1> QED
  BY <1>1, <1>2, <1>3, PTL DEF Spec

=============================================================================
