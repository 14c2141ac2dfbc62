----------------------- MODULE SecretManager_proofs -----------------------
(***************************************************************************)
(* What the operations of Secret Manager preserve: the type of its state,  *)
(* and that of each secret at most the last version is enabled.            *)
(***************************************************************************)
EXTENDS SecretManager, SequenceTheorems, TLAPS

\* At most the last version of each secret of sc is enabled.
OnlyLast(sc) ==
    \A s \in DOMAIN sc : EnabledVersions(sc, s) \subseteq {Len(sc[s].versions)}

\* The same of one history of versions.
LastOfHistory(versions) ==
    \A r \in DOMAIN versions : versions[r].enabled => r = Len(versions)

LEMMA OnlyLastByHistory ==
  ASSUME NEW sc
  PROVE  OnlyLast(sc) <=> \A s \in DOMAIN sc : LastOfHistory(sc[s].versions)
  BY DEF OnlyLast, LastOfHistory, EnabledVersions

\* Changing the versions of one secret of sc keeps the type and the histories
\* of the others.
LEMMA ChangeHistory ==
  ASSUME NEW sc \in Seq(Secret), NEW s \in DOMAIN sc, NEW versions \in Seq(Version),
         NEW new, new \in Seq(Secret),
         Len(new) = Len(sc), new[s].versions = versions,
         \A t \in DOMAIN sc \ {s} : new[t] = sc[t]
  PROVE  OnlyLast(sc) /\ LastOfHistory(versions) => OnlyLast(new)
<1>1. DOMAIN new = DOMAIN sc
  BY LenProperties
<1> QED
  BY <1>1, OnlyLastByHistory

\* [sc EXCEPT ![s].versions = versions] is well typed and changes only s.
LEMMA ExceptVersions ==
  ASSUME NEW sc \in Seq(Secret), NEW s \in DOMAIN sc, NEW versions \in Seq(Version)
  PROVE  LET new == [sc EXCEPT ![s].versions = versions] IN
         /\ new \in Seq(Secret) /\ Len(new) = Len(sc)
         /\ new[s].versions = versions
         /\ \A t \in DOMAIN sc \ {s} : new[t] = sc[t]
<1> DEFINE e == [sc[s] EXCEPT !.versions = versions]
<1>1. s \in 1..Len(sc) /\ DOMAIN sc = 1..Len(sc)
  BY LenProperties
<1>2. sc[s] \in Secret
  BY <1>1, ElementOfSeq
<1>3. e \in Secret /\ e.versions = versions
  BY <1>2 DEF Secret
<1>4. [sc EXCEPT ![s].versions = versions] = [sc EXCEPT ![s] = e]
  OBVIOUS
<1> HIDE DEF e
<1> QED
  BY <1>1, <1>3, <1>4, ExceptSeq

LEMMA VersionsOfSecret ==
  ASSUME NEW sc \in Seq(Secret), NEW s \in DOMAIN sc
  PROVE  sc[s].versions \in Seq(Version)
<1>1. s \in 1..Len(sc)
  BY LenProperties
<1>2. sc[s] \in Secret
  BY <1>1, ElementOfSeq
<1> QED
  BY <1>2 DEF Secret

\* Disabling a version of a history keeps it well typed; disabling its last one
\* when at most the last is enabled leaves none enabled.
LEMMA DisableHistory ==
  ASSUME NEW versions \in Seq(Version), NEW r \in DOMAIN versions
  PROVE  /\ Disable(versions, r) \in Seq(Version)
         /\ Len(Disable(versions, r)) = Len(versions)
         /\ LastOfHistory(versions) => LastOfHistory(Disable(versions, r))
         /\ LastOfHistory(versions) /\ r = Len(versions)
               => \A q \in DOMAIN Disable(versions, r) : ~Disable(versions, r)[q].enabled
<1> DEFINE e == [versions[r] EXCEPT !.enabled = FALSE]
<1>1. r \in 1..Len(versions) /\ DOMAIN versions = 1..Len(versions)
  BY LenProperties
<1>2. versions[r] \in Version
  BY <1>1, ElementOfSeq
<1>3. e \in Version /\ ~e.enabled
  BY <1>2 DEF Version
<1>4. Disable(versions, r) = [versions EXCEPT ![r] = e]
  BY DEF Disable
<1> HIDE DEF e
<1>5. /\ Disable(versions, r) \in Seq(Version)
      /\ Len(Disable(versions, r)) = Len(versions)
      /\ \A q \in 1..Len(versions) :
            Disable(versions, r)[q] = IF q = r THEN e ELSE versions[q]
  BY <1>1, <1>3, <1>4, ExceptSeq
<1>6. DOMAIN Disable(versions, r) = 1..Len(versions)
  BY <1>5, LenProperties
<1> QED
  BY <1>1, <1>3, <1>5, <1>6 DEF LastOfHistory

\* After the creation of a version, it is the only one enabled.
LEMMA AddHistory ==
  ASSUME NEW versions \in Seq(Version), NEW payload \in Payload
  PROVE  /\ AddVersion(versions, payload) \in Seq(Version)
         /\ LastOfHistory(versions) => LastOfHistory(AddVersion(versions, payload))
<1> DEFINE old == IF versions = <<>> THEN versions ELSE Disable(versions, Len(versions))
           v == [payload |-> payload, enabled |-> TRUE]
<1>1. v \in Version
  BY DEF Version
<1>2. versions # <<>> => Len(versions) \in DOMAIN versions
  BY EmptySeq, LenProperties
<1>3. /\ old \in Seq(Version)
      /\ LastOfHistory(versions) => \A q \in DOMAIN old : ~old[q].enabled
  <2>1. CASE versions = <<>>
    BY <2>1
  <2>2. CASE versions # <<>>
    BY <2>2, <1>2, DisableHistory
  <2> QED
    BY <2>1, <2>2
<1>4. AddVersion(versions, payload) = Append(old, v)
  BY DEF AddVersion
<1> HIDE DEF old, v
<1>5. /\ Append(old, v) \in Seq(Version)
      /\ Len(Append(old, v)) = Len(old) + 1
      /\ \A i \in 1..Len(old) : Append(old, v)[i] = old[i]
  BY <1>1, <1>3, AppendProperties
<1>6. /\ DOMAIN Append(old, v) = 1..(Len(old) + 1)
      /\ DOMAIN old = 1..Len(old) /\ Len(old) \in Nat
  BY <1>3, <1>5, LenProperties
<1> QED
  BY <1>3, <1>4, <1>5, <1>6 DEF LastOfHistory

-----------------------------------------------------------------------------
(* The four operations that change Secret Manager. *)

LEMMA NewSecretSafe ==
  ASSUME NEW sc \in Seq(Secret), NEW project \in Projects
  PROVE  /\ NewSecret(sc, project) \in Seq(Secret)
         /\ OnlyLast(sc) => OnlyLast(NewSecret(sc, project))
<1> DEFINE e == [project |-> project, alive |-> TRUE, versions |-> <<>>]
           new == NewSecret(sc, project)
<1>1. e \in Secret /\ LastOfHistory(e.versions)
  BY EmptySeq DEF Secret, LastOfHistory
<1>2. new = Append(sc, e)
  BY DEF NewSecret
<1> HIDE DEF e, new
<1>3. /\ new \in Seq(Secret) /\ Len(new) = Len(sc) + 1 /\ new[Len(sc) + 1] = e
      /\ \A i \in 1..Len(sc) : new[i] = sc[i]
  BY <1>1, <1>2, AppendProperties
<1>4. /\ DOMAIN new = 1..(Len(sc) + 1) /\ DOMAIN sc = 1..Len(sc)
      /\ Len(sc) \in Nat
  BY <1>3, LenProperties
<1>5. \A s \in DOMAIN new : s = Len(sc) + 1 \/ s \in DOMAIN sc
  BY <1>4
<1>6. OnlyLast(sc) => \A s \in DOMAIN new : LastOfHistory(new[s].versions)
  BY <1>1, <1>3, <1>4, <1>5, OnlyLastByHistory
<1> QED
  BY <1>3, <1>6, OnlyLastByHistory DEF new

LEMMA NewVersionSafe ==
  ASSUME NEW sc \in Seq(Secret), NEW s, IsAlive(sc, s), NEW payload \in Payload
  PROVE  /\ NewVersion(sc, s, payload) \in Seq(Secret)
         /\ OnlyLast(sc) => OnlyLast(NewVersion(sc, s, payload))
<1> DEFINE versions == AddVersion(sc[s].versions, payload)
           new == NewVersion(sc, s, payload)
<1>1. s \in DOMAIN sc
  BY DEF IsAlive
<1>2. versions \in Seq(Version) /\ (OnlyLast(sc) => LastOfHistory(versions))
  BY <1>1, VersionsOfSecret, AddHistory, OnlyLastByHistory
<1>3. new = [sc EXCEPT ![s].versions = versions]
  BY DEF NewVersion
<1> HIDE DEF versions, new
<1>4. /\ new \in Seq(Secret) /\ Len(new) = Len(sc) /\ new[s].versions = versions
      /\ \A t \in DOMAIN sc \ {s} : new[t] = sc[t]
  BY <1>1, <1>2, <1>3, ExceptVersions
<1>5. OnlyLast(sc) => OnlyLast(new)
  BY <1>1, <1>2, <1>4, ChangeHistory
<1> QED
  BY <1>4, <1>5 DEF new

LEMMA DisableVersionSafe ==
  ASSUME NEW sc \in Seq(Secret), NEW s, NEW r, HasVersion(sc, s, r)
  PROVE  /\ DisableVersion(sc, s, r) \in Seq(Secret)
         /\ OnlyLast(sc) => OnlyLast(DisableVersion(sc, s, r))
<1> DEFINE versions == Disable(sc[s].versions, r)
           new == DisableVersion(sc, s, r)
<1>1. s \in DOMAIN sc /\ r \in DOMAIN sc[s].versions
  BY DEF HasVersion, IsAlive
<1>2. versions \in Seq(Version) /\ (OnlyLast(sc) => LastOfHistory(versions))
  BY <1>1, VersionsOfSecret, DisableHistory, OnlyLastByHistory
<1>3. new = [sc EXCEPT ![s].versions = versions]
  BY DEF DisableVersion
<1> HIDE DEF versions, new
<1>4. /\ new \in Seq(Secret) /\ Len(new) = Len(sc) /\ new[s].versions = versions
      /\ \A t \in DOMAIN sc \ {s} : new[t] = sc[t]
  BY <1>1, <1>2, <1>3, ExceptVersions
<1>5. OnlyLast(sc) => OnlyLast(new)
  BY <1>1, <1>2, <1>4, ChangeHistory
<1> QED
  BY <1>4, <1>5 DEF new

LEMMA DeleteSecretSafe ==
  ASSUME NEW sc \in Seq(Secret), NEW s, IsAlive(sc, s)
  PROVE  /\ DeleteSecret(sc, s) \in Seq(Secret)
         /\ OnlyLast(sc) => OnlyLast(DeleteSecret(sc, s))
<1> DEFINE e == [sc[s] EXCEPT !.alive = FALSE, !.versions = <<>>]
           new == DeleteSecret(sc, s)
<1>1. s \in 1..Len(sc) /\ DOMAIN sc = 1..Len(sc)
  BY LenProperties DEF IsAlive
<1>2. sc[s] \in Secret
  BY <1>1, ElementOfSeq
<1>3. e \in Secret /\ e.versions = <<>>
  BY <1>2, EmptySeq DEF Secret
<1>4. new = [sc EXCEPT ![s] = e]
  BY <1>1 DEF DeleteSecret
<1> HIDE DEF e, new
<1>5. /\ new \in Seq(Secret) /\ Len(new) = Len(sc) /\ new[s] = e
      /\ \A t \in DOMAIN sc \ {s} : new[t] = sc[t]
  BY <1>1, <1>3, <1>4, ExceptSeq
<1>6. LastOfHistory(<<>>) /\ <<>> \in Seq(Version)
  BY EmptySeq DEF LastOfHistory
<1>7. OnlyLast(sc) => OnlyLast(new)
  BY <1>1, <1>3, <1>5, <1>6, ChangeHistory
<1> QED
  BY <1>5, <1>7 DEF new

=============================================================================
