---------------------------- MODULE SecretSync ----------------------------
(***************************************************************************)
(* What a ScalewaySecret promises to whoever reads it: the status it shows *)
(* and the versions in Scaleway Secret Manager, without the reconciles     *)
(* behind them.  ScalewaySecret implements it (ImplementsSecretSync); the  *)
(* RDB reconciler, which reads its password there, runs against it (Rdb).  *)
(***************************************************************************)
EXTENDS SecretManager

CONSTANT Values   \* payloads that may be pushed

VARIABLES
    store,    \* the secrets of the CR in Secret Manager
    announce  \* the CR as others see it

vars == <<store, announce>>

\* A status claims that version ver of secret sid is enabled and holds value, or
\* that it is disabled, or nothing.
Claims == {"Synced", "Revoked", "nothing"}
Lives == {"present", "deleting", "gone"}

Init ==
    /\ store = <<>>
    /\ announce.life = "present" /\ announce.claim = "nothing" /\ announce.sid = None

\* One secret at a time.
CreateSecret ==
    /\ announce.life # "gone"
    /\ \A s \in DOMAIN store : ~IsAlive(store, s)
    /\ \E project \in Projects : store' = NewSecret(store, project)
    /\ UNCHANGED announce

\* A version is added to the secret that the status names, in place of the last.
Push ==
    /\ announce.life # "gone" /\ IsAlive(store, announce.sid)
    /\ \E v \in Values : store' = NewVersion(store, announce.sid, v)
    /\ UNCHANGED announce

Withdraw ==
    /\ \E s \in DOMAIN store : \E r \in DOMAIN store[s].versions :
           store' = DisableVersion(store, s, r)
    /\ UNCHANGED announce

\* Nothing is deleted before the CR is.
Remove ==
    /\ announce.life # "present"
    /\ \E s \in DOMAIN store : IsAlive(store, s) /\ store' = DeleteSecret(store, s)
    /\ UNCHANGED announce

\* Synced names an enabled version and what it holds; Revoked a disabled one, if
\* any is left; a status never names a secret that was not created.
SyncedIsTrue(a) ==
    a.claim = "Synced" =>
        /\ HasVersion(store, a.sid, a.ver)
        /\ store[a.sid].versions[a.ver] = [payload |-> a.value, enabled |-> TRUE]
RevokedIsTrue(a) ==
    a.claim = "Revoked" /\ HasVersion(store, a.sid, a.ver) =>
        a.ver \notin EnabledVersions(store, a.sid)

Announce ==
    /\ announce.life # "gone"
    /\ announce' # announce
    /\ announce'.life = announce.life
    /\ announce'.claim \in Claims
    /\ announce'.sid \in {None} \cup DOMAIN store
    /\ SyncedIsTrue(announce') /\ RevokedIsTrue(announce')
    /\ UNCHANGED store

\* The CR is deleted, at once when it has no finalizer; it never comes back.
Depart ==
    /\ <<announce.life, announce'.life>> \in
           {<<"present", "deleting">>, <<"present", "gone">>, <<"deleting", "gone">>}
    /\ announce' = [announce EXCEPT !.life = announce'.life]
    /\ UNCHANGED store

Next == CreateSecret \/ Push \/ Withdraw \/ Remove \/ Announce \/ Depart

Spec == Init /\ [][Next]_vars

=============================================================================
