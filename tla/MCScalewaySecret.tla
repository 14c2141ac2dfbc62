------------------------- MODULE MCScalewaySecret -------------------------
(***************************************************************************)
(* The values of the constants of ScalewaySecret that TLC explores.        *)
(***************************************************************************)
EXTENDS ScalewaySecret, TLC

CONSTANTS k1, k2   \* keys of the source Secret

SpecOf(k) == [regionOk |-> TRUE, reserved |-> FALSE, key |-> k]
SourceWith(ks) == [exists |-> TRUE, optIn |-> TRUE, keys |-> ks]
OptedOut == [exists |-> TRUE, optIn |-> FALSE, keys |-> {k1}]
NoSource == [exists |-> FALSE, optIn |-> FALSE, keys |-> {}]
ReadyNamespace == [role |-> "Editor", project |-> "p1", creds |-> TRUE, rbac |-> TRUE]

\* A key the source may hold, a key it lacks, a reserved tag, and a bad region that
\* the API server accepted from the start.
OneKey == {SpecOf(k1)}
AnySpec ==
    {SpecOf(k1), SpecOf(k2), [SpecOf(k1) EXCEPT !.reserved = TRUE],
     [SpecOf(k1) EXCEPT !.regionOk = FALSE]}

Granted == {SourceWith({k1, k2})}
OnAndOff == {SourceWith({k1}), OptedOut}
AnySource == {SourceWith({k1}), OptedOut, NoSource}

Ready == {ReadyNamespace}
ReadyOrNoCreds == {ReadyNamespace, [ReadyNamespace EXCEPT !.creds = FALSE]}

\* Pods are interchangeable (safety runs only).
PodSymmetry == Permutations(Pods)

=============================================================================
