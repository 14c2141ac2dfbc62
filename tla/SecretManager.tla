-------------------------- MODULE SecretManager --------------------------
(***************************************************************************)
(* Scaleway Secret Manager as the operator's client uses it (scaleway.rs): *)
(* secrets carry the operator tags of one custom resource, and each holds  *)
(* a history of versions, of which any may be enabled.                     *)
(*                                                                         *)
(* scw is the sequence of the secrets ever created for that resource; a    *)
(* secret's id is its index, a version's revision its index in versions.   *)
(* What a version holds is the revision of the source Secret and the       *)
(* generation of the resource it was read under.                           *)
(***************************************************************************)
EXTENDS Naturals, Sequences

CONSTANT Projects   \* Scaleway project ids

None == 0           \* no id, no revision, no generation

Payload == [rv : Nat, gen : Nat, granted : BOOLEAN]
Version == [payload : Payload, enabled : BOOLEAN]
Secret == [project : Projects, alive : BOOLEAN, versions : Seq(Version)]

IsAlive(scw, s) == s \in DOMAIN scw /\ scw[s].alive

HasVersion(scw, s, r) == IsAlive(scw, s) /\ r \in DOMAIN scw[s].versions

\* The matches of a search by operator tags, made within one project: the
\* client takes the first of the list, in the order the service answers.
FoundByTags(scw, project) ==
    {s \in DOMAIN scw : scw[s].alive /\ scw[s].project = project}

NewSecret(scw, project) ==
    Append(scw, [project |-> project, alive |-> TRUE, versions |-> <<>>])

Disable(versions, r) == [versions EXCEPT ![r].enabled = FALSE]

\* A new version is enabled; the same call disables the previous one
\* (disable_previous), whether or not the caller knows of it.
AddVersionKeepingPrevious(versions, payload) ==
    Append(versions, [payload |-> payload, enabled |-> TRUE])
AddVersion(versions, payload) ==
    Append(IF versions = <<>> THEN versions ELSE Disable(versions, Len(versions)),
           [payload |-> payload, enabled |-> TRUE])

NewVersion(scw, s, payload) ==
    [scw EXCEPT ![s].versions = AddVersion(@, payload)]

DisableVersion(scw, s, r) ==
    [scw EXCEPT ![s].versions = Disable(@, r)]

\* Deleting a secret deletes all its versions.
DeleteSecret(scw, s) ==
    [scw EXCEPT ![s].alive = FALSE, ![s].versions = <<>>]

EnabledVersions(scw, s) == {r \in DOMAIN scw[s].versions : scw[s].versions[r].enabled}

=============================================================================
