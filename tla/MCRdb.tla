------------------------------- MODULE MCRdb -------------------------------
(***************************************************************************)
(* The values of the constants of Rdb that TLC explores.                   *)
(***************************************************************************)
EXTENDS Rdb

Wanted == [regionOk |-> TRUE, reserved |-> FALSE, retain |-> FALSE,
           engine |-> "pg15", node |-> "small"]

\* Another database, kept at deletion, and a bad region that the API server accepted
\* from the start.
ValidOrBadRegion ==
    {Wanted, [Wanted EXCEPT !.retain = TRUE, !.engine = "pg16", !.node = "large"],
     [Wanted EXCEPT !.regionOk = FALSE]}

\* And a reserved tag.
AnySpec == ValidOrBadRegion \cup {[Wanted EXCEPT !.reserved = TRUE]}
OneSpec == {Wanted}

ReadyNamespace == [role |-> "Editor", project |-> TRUE, creds |-> TRUE]
Ready == {ReadyNamespace}
ReadyOrNoCreds == {ReadyNamespace, [ReadyNamespace EXCEPT !.creds = FALSE]}

\* Every defect of a namespace, two to a namespace: the first decides what a creation
\* does, the second is met by a deletion or, when the namespace is edited between two
\* reads of a pass, alone.
AnyNamespace ==
    {ReadyNamespace, [ReadyNamespace EXCEPT !.role = "Viewer", !.creds = FALSE],
     [ReadyNamespace EXCEPT !.role = "absent", !.project = FALSE]}

=============================================================================
