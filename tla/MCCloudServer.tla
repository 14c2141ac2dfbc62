--------------------------- MODULE MCCloudServer ---------------------------
(***************************************************************************)
(* The values of the constants of CloudServer that TLC explores.           *)
(***************************************************************************)
EXTENDS CloudServer

ReadyNamespace == [role |-> "Editor", project |-> TRUE, access |-> TRUE, creds |-> TRUE]

Ready == {ReadyNamespace}
AnyNamespace ==
    {ReadyNamespace,
     [ReadyNamespace EXCEPT !.role = "Viewer"], [ReadyNamespace EXCEPT !.role = "absent"],
     [ReadyNamespace EXCEPT !.project = FALSE], [ReadyNamespace EXCEPT !.access = FALSE],
     [ReadyNamespace EXCEPT !.creds = FALSE]}

=============================================================================
