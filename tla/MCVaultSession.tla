--------------------------- MODULE MCVaultSession ---------------------------
(***************************************************************************)
(* Finite instances of VaultSession: one conforming token role and one     *)
(* role for each way a role can be wrong.                                  *)
(***************************************************************************)
EXTENDS VaultSession

Good == [type |-> "service", renewable |-> FALSE, orphan |-> TRUE,
         keepsDefault |-> TRUE, covers |-> TRUE]

MCRoles == {Good,
            [Good EXCEPT !.type = "batch"],
            [Good EXCEPT !.renewable = TRUE],
            [Good EXCEPT !.orphan = FALSE],
            [Good EXCEPT !.keepsDefault = FALSE],
            [Good EXCEPT !.covers = FALSE]}
=============================================================================
