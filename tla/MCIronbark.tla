----------------------------- MODULE MCIronbark -----------------------------
(***************************************************************************)
(* Finite instances of Ironbark: one conforming role and two an operator   *)
(* may write by mistake, and a repository that is served.                  *)
(***************************************************************************)
EXTENDS Ironbark

Good == [type |-> "service", renewable |-> FALSE, orphan |-> TRUE,
         keepsDefault |-> TRUE, covers |-> TRUE]

MCRoles == {Good, [Good EXCEPT !.type = "batch"], [Good EXCEPT !.covers = FALSE]}

MCRepos == {[exists |-> Policies, binding |-> "matches",
             config |-> [d \in Directives |-> "absent"], entries |-> Names]}
=============================================================================
