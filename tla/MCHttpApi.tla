----------------------------- MODULE MCHttpApi ------------------------------
(***************************************************************************)
(* Finite instances of HttpApi: a repository that is served, and one that  *)
(* is not although its token was minted.                                   *)
(***************************************************************************)
EXTENDS HttpApi

Served == [exists |-> Policies, binding |-> "matches",
           config |-> [d \in Directives |-> "absent"], entries |-> Names]

MCRepos == {Served, [Served EXCEPT !.binding = "other"]}
=============================================================================
