------------------------------ MODULE MCBroker ------------------------------
(***************************************************************************)
(* Finite instances of Broker.                                             *)
(***************************************************************************)
EXTENDS Broker

\* Every repository over two policies and two entries, one of them written
\* by its owner under the token's own name.
MCNames == {"db_password", "vault_token"}
AllRepos == Repo
=============================================================================
