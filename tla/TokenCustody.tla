---------------------------- MODULE TokenCustody ----------------------------
(***************************************************************************)
(* What ironbark promises about the token of each request, without saying  *)
(* how: somebody is answerable for it from the moment Vault creates it     *)
(* until it is delivered, revoked, or given up to its TTL.                 *)
(***************************************************************************)
CONSTANT Request

VARIABLES
    custody,  \* whose the request's token is
    reply     \* what the client got

vars == <<custody, reply>>

Custodies == {"none", "held", "delivered", "revoked", "abandoned"}
Settled   == {"delivered", "revoked", "abandoned"}

TypeOK ==
    /\ custody \in [Request -> Custodies]
    /\ reply \in [Request -> {"pending", "ok", "refused"}]

Init ==
    /\ custody = [r \in Request |-> "none"]
    /\ reply = [r \in Request |-> "pending"]

Move(r, from, to) == custody[r] = from /\ custody' = [custody EXCEPT ![r] = to]
Answer(r, a) == reply[r] = "pending" /\ reply' = [reply EXCEPT ![r] = a]

\* Vault creates the token for a request whose client is still waiting.
Mint(r) == Move(r, "none", "held") /\ reply[r] = "pending" /\ UNCHANGED reply

\* Vault creates it, and its answer never arrives.
Lose(r) == Move(r, "none", "abandoned") /\ UNCHANGED reply

Deliver(r) == Move(r, "held", "delivered") /\ Answer(r, "ok")

\* The client is turned away.  A result that was to deliver the token is
\* dropped with it.
Refuse(r) == Answer(r, "refused") /\ (UNCHANGED custody \/ Move(r, "held", "abandoned"))

Revoke(r)  == Move(r, "held", "revoked") /\ UNCHANGED reply
Abandon(r) == Move(r, "held", "abandoned") /\ UNCHANGED reply

Next == \E r \in Request :
    Mint(r) \/ Lose(r) \/ Deliver(r) \/ Refuse(r) \/ Revoke(r) \/ Abandon(r)

Spec == Init /\ [][Next]_vars

-----------------------------------------------------------------------------
\* A client has a token exactly if it was told so, and what it has is never
\* taken back (a 200 never revokes).
DeliveredMeansOk ==
    \A r \in Request : custody[r] = "delivered" <=> reply[r] = "ok"

\* Nobody holds a token for ever.
Settles == \A r \in Request : custody[r] = "held" ~> custody[r] \in Settled
=============================================================================
