------------------------------- MODULE Broker -------------------------------
(***************************************************************************)
(* broker.Handle: one goroutine per verified request.  It asks whether the *)
(* canary passed, mints a token at Vault, reads .identity and .config and  *)
(* sweeps the repository's secrets with that token, and returns a result   *)
(* whose status decides whether the token lives: anything but 200 revokes  *)
(* it on the way out.                                                      *)
(*                                                                         *)
(* One action per outcome of a Vault call; the code between two calls      *)
(* belongs to the action of the first.  What Vault holds for a request's   *)
(* repository is a record of the environment, read once by each call.      *)
(***************************************************************************)
EXTENDS Naturals

CONSTANTS
    Request,        \* the requests handed to Handle
    Policies,       \* policies a request asks for (policy.Derive: at least one)
    Names,          \* names the sweep may produce
    TokenTypes,     \* types the token role may mint
    Repos,          \* what Vault may hold for a request's repository
    AdvertiseAddr,  \* ADVERTISE_VAULT_ADDR is set
    Faults          \* Vault calls that may fail although their context is live

Calls == {"mint", "read", "revoke"}

\* A field of .config as its owner left it: not there, the string "false",
\* another string, JSON null, or some other JSON value.
Field == {"absent", "false", "text", "null", "junk"}

\* The two fields .config has a meaning for; the second stands for any other
\* as well.
Directives == {"vault_token", "vault_token_images"}

\* exists: the requested policies Vault knows; binding: .identity against the
\* payload's forge_remote_id (unset: absent or unreadable; malformed: null or
\* empty ones too); config: .config, which is all absent when it does not
\* exist or is null and has junk when it is another JSON value than an object;
\* entries: the names swept.
Repo == [exists : SUBSET Policies,
         binding : {"unset", "matches", "other", "malformed"},
         config : [Directives -> Field],
         entries : SUBSET Names]

ASSUME PoliciesAssumption == Policies # {}
ASSUME TypesAssumption == TokenTypes \subseteq {"service", "batch"}
ASSUME ReposAssumption == Repos \subseteq Repo
ASSUME AddrAssumption == AdvertiseAddr \in BOOLEAN
ASSUME FaultsAssumption == Faults \subseteq Calls

VARIABLES
    canaryOK,  \* Client.canaryOK, as CanaryOK() reads it
    repo,      \* what Vault holds for the request's repository
    ctx,       \* the request's context: live, or done
    bpc,       \* where Handle is
    token,     \* the minted token at Vault; lost: minted, answer never seen
    kind,      \* its token_type, as Vault minted it
    lease,     \* leases the sweep's dereferences created under the token
    result     \* what Handle returns

vars == <<canaryOK, repo, ctx, bpc, token, kind, lease, result>>

BPC == {"idle", "gate", "mint", "identity", "config", "sweep", "revoke", "done"}

Secret == [name : Names \cup {"vault_token", "vault_addr"},
           from : {"kv", "mint", "addr"}]

Result == [status : {0, 200, 204, 502},
           outcome : {"none", "ok", "unonboarded", "identity_mismatch", "error"},
           secrets : SUBSET Secret, accessor : BOOLEAN, revokeFailed : BOOLEAN]

NoResult == [status |-> 0, outcome |-> "none", secrets |-> {},
             accessor |-> FALSE, revokeFailed |-> FALSE]

TypeOK ==
    /\ canaryOK \in BOOLEAN
    /\ repo \in [Request -> Repos]
    /\ ctx \in [Request -> {"live", "done"}]
    /\ bpc \in [Request -> BPC]
    /\ token \in [Request -> {"none", "lost", "live", "revoked"}]
    /\ kind \in [Request -> {"none"} \cup TokenTypes]
    /\ lease \in [Request -> {"none", "live", "revoked"}]
    /\ result \in [Request -> Result]

Init ==
    /\ canaryOK \in BOOLEAN
    /\ repo \in [Request -> Repos]
    /\ ctx = [r \in Request |-> "live"]
    /\ bpc = [r \in Request |-> "idle"]
    /\ token = [r \in Request |-> "none"]
    /\ kind = [r \in Request |-> "none"]
    /\ lease = [r \in Request |-> "none"]
    /\ result = [r \in Request |-> NoResult]

-----------------------------------------------------------------------------
(***************************************************************************)
(* Vault calls and returns.                                                *)
(***************************************************************************)
\* Mutant: calls are made with a context nobody cancels.
DownUncancelled(r, call) == call \in Faults

\* A call made with the request's context errors when that is done, and may
\* error when Vault, the network or a 5xx makes it.
Down(r, call) == call \in Faults \/ ctx[r] = "done"

Goto(r, step) == bpc' = [bpc EXCEPT ![r] = step] /\ UNCHANGED result

\* A return before there is a token: nothing to revoke.
Fail(r) ==
    /\ result' = [result EXCEPT ![r] = [NoResult EXCEPT !.status = 502,
                                                         !.outcome = "error"]]
    /\ bpc' = [bpc EXCEPT ![r] = "done"]

\* Mutant: the deferred revocation looks at errors only.
FinishRevokingErrors(r, status, outcome, secrets) ==
    /\ result' = [result EXCEPT ![r] =
           [status |-> status, outcome |-> outcome, secrets |-> secrets,
            accessor |-> TRUE, revokeFailed |-> FALSE]]
    /\ bpc' = [bpc EXCEPT ![r] = IF outcome = "error" THEN "revoke" ELSE "done"]

\* Mutant: the deferred revocation does not look at the status.
FinishRevokingAll(r, status, outcome, secrets) ==
    /\ result' = [result EXCEPT ![r] =
           [status |-> status, outcome |-> outcome, secrets |-> secrets,
            accessor |-> TRUE, revokeFailed |-> FALSE]]
    /\ bpc' = [bpc EXCEPT ![r] = "revoke"]

\* finish, and the deferred function that runs on every return after the
\* mint: anything but 200 goes through the revocation first.
Finish(r, status, outcome, secrets) ==
    /\ result' = [result EXCEPT ![r] =
           [status |-> status, outcome |-> outcome, secrets |-> secrets,
            accessor |-> TRUE, revokeFailed |-> FALSE]]
    /\ bpc' = [bpc EXCEPT ![r] = IF status = 200 THEN "done" ELSE "revoke"]

-----------------------------------------------------------------------------
(***************************************************************************)
(* Handle, in program order.                                               *)
(***************************************************************************)
Begin(r) ==
    /\ bpc[r] = "idle" /\ Goto(r, "gate")
    /\ UNCHANGED <<canaryOK, repo, ctx, token, kind, lease>>

\* Mutant: the canary's verdict is not asked for.
GateOpen(r) ==
    /\ bpc[r] = "gate" /\ Goto(r, "mint")
    /\ UNCHANGED <<canaryOK, repo, ctx, token, kind, lease>>

\* Step 6: nothing is minted while the canary has not passed.  MintToken with
\* a context that is already done errors before anything is sent.
Gate(r) ==
    /\ bpc[r] = "gate"
    /\ \/ ~canaryOK /\ Fail(r)
       \/ canaryOK /\ ctx[r] = "done" /\ Fail(r)
       \/ canaryOK /\ ctx[r] = "live" /\ Goto(r, "mint")
    /\ UNCHANGED <<canaryOK, repo, ctx, token, kind, lease>>

\* Mutant: one policy that does not exist is enough.
AnyWarned(r) == repo[r].exists # Policies

\* allWarned: each requested policy came back with a does-not-exist warning.
AllWarned(r) == repo[r].exists = {}

\* Mutant: the type of the minted token is left to the canary.
MintTrusted(r, t) ==
    /\ bpc[r] = "mint" /\ ctx[r] = "live"
    /\ token' = [token EXCEPT ![r] = "live"] /\ kind' = [kind EXCEPT ![r] = t]
    /\ \/ AllWarned(r) /\ Finish(r, 204, "unonboarded", {})
       \/ ~AllWarned(r) /\ Goto(r, "identity")
    /\ UNCHANGED <<canaryOK, repo, ctx, lease>>

\* Vault mints a token of type t.
MintOK(r, t) ==
    /\ bpc[r] = "mint" /\ ctx[r] = "live"
    /\ token' = [token EXCEPT ![r] = "live"] /\ kind' = [kind EXCEPT ![r] = t]
    /\ \/ t # "service" /\ Finish(r, 502, "error", {})
       \/ t = "service" /\ AllWarned(r) /\ Finish(r, 204, "unonboarded", {})
       \/ t = "service" /\ ~AllWarned(r) /\ Goto(r, "identity")
    /\ UNCHANGED <<canaryOK, repo, ctx, lease>>

\* MintToken errors: Vault minted nothing, or its answer was lost on the way.
MintFails(r) ==
    /\ bpc[r] = "mint" /\ Down(r, "mint")
    /\ Fail(r)
    /\ \E t \in {"none", "lost"} : token' = [token EXCEPT ![r] = t]
    /\ UNCHANGED <<canaryOK, repo, ctx, kind, lease>>

\* Mutant: a malformed .identity counts as no binding.
BoundLoosely(r) == repo[r].binding # "other"

\* The repository's .identity does not forbid this forge repository.
Bound(r) == repo[r].binding \in {"unset", "matches"}

ReadIdentity(r) ==
    /\ bpc[r] = "identity" /\ ctx[r] = "live"
    /\ \/ Bound(r) /\ Goto(r, "config")
       \/ ~Bound(r) /\ Finish(r, 204, "identity_mismatch", {})
    /\ UNCHANGED <<canaryOK, repo, ctx, token, kind, lease>>

\* No answer is a 502.  An answer whose body breaks off cannot be decoded,
\* and an undecodable .identity is a malformed one.
ReadIdentityFails(r) ==
    /\ bpc[r] = "identity" /\ Down(r, "read")
    /\ \/ Finish(r, 502, "error", {})
       \/ repo[r].binding # "unset" /\ Finish(r, 204, "identity_mismatch", {})
    /\ UNCHANGED <<canaryOK, repo, ctx, token, kind, lease>>

\* stringField refuses what does not decode into a string, and JSON null
\* decodes into the empty one without an error.
IsText(field) == field # "junk"

\* Mutant: only the field that suppresses the token is checked.
FlatInPart(r) == IsText(repo[r].config["vault_token"])

\* ReadConfig's test for a flat string map.
Flat(r) == \A d \in Directives : IsText(repo[r].config[d])

ReadConfig(r) ==
    /\ bpc[r] = "config" /\ ctx[r] = "live"
    /\ \/ Flat(r) /\ Goto(r, "sweep")
       \/ ~Flat(r) /\ Finish(r, 502, "error", {})
    /\ UNCHANGED <<canaryOK, repo, ctx, token, kind, lease>>

ReadConfigFails(r) ==
    /\ bpc[r] = "config" /\ Down(r, "read")
    /\ Finish(r, 502, "error", {})
    /\ UNCHANGED <<canaryOK, repo, ctx, token, kind, lease>>

\* A dereference of a dynamic engine creates a lease the token owns, whether
\* or not the sweep gets to its end.
SweepLeases(r) ==
    /\ bpc[r] = "sweep" /\ ctx[r] = "live" /\ lease[r] = "none"
    /\ lease' = [lease EXCEPT ![r] = "live"]
    /\ UNCHANGED <<canaryOK, repo, ctx, bpc, token, kind, result>>

SweepFails(r) ==
    /\ bpc[r] = "sweep" /\ Down(r, "read")
    /\ Finish(r, 502, "error", {})
    /\ UNCHANGED <<canaryOK, repo, ctx, token, kind, lease>>

Suppressed(r) == repo[r].config["vault_token"] = "false"

Swept(r) == {[name |-> n, from |-> "kv"] : n \in repo[r].entries}

VaultToken == [name |-> "vault_token", from |-> "mint"]
VaultAddr  == [name |-> "vault_addr", from |-> "addr"]

\* Step 9: the swept secrets, the token unless suppressed, the address.
Response(r) ==
    Swept(r) \cup {s \in {VaultToken} : ~Suppressed(r)}
             \cup {s \in {VaultAddr} : AdvertiseAddr}

\* Mutant: the response is empty when nothing at all was appended to it.
NothingAppended(r) == Response(r) = {}

\* Mutant: a suppressed token leaves nothing to serve.
NothingIfSuppressed(r) == Suppressed(r)

\* Emptiness looks at the swept secrets and the suppression only.
NothingToServe(r) == repo[r].entries = {} /\ Suppressed(r)

SweepOK(r) ==
    /\ bpc[r] = "sweep" /\ ctx[r] = "live"
    /\ \/ NothingToServe(r) /\ Finish(r, 204, "unonboarded", {})
       \/ ~NothingToServe(r) /\ Finish(r, 200, "ok", Response(r))
    /\ UNCHANGED <<canaryOK, repo, ctx, token, kind, lease>>

-----------------------------------------------------------------------------
(***************************************************************************)
(* The deferred revocation, with a context of its own.  Vault revokes a    *)
(* token's leases with it, and a batch token cannot be revoked.            *)
(***************************************************************************)
Revoked(r) ==
    /\ token' = [token EXCEPT ![r] = "revoked"]
    /\ lease' = [lease EXCEPT ![r] = IF @ = "live" THEN "revoked" ELSE @]

Returned(r) == bpc' = [bpc EXCEPT ![r] = "done"]

RevokeOK(r) ==
    /\ bpc[r] = "revoke" /\ kind[r] = "service"
    /\ Revoked(r) /\ Returned(r)
    /\ UNCHANGED <<canaryOK, repo, ctx, kind, result>>

\* Mutant: the revocation is made with the request's context.
RevokeRefusedWithCtx(r) == Down(r, "revoke") \/ kind[r] = "batch"

RevokeRefused(r) == "revoke" \in Faults \/ kind[r] = "batch"

\* The error is only noted; the token lives on unless just the answer was lost.
RevokeFails(r) ==
    /\ bpc[r] = "revoke" /\ RevokeRefused(r)
    /\ Returned(r)
    /\ result' = [result EXCEPT ![r].revokeFailed = TRUE]
    /\ \/ UNCHANGED <<token, lease>>
       \/ kind[r] = "service" /\ Revoked(r)
    /\ UNCHANGED <<canaryOK, repo, ctx, kind>>

-----------------------------------------------------------------------------
\* The request's context ends: its deadline, or a client that goes away, maybe
\* before Handle has begun.
CtxDone(r) ==
    /\ ctx[r] = "live"
    /\ ctx' = [ctx EXCEPT ![r] = "done"]
    /\ UNCHANGED <<canaryOK, repo, bpc, token, kind, lease, result>>

\* The session goroutine publishes another verdict.
CanaryFlips ==
    /\ canaryOK' = ~canaryOK
    /\ UNCHANGED <<repo, ctx, bpc, token, kind, lease, result>>

Fallible(r) == \/ MintFails(r) \/ ReadIdentityFails(r) \/ ReadConfigFails(r)
               \/ SweepFails(r)

Revocation(r) == RevokeOK(r) \/ RevokeFails(r)

Handle(r) ==
    \/ Gate(r) \/ (\E t \in TokenTypes : MintOK(r, t)) \/ ReadIdentity(r) \/ ReadConfig(r)
    \/ SweepLeases(r) \/ SweepOK(r) \/ Fallible(r) \/ Revocation(r)

Next == CanaryFlips \/ \E r \in Request : Begin(r) \/ Handle(r) \/ CtxDone(r)

Spec == Init /\ [][Next]_vars

-----------------------------------------------------------------------------
(***************************************************************************)
(* Properties.                                                             *)
(***************************************************************************)
\* A token Handle knows about is alive after a 200 and gone, with its leases,
\* after anything else, whatever the request's context did meanwhile; only a
\* revocation Vault refuses leaves it to its TTL (the deferred revocation and
\* its detached context).
CleanedUp(r) == bpc[r] = "done" /\ result[r].accessor =>
    IF result[r].status = 200
    THEN token[r] = "live" /\ lease[r] # "revoked"
    ELSE \/ token[r] = "revoked" /\ lease[r] # "live"
         \/ /\ result[r].revokeFailed
            /\ "revoke" \in Faults \/ kind[r] = "batch"

RevokedByOutcome == \A r \in Request : CleanedUp(r)

\* Secrets leave Handle only with a 200, which is never the address alone,
\* and only for a service token, an onboarded repository, a forge repository
\* its .identity allows and a .config that decodes: a field that is a number,
\* a list or an object, whichever field it is, never falls back to serving,
\* and neither does a malformed .identity.  A suppressed token stays out.  (A
\* null field decodes: see MalformedConfigIsRefused.)
Entitled(r) ==
    /\ result[r].secrets # {} => result[r].status = 200
    /\ result[r].status = 200 =>
        /\ result[r].secrets \ {VaultAddr} # {}
        /\ kind[r] = "service" /\ repo[r].exists # {}
        /\ repo[r].binding \in {"unset", "matches"}
        /\ \A d \in Directives : repo[r].config[d] # "junk"
        /\ VaultToken \in result[r].secrets => repo[r].config["vault_token"] # "false"

ServedOnlyIfEntitled == \A r \in Request : Entitled(r)

\* A read that has no answer, or one that breaks off.
ReadsMayFail(r) == "read" \in Faults \/ ctx[r] = "done"

\* Nothing is known of the repository, or it has nothing but a token that its
\* owner keeps back.
Vacant(r) ==
    \/ repo[r].exists = {}
    \/ /\ repo[r].binding \in {"unset", "matches"}
       /\ \A d \in Directives : repo[r].config[d] # "junk"
       /\ repo[r].entries = {} /\ repo[r].config["vault_token"] = "false"

\* A request with a token is refused for a reason, and with the status that
\* goes with it: a 204 hides no secret that could be served, be some policies
\* unknown or the token suppressed, and a directive that cannot be parsed is a
\* 204 in .identity and a 502 in .config.
Reasoned(r) ==
    LET res == result[r] IN
    /\ res.outcome = "unonboarded" => res.status = 204 /\ Vacant(r)
    /\ res.outcome = "identity_mismatch" =>
          /\ res.status = 204 /\ repo[r].exists # {}
          /\ \/ repo[r].binding \in {"other", "malformed"}
             \/ repo[r].binding = "matches" /\ ReadsMayFail(r)
    /\ res.outcome = "error" =>
          /\ res.status = 502
          /\ res.accessor =>
                \/ kind[r] # "service"
                \/ /\ repo[r].exists # {}
                   /\ \/ ReadsMayFail(r)
                      \/ /\ repo[r].binding \in {"unset", "matches"}
                         /\ \E d \in Directives : repo[r].config[d] = "junk"
    /\ res.outcome = "ok" <=> res.status = 200

RefusedWithReason == \A r \in Request : Reasoned(r)

\* What holds of a request at each point of Handle, from which the two
\* properties above follow: before the mint there is nothing, afterwards a
\* live service token, and what is on its way to the revocation is alive and
\* carries no secrets.
Stage(r) ==
    /\ bpc[r] \in {"idle", "gate", "mint"} =>
          token[r] = "none" /\ kind[r] = "none" /\ lease[r] = "none"
          /\ result[r] = NoResult
    /\ bpc[r] \in {"identity", "config", "sweep"} =>
          token[r] = "live" /\ kind[r] = "service" /\ repo[r].exists # {}
          /\ lease[r] # "revoked" /\ result[r] = NoResult
    /\ bpc[r] \in {"config", "sweep"} => Bound(r)
    /\ bpc[r] = "sweep" => Flat(r)
    /\ bpc[r] = "revoke" =>
          token[r] = "live" /\ lease[r] # "revoked" /\ result[r].accessor
          /\ result[r].status \in {204, 502} /\ result[r].secrets = {}
    /\ bpc[r] = "done" /\ ~result[r].accessor =>
          token[r] \in {"none", "lost"} /\ result[r].status = 502
    /\ bpc[r] = "done" => result[r].status # 0
    /\ CleanedUp(r) /\ Entitled(r)

BrokerInv == TypeOK /\ \A r \in Request : Stage(r)

\* Handle returns even if Vault never answers: the request's deadline ends
\* the call it waits for, and the revocation that follows is bounded too.
HandleReturns == \A r \in Request : bpc[r] # "idle" ~> bpc[r] = "done"

\* "Mint itself failed: no token was minted, nothing to revoke."
MintFailureMintsNothing ==
    \A r \in Request : bpc[r] = "done" /\ ~result[r].accessor => token[r] = "none"

\* "a broken suppression directive must never silently fall back to defaults":
\* a .config is served by only if each of its fields is a JSON string.
MalformedConfigIsRefused ==
    \A r \in Request : result[r].status = 200 =>
        \A d \in Directives : repo[r].config[d] \in {"absent", "false", "text"}

\* Names in one response are unique: the first writer wins a collision.
ResponseNamesUnique ==
    \A r \in Request : \A s, t \in result[r].secrets : s.name = t.name => s = t
=============================================================================
