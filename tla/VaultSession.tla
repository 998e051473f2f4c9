---------------------------- MODULE VaultSession ----------------------------
(***************************************************************************)
(* ironbark's own Vault session: the one goroutine started by              *)
(* vaultx.Client.Run, which logs in with AppRole, runs the startup canary  *)
(* after every login, renews the session token, and logs in again when a   *)
(* renewal fails.  Request handlers only read what it publishes:           *)
(* CanaryOK() gates minting and Healthy() answers /readyz.                 *)
(*                                                                         *)
(* One action per outcome of a Vault call; the goroutine is sequential, so *)
(* what it does between two calls belongs to the action of the first.      *)
(* Vault itself (token store, token role) is the environment.              *)
(***************************************************************************)
EXTENDS Naturals

CONSTANTS
    Roles,           \* token-role configurations an operator may write
    OrphanExposed,   \* TRUE iff the mint response carries the "orphan" field
    MaxOutages,      \* bound: how often Vault stops answering
    MaxRoleChanges,  \* bound: how often the operator rewrites the role
    MaxExpiries      \* bound: how often Vault drops a live session token

\* What a token role decides about the tokens minted from it.
Role == [type : {"service", "batch"}, renewable : BOOLEAN, orphan : BOOLEAN,
         keepsDefault : BOOLEAN, covers : BOOLEAN]

ASSUME RolesAssumption == Roles \subseteq Role
ASSUME ExposureAssumption == OrphanExposed \in BOOLEAN
ASSUME BoundsAssumption ==
    MaxOutages \in Nat /\ MaxRoleChanges \in Nat /\ MaxExpiries \in Nat

VARIABLES
    pc,            \* where the lifecycle goroutine is
    sessionOK,     \* Client.sessionOK
    canaryOK,      \* Client.canaryOK
    epoch,         \* Client.token: the number of the login that returned it
    retryArmed,    \* canaryCh # nil: a canary retry timer is running
    stopping,      \* Run's context is cancelled
    \* Vault's side
    vaultUp,       \* Vault answers
    valid,         \* Vault still accepts the session token
    role,          \* the token role as configured now
    canaryToken,   \* the latest canary token: none, held by runCanary, stray
    \* what the canary has seen
    seen,          \* the role as it was at the canary's latest mint
    verifiedEpoch, \* the epoch of the latest canary that passed
    \* environment counters
    outages, roleChanges, expiries

client   == <<pc, sessionOK, canaryOK, epoch, retryArmed>>
canary   == <<canaryToken, seen, verifiedEpoch>>
counters == <<outages, roleChanges, expiries>>
vars == <<client, canary, stopping, vaultUp, valid, role, counters>>

PC == {"login", "sleep", "mint", "revoke", "cleanup", "select", "renew",
       "stopped"}

TypeOK ==
    /\ pc \in PC
    /\ sessionOK \in BOOLEAN /\ canaryOK \in BOOLEAN
    /\ epoch \in Nat /\ verifiedEpoch \in Nat
    /\ retryArmed \in BOOLEAN /\ stopping \in BOOLEAN
    /\ vaultUp \in BOOLEAN /\ valid \in BOOLEAN
    /\ role \in Roles /\ seen \in Roles
    /\ canaryToken \in {"none", "held", "stray"}
    /\ outages \in Nat /\ roleChanges \in Nat /\ expiries \in Nat

Init ==
    /\ pc = "login"
    /\ sessionOK = FALSE /\ canaryOK = FALSE
    /\ epoch = 0 /\ verifiedEpoch = 0
    /\ retryArmed = FALSE /\ stopping = FALSE
    /\ vaultUp = TRUE /\ valid = FALSE
    /\ role \in Roles /\ seen = role
    /\ canaryToken = "none"
    /\ outages = 0 /\ roleChanges = 0 /\ expiries = 0

(***************************************************************************)
(* Readers of the session state, each one critical section of Client.mu.   *)
(***************************************************************************)
Healthy == sessionOK /\ canaryOK

(***************************************************************************)
(* What Vault does with a call: it answers while it is up and the call's   *)
(* context is live; the session token must still be accepted, and a role   *)
(* whose glob misses the convention prefix makes the mint an error.  A     *)
(* token can revoke itself if the default policy survived, and only if it  *)
(* is a service token.                                                     *)
(***************************************************************************)
Reachable        == vaultUp /\ ~stopping
Mintable         == Reachable /\ valid /\ role.covers
SelfRevocable(m) == m.type = "service" /\ m.keepsDefault

\* Mutant: the renewability check is missing.
CanaryAssertsLess(m) == m.type = "service" /\ (OrphanExposed => m.orphan)

\* canaryAssertMintProperties: what the canary checks in the mint response.
CanaryAsserts(m) ==
    /\ m.type = "service"
    /\ ~m.renewable
    /\ OrphanExposed => m.orphan

-----------------------------------------------------------------------------
(***************************************************************************)
(* Login and the wait between attempts (Run's outer loop).                 *)
(***************************************************************************)
\* Mutant: the canary's verdict is reset by Run after Login returned.
SessionOpenedOnly == sessionOK' = TRUE /\ UNCHANGED canaryOK

\* One critical section marks the session good and forgets the canary's
\* verdict on the previous one.
SessionOpened == sessionOK' = TRUE /\ canaryOK' = FALSE

LoginOK ==
    /\ pc = "login" /\ Reachable
    /\ epoch' = epoch + 1
    /\ valid' = TRUE
    /\ SessionOpened
    /\ pc' = "mint"
    /\ UNCHANGED <<retryArmed, canary, stopping, vaultUp, role, counters>>

\* No answer, a refusal (a secret-id that expired, a policy), or an answer
\* without a token.
LoginFails ==
    /\ pc = "login"
    /\ sessionOK' = FALSE
    /\ pc' = "sleep"
    /\ UNCHANGED <<canaryOK, epoch, retryArmed, canary, stopping, vaultUp,
                   valid, role, counters>>

\* Mutant: the wait between attempts does not watch the context.
SleepIgnoresStop ==
    /\ pc = "sleep" /\ pc' = "login"
    /\ UNCHANGED <<sessionOK, canaryOK, epoch, retryArmed, canary, stopping,
                   vaultUp, valid, role, counters>>

\* sleepOrDone: the retry timer fires, or the cancelled context wins.
SleepEnds ==
    /\ pc = "sleep"
    /\ \/ pc' = "login"
       \/ stopping /\ pc' = "stopped"
    /\ UNCHANGED <<sessionOK, canaryOK, epoch, retryArmed, canary, stopping,
                   vaultUp, valid, role, counters>>

-----------------------------------------------------------------------------
(***************************************************************************)
(* The canary (runCanary inside sessionLoop's closure of the same name).   *)
(***************************************************************************)
\* Mutant: a failing canary arms no retry.
CanaryFailedForGood ==
    /\ canaryOK' = FALSE
    /\ retryArmed' = FALSE
    /\ pc' = "select"
    /\ UNCHANGED <<sessionOK, epoch>>

\* Every failing canary clears the flag and arms the retry timer.
CanaryFailed ==
    /\ canaryOK' = FALSE
    /\ retryArmed' = TRUE
    /\ pc' = "select"
    /\ UNCHANGED <<sessionOK, epoch>>

CanaryMintOK ==
    /\ pc = "mint" /\ Mintable
    /\ seen' = role
    /\ canaryToken' = "held"
    /\ pc' = IF CanaryAsserts(role) THEN "revoke" ELSE "cleanup"
    /\ UNCHANGED <<sessionOK, canaryOK, epoch, retryArmed, verifiedEpoch,
                   stopping, vaultUp, valid, role, counters>>

\* The mint errors.  If the answer was cut off, Vault may have created the
\* token all the same, and nobody knows it.
CanaryMintFails ==
    /\ pc = "mint" /\ ~Mintable
    /\ CanaryFailed
    /\ \/ UNCHANGED canaryToken
       \/ /\ ~Reachable /\ valid /\ role.covers
          /\ canaryToken' = "stray"
    /\ UNCHANGED <<seen, verifiedEpoch, stopping, vaultUp, valid, role, counters>>

\* The token had the right properties and revokes itself: the canary passed.
CanaryPasses ==
    /\ pc = "revoke" /\ Reachable /\ SelfRevocable(seen)
    /\ canaryToken' = "none"
    /\ canaryOK' = TRUE /\ verifiedEpoch' = epoch
    /\ retryArmed' = FALSE
    /\ pc' = "select"
    /\ UNCHANGED <<sessionOK, epoch, seen, stopping, vaultUp, valid, role, counters>>

\* The revocation errors: the token lives on, unless only the answer was lost.
CanaryRevokeFails ==
    /\ pc = "revoke" /\ ~(Reachable /\ SelfRevocable(seen))
    /\ CanaryFailed
    /\ \/ canaryToken' = "stray"
       \/ SelfRevocable(seen) /\ canaryToken' = "none"
    /\ UNCHANGED <<seen, verifiedEpoch, stopping, vaultUp, valid, role, counters>>

\* Mutant: a failed assertion returns before the token is revoked.
NoCleanup == canaryToken' = "stray"

\* A token that fails the assertions is revoked best-effort, and the canary
\* fails either way.
CleanupRevokes ==
    \/ ~(Reachable /\ SelfRevocable(seen)) /\ canaryToken' = "stray"
    \/ SelfRevocable(seen) /\ canaryToken' = "none"

CanaryCleanup ==
    /\ pc = "cleanup"
    /\ CanaryFailed
    /\ CleanupRevokes
    /\ UNCHANGED <<seen, verifiedEpoch, stopping, vaultUp, valid, role, counters>>

-----------------------------------------------------------------------------
(***************************************************************************)
(* sessionLoop's select: the renewal timer, the canary retry timer, or the *)
(* cancelled context, whichever is ready.                                  *)
(***************************************************************************)
RenewDue ==
    /\ pc = "select"
    /\ pc' = "renew"
    /\ UNCHANGED <<sessionOK, canaryOK, epoch, retryArmed, canary, stopping,
                   vaultUp, valid, role, counters>>

CanaryRetry ==
    /\ pc = "select" /\ retryArmed
    /\ pc' = "mint"
    /\ UNCHANGED <<sessionOK, canaryOK, epoch, retryArmed, canary, stopping,
                   vaultUp, valid, role, counters>>

ObserveStop ==
    /\ pc = "select" /\ stopping
    /\ pc' = "stopped" /\ retryArmed' = FALSE
    /\ UNCHANGED <<sessionOK, canaryOK, epoch, canary, stopping, vaultUp,
                   valid, role, counters>>

RenewOK ==
    /\ pc = "renew" /\ Reachable /\ valid
    /\ sessionOK' = TRUE
    /\ pc' = "select"
    /\ UNCHANGED <<canaryOK, epoch, retryArmed, canary, stopping, vaultUp,
                   valid, role, counters>>

\* A failed renewal ends the session loop, which disarms the canary retry.
RenewFails ==
    /\ pc = "renew" /\ ~(Reachable /\ valid)
    /\ sessionOK' = FALSE
    /\ pc' = "login" /\ retryArmed' = FALSE
    /\ UNCHANGED <<canaryOK, epoch, canary, stopping, vaultUp, valid, role, counters>>

-----------------------------------------------------------------------------
(***************************************************************************)
(* The environment: Vault, the operator, and the signal that stops main.   *)
(***************************************************************************)
VaultDown ==
    /\ vaultUp /\ outages < MaxOutages
    /\ vaultUp' = FALSE /\ outages' = outages + 1
    /\ UNCHANGED <<client, canary, stopping, valid, role, roleChanges, expiries>>

VaultBack ==
    /\ ~vaultUp
    /\ vaultUp' = TRUE
    /\ UNCHANGED <<client, canary, stopping, valid, role, counters>>

\* The session token reaches its maximum TTL or is revoked at Vault.
SessionExpires ==
    /\ valid /\ expiries < MaxExpiries
    /\ valid' = FALSE /\ expiries' = expiries + 1
    /\ UNCHANGED <<client, canary, stopping, vaultUp, role, outages, roleChanges>>

OperatorRewritesRole ==
    /\ roleChanges < MaxRoleChanges
    /\ \E r \in Roles \ {role} : role' = r
    /\ roleChanges' = roleChanges + 1
    /\ UNCHANGED <<client, canary, stopping, vaultUp, valid, outages, expiries>>

\* A stray canary token lives until its TTL.
StrayExpires ==
    /\ canaryToken = "stray"
    /\ canaryToken' = "none"
    /\ UNCHANGED <<client, seen, verifiedEpoch, stopping, vaultUp, valid, role, counters>>

Signal ==
    /\ ~stopping
    /\ stopping' = TRUE
    /\ UNCHANGED <<client, canary, vaultUp, valid, role, counters>>

-----------------------------------------------------------------------------
Run ==
    \/ LoginOK \/ LoginFails \/ SleepEnds
    \/ CanaryMintOK \/ CanaryMintFails \/ CanaryPasses \/ CanaryRevokeFails
    \/ CanaryCleanup
    \/ RenewDue \/ CanaryRetry \/ ObserveStop \/ RenewOK \/ RenewFails

Vault == VaultDown \/ VaultBack \/ SessionExpires \/ OperatorRewritesRole
         \/ StrayExpires

Next == Run \/ Vault \/ Signal

Spec == Init /\ [][Next]_vars

\* The goroutine keeps running.  Its Vault calls have no deadline, so one is
\* sure to return only while Vault answers or once the context is cancelled.
\* Timers and the context stay ready once they are, and select picks among
\* ready cases at random, so none is passed over for ever.  A Vault that answers
\* may refuse a login any number of times, but not each one for ever: the
\* AppRole credentials are put in order sooner or later.
Fairness ==
    /\ WF_vars((vaultUp \/ stopping) /\ Run)
    /\ SF_vars(LoginOK)
    /\ SF_vars(RenewDue) /\ SF_vars(CanaryRetry) /\ SF_vars(ObserveStop)
    /\ SF_vars(SleepEnds /\ pc' = "stopped")

FairSpec == Spec /\ Fairness

-----------------------------------------------------------------------------
(***************************************************************************)
(* Properties.                                                             *)
(***************************************************************************)
\* The gate handlers read is open only if the canary passed in the session
\* it is read with: a re-login can never be paired with the verdict on the
\* session before it (DEC-0007, Login's one critical section).
ReadyMeansVerified == canaryOK => epoch > 0 /\ verifiedEpoch = epoch

\* What a role must be for the tokens minted from it to be usable by the
\* broker, as far as the mint response shows it.
Conforms(m) ==
    /\ m.type = "service" /\ ~m.renewable
    /\ OrphanExposed => m.orphan
    /\ m.keepsDefault /\ m.covers

\* While the gate is open, the role as the canary's latest mint found it had
\* every property the assertions, the mint and the self-revocation stand
\* for; the verdict is never older than the mint it is about.
OpenGateSawGoodRole == canaryOK => Conforms(seen)

\* What keeps both so: while the canary is due or under way the gate is shut,
\* the token it holds passed the assertions before it is asked to revoke
\* itself, and a retry is armed only while the verdict is negative.
SessionInv ==
    /\ TypeOK
    /\ ReadyMeansVerified
    /\ OpenGateSawGoodRole
    /\ pc \in {"mint", "revoke", "cleanup", "select", "renew"} => epoch > 0
    /\ retryArmed \/ pc \in {"mint", "revoke", "cleanup"} => ~canaryOK
    /\ pc = "revoke" => CanaryAsserts(seen) /\ seen.covers
    /\ canaryToken = "held" <=> pc \in {"revoke", "cleanup"}

\* runCanary gives its token up to its TTL only when it could not have
\* revoked it: Vault out of reach, the process stopping, or a token that may
\* not revoke itself (the cleanup after a failed assertion).
StrayOnlyIfIrrevocable ==
    [][canaryToken = "held" /\ canaryToken' = "stray"
         => ~Reachable \/ ~SelfRevocable(seen)]_vars

\* Once Vault stays up with a conforming role, does not refuse the credentials
\* for ever and the process is not asked to stop, readiness is reached for good: no failed login, canary or
\* renewal leaves the lifecycle goroutine without a retry.
BecomesReady == <>[](vaultUp /\ ~stopping /\ Conforms(role)) => <>[]Healthy

\* A cancelled context ends Run, whatever it is waiting for.
StopIsObserved == stopping ~> (pc = "stopped")
=============================================================================
