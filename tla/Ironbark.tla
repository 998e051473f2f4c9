------------------------------ MODULE Ironbark ------------------------------
(***************************************************************************)
(* The whole process: the HTTP server with its request handlers (HttpApi), *)
(* the Vault session goroutine (VaultSession), and main, which starts both *)
(* and shuts down on a signal.  The goroutines share the canary's verdict, *)
(* the session token every mint is made with, and the one Vault.           *)
(***************************************************************************)
EXTENDS HttpApi

CONSTANTS Roles, OrphanExposed, MaxOutages, MaxRoleChanges, MaxExpiries

VARIABLES
    pc, sessionOK, epoch, retryArmed, stopping, vaultUp,  \* VaultSession's
    valid, role, canaryToken, seen, verifiedEpoch,
    outages, roleChanges, expiries,
    proc  \* main: serving, draining, exited cleanly or with a drain error

Session == INSTANCE VaultSession

ASSUME SessionRolesAssumption == Roles \subseteq Session!Role
ASSUME RoleTypesAssumption == \A m \in Roles : m.type \in TokenTypes

requests == <<repo, ctx, bpc, token, kind, lease, result, http>>
session  == <<pc, sessionOK, epoch, retryArmed, stopping, vaultUp, valid, role,
              canaryToken, seen, verifiedEpoch, outages, roleChanges, expiries>>
processVars == <<canaryOK, requests, session, proc>>

Exits == {"clean", "forced"}

ProcessInit ==
    /\ Session!Init /\ ServerInit
    /\ proc = "serving"

Running == proc \notin Exits

-----------------------------------------------------------------------------
(***************************************************************************)
(* Requests.  A mint is made with the session token and the role in force  *)
(* when it reaches Vault, and Vault answers nothing while it is down.      *)
(***************************************************************************)
Mintable == valid /\ role.covers

Answered(r) ==
    /\ vaultUp
    /\ \/ Mintable /\ MintOK(r, role.type)
       \/ ReadIdentity(r) \/ ReadConfig(r)
       \/ SweepLeases(r) \/ SweepOK(r)
       \/ RevokeOK(r)

Refused(r) ==
    \/ MintFails(r) /\ (token'[r] = "lost" => Mintable)
    \/ ReadIdentityFails(r) \/ ReadConfigFails(r)
    \/ SweepFails(r) \/ RevokeFails(r)

HandlerMoves(r) ==
    /\ Gate(r) \/ Answered(r) \/ Refused(r)
    /\ UNCHANGED http

\* Shutdown takes no new connections.  A request that is in steps 1-4 by then
\* does go on; accepting it touches nothing but the request itself, so it is
\* one that was accepted just before.
ServerStep(r) ==
    \/ proc = "serving" /\ (Refuse(r) \/ Accept(r))
    \/ RespondResult(r) \/ RespondTimeout(r)
    \/ HangUp(r) \/ Deadline(r)

\* A request's step is of a running process, and of nobody else.
Serving == Running /\ UNCHANGED <<session, proc>>

RequestStep == Serving /\ \E r \in Request : HandlerMoves(r) \/ ServerStep(r)

-----------------------------------------------------------------------------
(***************************************************************************)
(* The session goroutine and the Vault it talks to.                        *)
(***************************************************************************)
SessionStep ==
    /\ Running /\ (Session!Run \/ Session!Vault)
    /\ UNCHANGED <<requests, proc>>

-----------------------------------------------------------------------------
(***************************************************************************)
(* main.                                                                   *)
(***************************************************************************)
\* Mutant: the requests' contexts descend from the one the signal cancels.
InterruptCuts ==
    /\ proc = "serving" /\ Session!Signal
    /\ ctx' = [r \in Request |-> "done"]
    /\ UNCHANGED <<repo, bpc, token, kind, lease, result, http, proc>>

\* The signal cancels Run's context.  Requests have contexts of their own, and
\* are accepted until main gets to Shutdown.
Interrupt ==
    /\ proc = "serving" /\ Session!Signal
    /\ UNCHANGED <<requests, proc>>

\* Mutant: main takes readiness down itself, beside the session goroutine.
ShutdownUnready ==
    /\ proc = "serving" /\ proc' = "draining"
    /\ stopping /\ sessionOK' = FALSE
    /\ UNCHANGED <<canaryOK, requests, pc, epoch, retryArmed, stopping, vaultUp,
                   valid, role, canaryToken, seen, verifiedEpoch, outages,
                   roleChanges, expiries>>

\* main stops accepting, after the signal or because the listener failed, when
\* it cancels Run's context itself.
Shutdown ==
    /\ proc = "serving" /\ proc' = "draining"
    /\ \/ stopping /\ UNCHANGED <<canaryOK, session>>
       \/ Session!Signal
    /\ UNCHANGED requests

\* Mutant: main returns on the signal without Shutdown.
ExitAtOnce ==
    /\ proc = "draining" /\ proc' = "clean"
    /\ UNCHANGED <<canaryOK, requests, session>>

\* Mutant: main waits for every handler it ever started.
AllReturned ==
    /\ proc = "draining" /\ proc' = "clean"
    /\ \A r \in Request : bpc[r] \in {"idle", "done"}
    /\ UNCHANGED <<canaryOK, requests, session>>

\* Shutdown returns once no request is being served.  It knows nothing of
\* handlers whose request was answered without them.
Drained ==
    /\ proc = "draining" /\ proc' = "clean"
    /\ \A r \in Request : hpc[r] # "wait"
    /\ UNCHANGED <<canaryOK, requests, session>>

\* The 5s drain deadline, which is shorter than a request's 30s.
DrainExpires ==
    /\ proc = "draining" /\ proc' = "forced"
    /\ \E r \in Request : hpc[r] = "wait"
    /\ UNCHANGED <<canaryOK, requests, session>>

Main == Interrupt \/ Shutdown \/ Drained \/ DrainExpires

ProcessNext == RequestStep \/ SessionStep \/ Main

ProcessSpec == ProcessInit /\ [][ProcessNext]_processVars

\* main, the deadlines and the serving goroutines run.  Nothing is assumed of
\* the handlers, of the session goroutine and of Vault.
ProcessFairness ==
    /\ WF_processVars(stopping /\ Shutdown) /\ WF_processVars(Drained \/ DrainExpires)
    /\ \A r \in Request :
          /\ WF_processVars(Deadline(r) /\ Serving)
          /\ WF_processVars((RespondResult(r) \/ RespondTimeout(r)) /\ Serving)

FairProcessSpec == ProcessSpec /\ ProcessFairness

-----------------------------------------------------------------------------
(***************************************************************************)
(* Properties.                                                             *)
(***************************************************************************)
\* Seen from the session goroutine alone, the process is VaultSession: neither
\* a request nor main writes what it publishes, and stopping is the signal.
KeepsSession == Session!Spec

\* Seen from the server alone, it is HttpApi, in which the verdict may change
\* at any time and a mint may meet any role: the session goroutine, a signal
\* and the drain reach into no request, and a token's type is the role's.
KeepsServer == ServerSpec

\* What holds of the parts together: main drains only after the session's
\* context is cancelled, and it leaves cleanly only when no serving goroutine
\* waits.
ProcessInv ==
    /\ Session!SessionInv /\ ServerInv
    /\ proc \in {"serving", "draining"} \cup Exits
    /\ proc # "serving" => stopping
    /\ proc = "clean" => \A r \in Request : hpc[r] # "wait"

\* No request gets through to its mint unless the canary passed in the very
\* session in force at that step, against a role that conformed.
GatePassesVerified ==
    [][\A r \in Request : bpc[r] = "gate" /\ bpc'[r] = "mint"
         => epoch > 0 /\ verifiedEpoch = epoch /\ Session!Conforms(seen)]_processVars

\* A clean exit cuts off no handler whose request was still being served:
\* what it cuts off are handlers the server had answered 502 for, whose
\* token, if any, stays until its TTL.
CleanExitCutsOnlyAbandoned ==
    proc = "clean" => \A r \in Request :
        bpc[r] \notin {"idle", "done"} => reply[r] = 502

\* The process ends after a signal, whatever Vault and the requests do.
ShutdownEnds == stopping ~> ~Running

\* Every accepted request is answered, even if its handler never returns: the
\* hard deadline ends the wait.  Only a drain that runs out of time cuts
\* requests off.
EveryRequestAnswered ==
    \A r \in Request : hpc[r] = "wait" ~> reply[r] # 0 \/ proc = "forced"

\* "while the canary state is failed or unknown (startup, or after a re-login
\* whose canary hasn't passed yet), POST requests return 502 without minting"
HardGate ==
    [][\A r \in Request : token[r] = "none" /\ token'[r] = "live" => canaryOK]_processVars

\* "on re-login failure, /readyz goes 503 and mints fail 502": the goroutine
\* waits in "sleep" after a failed login, and only then (a login that fails
\* because the process is stopping does not count).
ReloginFailureStopsMints ==
    [][\A r \in Request : token[r] = "none" /\ token'[r] = "live"
         => stopping \/ pc # "sleep"]_processVars
=============================================================================
