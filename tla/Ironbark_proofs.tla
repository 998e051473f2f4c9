--------------------------- MODULE Ironbark_proofs --------------------------
(***************************************************************************)
(* The process from its parts.  It implements VaultSession and HttpApi     *)
(* each, so that what was proved of them holds of it; what relates them    *)
(* (the gate against the session it is read in, the exit against the       *)
(* requests it cuts off) follows from both invariants together.            *)
(***************************************************************************)
EXTENDS Ironbark, Custody_proofs

-----------------------------------------------------------------------------
(***************************************************************************)
(* VaultSession's invariant, for the session goroutine of the process.     *)
(***************************************************************************)
\* Before the first login.
LEMMA SessionInitInv == Session!Init => Session!SessionInv
  <1> SUFFICES ASSUME Session!Init PROVE Session!SessionInv
    OBVIOUS
  <1>1. Session!TypeOK
    <2>1. /\ epoch \in Nat /\ verifiedEpoch \in Nat
          /\ outages \in Nat /\ roleChanges \in Nat /\ expiries \in Nat
      BY DEF Session!Init
    <2> QED BY <2>1, Zenon DEF Session!Init, Session!TypeOK, Session!PC
  <1>2. ~canaryOK /\ ~retryArmed /\ pc = "login" /\ canaryToken = "none"
    BY Zenon DEF Session!Init
  <1> QED BY <1>1, <1>2
          DEF Session!SessionInv, Session!ReadyMeansVerified,
              Session!OpenGateSawGoodRole

\* A login takes the verdict back in the step that starts the session.
LEMMA SessionLoginInv ==
    ASSUME Session!SessionInv,
           Session!LoginOK \/ Session!LoginFails \/ Session!SleepEnds
    PROVE  Session!SessionInv'
  <1> USE DEF Session!SessionInv, Session!TypeOK, Session!ReadyMeansVerified,
              Session!OpenGateSawGoodRole, Session!PC, Session!Conforms,
              Session!CanaryAsserts, Session!canary, Session!counters
  <1>1. CASE Session!LoginOK
    <2>1. epoch' \in Nat /\ epoch' > 0
      BY <1>1 DEF Session!LoginOK
    <2>2. Session!TypeOK'
      BY <1>1, <2>1, Zenon DEF Session!LoginOK, Session!SessionOpened
    <2>3. ~canaryOK'
      BY <1>1 DEF Session!LoginOK, Session!SessionOpened
    <2> QED BY <1>1, <2>1, <2>2, <2>3 DEF Session!LoginOK
  <1>2. CASE Session!LoginFails
    BY <1>2 DEF Session!LoginFails
  <1>3. CASE Session!SleepEnds
    BY <1>3 DEF Session!SleepEnds
  <1> QED BY <1>1, <1>2, <1>3

\* The canary opens the gate after the assertions and the self-revocation.
LEMMA SessionCanaryInv ==
    ASSUME Session!SessionInv,
           \/ Session!CanaryMintOK \/ Session!CanaryMintFails \/ Session!CanaryPasses
           \/ Session!CanaryRevokeFails \/ Session!CanaryCleanup
    PROVE  Session!SessionInv'
  <1> USE DEF Session!SessionInv, Session!TypeOK, Session!ReadyMeansVerified,
              Session!OpenGateSawGoodRole, Session!PC, Session!Conforms,
              Session!CanaryAsserts, Session!counters
  <1>1. CASE Session!CanaryMintOK
    BY <1>1 DEF Session!CanaryMintOK, Session!Mintable
  <1>2. CASE Session!CanaryMintFails
    BY <1>2 DEF Session!CanaryMintFails, Session!CanaryFailed
  <1>3. CASE Session!CanaryPasses
    BY <1>3 DEF Session!CanaryPasses, Session!SelfRevocable
  <1>4. CASE Session!CanaryRevokeFails
    BY <1>4 DEF Session!CanaryRevokeFails, Session!CanaryFailed
  <1>5. CASE Session!CanaryCleanup
    BY <1>5 DEF Session!CanaryCleanup, Session!CanaryFailed, Session!CleanupRevokes
  <1> QED BY <1>1, <1>2, <1>3, <1>4, <1>5

\* The timers, the renewal and the cancelled context.
LEMMA SessionSelectInv ==
    ASSUME Session!SessionInv,
           \/ Session!RenewDue \/ Session!CanaryRetry \/ Session!ObserveStop
           \/ Session!RenewOK \/ Session!RenewFails
    PROVE  Session!SessionInv'
  <1> USE DEF Session!SessionInv, Session!TypeOK, Session!ReadyMeansVerified,
              Session!OpenGateSawGoodRole, Session!PC, Session!Conforms,
              Session!CanaryAsserts, Session!canary, Session!counters
  <1>1. CASE Session!RenewDue
    BY <1>1 DEF Session!RenewDue
  <1>2. CASE Session!CanaryRetry
    BY <1>2 DEF Session!CanaryRetry
  <1>3. CASE Session!ObserveStop
    BY <1>3 DEF Session!ObserveStop
  <1>4. CASE Session!RenewOK
    BY <1>4 DEF Session!RenewOK
  <1>5. CASE Session!RenewFails
    BY <1>5 DEF Session!RenewFails
  <1> QED BY <1>1, <1>2, <1>3, <1>4, <1>5

\* Vault, the operator and the signal.
LEMMA SessionOutsideInv ==
    ASSUME Session!SessionInv, Session!Vault \/ Session!Signal
    PROVE  Session!SessionInv'
  <1> USE DEF Session!SessionInv, Session!TypeOK, Session!ReadyMeansVerified,
              Session!OpenGateSawGoodRole, Session!PC, Session!Conforms,
              Session!CanaryAsserts, Session!client, Session!canary,
              Session!counters
  <1>1. CASE Session!VaultDown
    <2>1. outages' \in Nat
      BY <1>1 DEF Session!VaultDown
    <2> QED BY <1>1, <2>1, Zenon DEF Session!VaultDown
  <1>2. CASE Session!VaultBack
    BY <1>2 DEF Session!VaultBack
  <1>3. CASE Session!SessionExpires
    <2>1. expiries' \in Nat
      BY <1>3 DEF Session!SessionExpires
    <2> QED BY <1>3, <2>1, Zenon DEF Session!SessionExpires
  <1>4. CASE Session!OperatorRewritesRole
    BY <1>4 DEF Session!OperatorRewritesRole
  <1>5. CASE Session!StrayExpires
    BY <1>5 DEF Session!StrayExpires
  <1>6. CASE Session!Signal
    BY <1>6 DEF Session!Signal
  <1> QED BY <1>1, <1>2, <1>3, <1>4, <1>5, <1>6 DEF Session!Vault

\* SessionInv is inductive here too.
LEMMA SessionKept == KeepsSession => []Session!SessionInv
  <1>1. Session!SessionInv /\ [Session!Next]_(Session!vars) => Session!SessionInv'
    <2> SUFFICES ASSUME Session!SessionInv, [Session!Next]_(Session!vars)
                 PROVE  Session!SessionInv'
      OBVIOUS
    <2>1. CASE Session!Run
      BY <2>1, SessionLoginInv, SessionCanaryInv, SessionSelectInv DEF Session!Run
    <2>2. CASE Session!Vault \/ Session!Signal
      BY <2>2, SessionOutsideInv
    <2>3. CASE UNCHANGED Session!vars
      BY <2>3 DEF Session!vars, Session!client, Session!canary, Session!counters,
                  Session!SessionInv, Session!TypeOK, Session!ReadyMeansVerified,
                  Session!OpenGateSawGoodRole, Session!Conforms,
                  Session!CanaryAsserts
    <2> QED BY <2>1, <2>2, <2>3 DEF Session!Next
  <1> QED BY <1>1, SessionInitInv, PTL DEF KeepsSession, Session!Spec

-----------------------------------------------------------------------------
(***************************************************************************)
(* The process implements each of its parts.                               *)
(***************************************************************************)
\* The steps of the handlers and of the server leave the verdict alone.
LEMMA RequestsReadVerdict == RequestStep => UNCHANGED <<canaryOK, session, proc>>
  <1> SUFFICES ASSUME NEW r \in Request, HandlerMoves(r) \/ ServerStep(r),
                      UNCHANGED <<session, proc>>
               PROVE  UNCHANGED <<canaryOK, session, proc>>
    BY DEF RequestStep, Serving
  <1>1. CASE HandlerMoves(r)
    BY <1>1 DEF HandlerMoves, Gate, Answered, MintOK, ReadIdentity, ReadConfig,
                SweepLeases, SweepOK, RevokeOK, Refused, MintFails,
                ReadIdentityFails, ReadConfigFails, SweepFails, RevokeFails
  <1>2. CASE ServerStep(r)
    BY <1>2 DEF ServerStep, Refuse, Accept, Begin, RespondResult, RespondTimeout,
                Respond, HangUp, Deadline, CtxDone
  <1> QED BY <1>1, <1>2

\* Everything VaultSession is about, in one tuple of the process's state.
LEMMA SessionStutters ==
    UNCHANGED <<canaryOK, session>> => UNCHANGED Session!vars
  BY DEF session, Session!vars, Session!client, Session!canary, Session!counters

\* A handler's step is one of Handle's, with the type of the role in force.
LEMMA HandlerIsHandle ==
    ASSUME Session!SessionInv, NEW r \in Request, HandlerMoves(r)
    PROVE  HandlerStep(r)
  <1>1. role.type \in TokenTypes
    BY RoleTypesAssumption DEF Session!SessionInv, Session!TypeOK
  <1> QED BY <1>1 DEF HandlerMoves, HandlerStep, Answered, Refused, Handle,
                      Fallible, Revocation

\* What the session goroutine publishes is, to the server, a verdict that
\* changes or does not.
LEMMA VerdictOrStutter ==
    ASSUME Session!SessionInv, Session!SessionInv', UNCHANGED requests
    PROVE  VerdictChanges \/ UNCHANGED serverVars
  <1>1. canaryOK \in BOOLEAN /\ canaryOK' \in BOOLEAN
    BY DEF Session!SessionInv, Session!TypeOK
  <1>2. canaryOK' = canaryOK \/ canaryOK' = ~canaryOK
    BY <1>1, Zenon
  <1>3. UNCHANGED <<repo, ctx, bpc, token, kind, lease, result, http>>
    BY DEF requests
  <1>4. CASE canaryOK' = canaryOK
    BY <1>3, <1>4 DEF serverVars, vars
  <1>5. CASE canaryOK' = ~canaryOK
    BY <1>3, <1>5, Zenon DEF VerdictChanges, CanaryFlips
  <1> QED BY <1>2, <1>4, <1>5

\* No request and no step of main reaches into the session goroutine, except
\* for the signal: the process implements VaultSession.
THEOREM ProcessImplementsSession == ProcessSpec => KeepsSession
  <1>1. ProcessInit => Session!Init
    BY DEF ProcessInit
  <1>2. [ProcessNext]_processVars => [Session!Next]_(Session!vars)
    <2> SUFFICES ASSUME [ProcessNext]_processVars
                 PROVE  [Session!Next]_(Session!vars)
      OBVIOUS
    <2>1. CASE RequestStep
      BY <2>1, RequestsReadVerdict, SessionStutters
    <2>2. CASE SessionStep
      BY <2>2 DEF SessionStep, Session!Next
    <2>3. CASE Main
      <3>1. CASE Interrupt \/ Shutdown
        BY <3>1, SessionStutters DEF Interrupt, Shutdown, Session!Next
      <3>2. CASE Drained \/ DrainExpires
        BY <3>2, SessionStutters DEF Drained, DrainExpires
      <3> QED BY <2>3, <3>1, <3>2 DEF Main
    <2>4. CASE UNCHANGED processVars
      BY <2>4, SessionStutters DEF processVars
    <2> QED BY <2>1, <2>2, <2>3, <2>4 DEF ProcessNext
  <1> QED BY <1>1, <1>2, PTL DEF ProcessSpec, KeepsSession, Session!Spec

\* The gate's meaning, proved of the goroutine, holds in the process.
THEOREM ProcessKeepsGate ==
    ProcessSpec => [](Session!ReadyMeansVerified /\ Session!OpenGateSawGoodRole)
  <1>1. Session!SessionInv
            => Session!ReadyMeansVerified /\ Session!OpenGateSawGoodRole
    BY DEF Session!SessionInv
  <1> QED BY <1>1, ProcessImplementsSession, SessionKept, PTL

\* The session goroutine, the signal and the drain reach into no request, and
\* a mint is one that HttpApi allows: the process implements its server.
THEOREM ProcessImplementsServer == ProcessSpec => KeepsServer
  <1>1. ProcessInit => ServerInit
    BY DEF ProcessInit
  <1>2. Session!SessionInv /\ Session!SessionInv' /\ [ProcessNext]_processVars
            => [ServerNext]_serverVars
    <2> SUFFICES ASSUME Session!SessionInv, Session!SessionInv',
                        [ProcessNext]_processVars
                 PROVE  [ServerNext]_serverVars
      OBVIOUS
    <2>1. CASE RequestStep
      <3>1. PICK r \in Request : HandlerMoves(r) \/ ServerStep(r)
        BY <2>1 DEF RequestStep
      <3>2. CASE HandlerMoves(r)
        BY <3>2, HandlerIsHandle DEF ServerNext
      <3>3. CASE ServerStep(r)
        BY <3>3 DEF ServerStep, ServerNext
      <3> QED BY <3>1, <3>2, <3>3
    <2>2. ASSUME UNCHANGED requests
          PROVE  [ServerNext]_serverVars
      BY <2>2, VerdictOrStutter DEF ServerNext
    <2>3. CASE SessionStep
      BY <2>2, <2>3 DEF SessionStep
    <2>4. CASE Main
      BY <2>2, <2>4 DEF Main, Interrupt, Shutdown, Drained, DrainExpires
    <2>5. CASE UNCHANGED processVars
      BY <2>2, <2>5 DEF processVars
    <2> QED BY <2>1, <2>3, <2>4, <2>5 DEF ProcessNext
  <1> QED BY <1>1, <1>2, ProcessImplementsSession, SessionKept, PTL
          DEF ProcessSpec, KeepsServer, ServerSpec

\* A role rewritten after the canary passed never reaches a client: a 200 of
\* the process stands on a live service token.
THEOREM ProcessRepliesAreEarned == ProcessSpec => []RepliesAreEarned
  BY ProcessImplementsServer, OkRepliesAreEarned, PTL DEF KeepsServer

\* With a session goroutine that re-logs in, roles that change and an exit at
\* any time, every token is still delivered, revoked or given up once.
THEOREM ProcessKeepsCustody == ProcessSpec => KeepsCustody
  BY ProcessImplementsServer, ServerKeepsCustody, PTL DEF KeepsServer

-----------------------------------------------------------------------------
(***************************************************************************)
(* What relates the parts.                                                 *)
(***************************************************************************)
\* main's own state, next to the context it cancels and the requests it
\* waits for.
Drain ==
    /\ proc \in {"serving", "draining"} \cup Exits
    /\ proc # "serving" => stopping
    /\ proc = "clean" => \A r \in Request : hpc[r] # "wait"

\* The session goroutine and Vault do not touch the process's context.
LEMMA StoppingKept ==
    Session!Run \/ Session!Vault => UNCHANGED stopping
  BY DEF Session!Run, Session!Vault, Session!LoginOK, Session!LoginFails,
         Session!SleepEnds, Session!CanaryMintOK, Session!CanaryMintFails,
         Session!CanaryPasses, Session!CanaryRevokeFails, Session!CanaryCleanup,
         Session!RenewDue, Session!CanaryRetry, Session!ObserveStop,
         Session!RenewOK, Session!RenewFails, Session!VaultDown,
         Session!VaultBack, Session!SessionExpires, Session!client,
         Session!OperatorRewritesRole, Session!StrayExpires

\* The drain waits for the serving goroutines and for nothing else.
LEMMA DrainInv ==
    ASSUME Drain, Session!SessionInv, [ProcessNext]_processVars
    PROVE  Drain'
  <1>1. CASE RequestStep
    <2>1. UNCHANGED <<stopping, proc>>
      BY <1>1, RequestsReadVerdict DEF session
    <2>2. proc # "clean"
      BY <1>1 DEF RequestStep, Serving, Running, Exits
    <2> QED BY <2>1, <2>2 DEF Drain, Exits
  <1>2. CASE SessionStep
    <2>1. UNCHANGED <<stopping, proc, hpc>>
      BY <1>2, StoppingKept DEF SessionStep, requests, http
    <2> QED BY <2>1 DEF Drain, Exits
  <1>3. CASE Interrupt \/ Shutdown
    <2>1. stopping'
      BY <1>3 DEF Interrupt, Shutdown, Session!Signal, session
    <2>2. proc' \in {"serving", "draining"}
      BY <1>3 DEF Interrupt, Shutdown
    <2> QED BY <2>1, <2>2 DEF Drain
  <1>4. CASE Drained \/ DrainExpires
    <2>1. UNCHANGED <<stopping, hpc>> /\ proc = "draining"
      BY <1>4 DEF Drained, DrainExpires, session, requests, http
    <2>2. proc' = "clean" => \A r \in Request : hpc[r] # "wait"
      BY <1>4 DEF Drained, DrainExpires
    <2>3. proc' \in {"clean", "forced"}
      BY <1>4 DEF Drained, DrainExpires
    <2> QED BY <2>1, <2>2, <2>3 DEF Drain, Exits
  <1>5. CASE UNCHANGED processVars
    <2>1. UNCHANGED <<stopping, proc, hpc>>
      BY <1>5 DEF processVars, session, requests, http
    <2> QED BY <2>1 DEF Drain, Exits
  <1> QED BY <1>1, <1>2, <1>3, <1>4, <1>5 DEF ProcessNext, Main

\* ProcessInv holds: each part's invariant by the part, the rest by main.
THEOREM ProcessInvariant == ProcessSpec => []ProcessInv
  <1>1. ProcessInit => Drain
    <2> SUFFICES ASSUME ProcessInit PROVE Drain
      OBVIOUS
    <2>1. proc = "serving"
      BY DEF ProcessInit
    <2> QED BY <2>1 DEF Drain
  <1>2. Drain /\ Session!SessionInv /\ [ProcessNext]_processVars => Drain'
    BY DrainInv
  <1>3. Drain /\ Session!SessionInv /\ ServerInv => ProcessInv
    BY DEF Drain, ProcessInv
  <1> QED BY <1>1, <1>2, <1>3, ProcessImplementsSession, SessionKept,
             ProcessImplementsServer, ServerInvariant, PTL
          DEF ProcessSpec, KeepsServer

\* A clean exit cuts off only handlers whose client had its 502.
THEOREM CleanExitIsHarmless == ProcessSpec => []CleanExitCutsOnlyAbandoned
  <1>1. ASSUME ProcessInv, proc = "clean", NEW r \in Request,
               bpc[r] \notin {"idle", "done"}
        PROVE  reply[r] = 502
    <2>1. hpc[r] = "closed"
      BY <1>1 DEF ProcessInv, ServerInv, ServerTypeOK, Linked
    <2> QED BY <1>1, <2>1 DEF ProcessInv, ServerInv, Linked
  <1>2. ProcessInv => CleanExitCutsOnlyAbandoned
    BY <1>1 DEF CleanExitCutsOnlyAbandoned
  <1> QED BY <1>2, ProcessInvariant, PTL

\* The verdict a handler acts on is that of the session in force at that very
\* step: what the gate reads and what the session goroutine writes are one.
THEOREM GatePassesInVerifiedSession == ProcessSpec => GatePassesVerified
  <1>1. ASSUME ProcessInv, ProcessNext, NEW r \in Request,
               bpc[r] = "gate", bpc'[r] = "mint"
        PROVE  canaryOK
    <2>1. CASE RequestStep
      <3>1. PICK q \in Request : HandlerMoves(q) \/ ServerStep(q)
        BY <2>1 DEF RequestStep
      <3>2. CASE ServerStep(q)
        <4>1. Begin(q) \/ CtxDone(q) \/ UNCHANGED vars
          BY <1>1, <3>2, ServingImplements DEF ServerStep, ProcessInv
        <4>2. bpc' = bpc \/ bpc'[r] = bpc[r] \/ bpc'[r] = "gate"
          BY <1>1, <4>1 DEF Begin, Goto, CtxDone, vars, ProcessInv, ServerInv,
                            BrokerInv, TypeOK
        <4> QED BY <1>1, <4>2
      <3>3. CASE HandlerMoves(q)
        <4>1. Handle(q)
          BY <1>1, <3>3, HandlerIsHandle DEF ProcessInv, HandlerStep
        <4>2. q = r
          BY <1>1, <4>1, HandleFrame DEF ProcessInv, ServerInv
        <4>3. Gate(r)
          BY <1>1, <4>1, <4>2
             DEF Handle, Fallible, Revocation, MintOK, MintFails, ReadIdentity,
                 ReadIdentityFails, ReadConfig, ReadConfigFails, SweepLeases,
                 SweepFails, SweepOK, RevokeOK, RevokeFails
        <4>4. ~Fail(r)
          BY <1>1 DEF Fail, ProcessInv, ServerInv, BrokerInv, TypeOK
        <4> QED BY <4>3, <4>4 DEF Gate
      <3> QED BY <3>1, <3>2, <3>3
    <2>2. CASE SessionStep \/ Main
      <3>1. UNCHANGED bpc
        BY <2>2 DEF SessionStep, Main, Interrupt, Shutdown, Drained, DrainExpires,
                    requests
      <3> QED BY <1>1, <3>1
    <2> QED BY <1>1, <2>1, <2>2 DEF ProcessNext
  <1>2. ASSUME ProcessInv, canaryOK
        PROVE  epoch > 0 /\ verifiedEpoch = epoch /\ Session!Conforms(seen)
    BY <1>2 DEF ProcessInv, Session!SessionInv, Session!ReadyMeansVerified,
                Session!OpenGateSawGoodRole
  <1>3. ProcessInv /\ [ProcessNext]_processVars =>
          [\A r \in Request : bpc[r] = "gate" /\ bpc'[r] = "mint"
              => epoch > 0 /\ verifiedEpoch = epoch
                 /\ Session!Conforms(seen)]_processVars
    BY <1>1, <1>2
  <1> QED BY <1>3, ProcessInvariant, PTL DEF ProcessSpec, GatePassesVerified
=============================================================================
