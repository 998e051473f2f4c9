--------------------------- MODULE HttpApi_proofs ---------------------------
(***************************************************************************)
(* The server on top of the broker, for every number of requests: a 200 is *)
(* earned and every live token is accounted for, however the handler, the  *)
(* deadline and the client race.  ServerInv is the inductive invariant.    *)
(***************************************************************************)
EXTENDS HttpApi, Broker_proofs

\* Before the first request.
LEMMA ServerInitInv == ServerInit => ServerInv
  <1> SUFFICES ASSUME ServerInit PROVE ServerInv
    OBVIOUS
  <1>1. BrokerInv
    BY InitInv DEF ServerInit
  <1>2. ServerTypeOK
    BY <1>1 DEF BrokerInv, ServerTypeOK, ServerInit
  <1>3. ASSUME NEW r \in Request PROVE Linked(r)
    BY DEF ServerInit, Init, Linked
  <1> QED BY <1>1, <1>2, <1>3 DEF ServerInv

\* A request nothing happened to keeps its two goroutines in step.
LEMMA LinkFrame ==
    ASSUME NEW r \in Request, Linked(r),
           hpc'[r] = hpc[r], gone'[r] = gone[r], reply'[r] = reply[r],
           received'[r] = received[r], bpc'[r] = bpc[r], ctx'[r] = ctx[r],
           result'[r] = result[r], logged \subseteq logged'
    PROVE  Linked(r)'
  BY DEF Linked

\* The broker's part of the state is untouched by the server's own steps.
LEMMA BrokerFrame ==
    ASSUME BrokerInv, ctx' \in [Request -> {"live", "done"}],
           UNCHANGED <<canaryOK, repo, bpc, token, kind, lease, result>>
    PROVE  BrokerInv'
  <1>1. TypeOK'
    BY DEF BrokerInv, TypeOK
  <1>2. ASSUME NEW q \in Request PROVE Stage(q)'
    BY Frame DEF BrokerInv
  <1> QED BY <1>1, <1>2 DEF BrokerInv

\* What a written response leaves behind.
Closes(r, status) ==
    /\ reply' \in [Request -> {0, 200, 204, 502} \cup Refusals]
    /\ received' \in [Request -> BOOLEAN]
    /\ hpc' \in [Request -> {"idle", "wait", "closed"}]
    /\ reply'[r] = status /\ hpc'[r] = "closed" /\ (received'[r] <=> ~gone[r])
    /\ \A q \in Request \ {r} :
          reply'[q] = reply[q] /\ received'[q] = received[q] /\ hpc'[q] = hpc[q]

\* What Write leaves behind is what Closes says.
LEMMA WriteCloses ==
    ASSUME ServerInv, NEW r \in Request,
           NEW status \in {200, 204, 502} \cup Refusals, Write(r, status)
    PROVE  Closes(r, status)
  <1>1. /\ reply' \in [Request -> {0, 200, 204, 502} \cup Refusals]
        /\ reply'[r] = status
        /\ \A q \in Request \ {r} : reply'[q] = reply[q]
    BY DEF ServerInv, ServerTypeOK, Write
  <1>2. /\ received' \in [Request -> BOOLEAN] /\ (received'[r] <=> ~gone[r])
        /\ \A q \in Request \ {r} : received'[q] = received[q]
    BY DEF ServerInv, ServerTypeOK, Write
  <1>3. /\ hpc' \in [Request -> {"idle", "wait", "closed"}] /\ hpc'[r] = "closed"
        /\ \A q \in Request \ {r} : hpc'[q] = hpc[q]
    BY DEF ServerInv, ServerTypeOK, Write
  <1> QED BY <1>1, <1>2, <1>3 DEF Closes

\* A request refused before it reaches the handler.
LEMMA RefuseInv ==
    ASSUME ServerInv, NEW r \in Request, Refuse(r)
    PROVE  ServerInv'
  <1>1. PICK status \in Refusals : Write(r, status)
    BY DEF Refuse
  <1>2. Closes(r, status)
    BY <1>1, WriteCloses
  <1>3. BrokerInv'
    BY BrokerFrame DEF Refuse, ServerInv, ServerTypeOK, TypeOK
  <1>4. ServerTypeOK'
    BY <1>2, <1>3 DEF Closes, Refuse, ServerInv, ServerTypeOK, BrokerInv
  <1>5. Linked(r)'
    <2>1. bpc[r] = "idle"
      BY DEF Refuse, ServerInv, Linked
    <2>2. reply'[r] \in Refusals /\ reply'[r] # 0 /\ hpc'[r] = "closed"
          /\ (received'[r] \/ gone[r])
      BY <1>2 DEF Closes, Refusals
    <2> QED BY <2>1, <2>2 DEF Refuse, Linked
  <1>6. ASSUME NEW q \in Request \ {r} PROVE Linked(q)'
    BY <1>2, LinkFrame DEF Closes, Refuse, ServerInv
  <1> QED BY <1>3, <1>4, <1>5, <1>6 DEF ServerInv

\* An accepted request starts its handler.
LEMMA AcceptInv ==
    ASSUME ServerInv, NEW r \in Request, Accept(r)
    PROVE  ServerInv'
  <1>1. BrokerInv'
    BY BeginInv DEF Accept, ServerInv
  <1>2. /\ hpc' \in [Request -> {"idle", "wait", "closed"}] /\ hpc'[r] = "wait"
        /\ \A q \in Request \ {r} : hpc'[q] = hpc[q]
    BY DEF Accept, ServerInv, ServerTypeOK
  <1>3. /\ bpc'[r] = "gate" /\ UNCHANGED <<ctx, result>>
        /\ \A q \in Request \ {r} : bpc'[q] = bpc[q]
    BY DEF Accept, Begin, Goto, ServerInv, BrokerInv, TypeOK
  <1>4. ServerTypeOK'
    BY <1>1, <1>2 DEF Accept, ServerInv, ServerTypeOK, BrokerInv
  <1>5. Linked(r)'
    BY <1>2, <1>3 DEF Accept, ServerInv, Linked
  <1>6. ASSUME NEW q \in Request \ {r} PROVE Linked(q)'
    BY <1>2, <1>3, LinkFrame DEF Accept, ServerInv
  <1> QED BY <1>1, <1>4, <1>5, <1>6 DEF ServerInv

\* A handler's result has a status that can be written.
LEMMA ResultStatus ==
    ASSUME BrokerInv, NEW r \in Request, bpc[r] = "done"
    PROVE  result[r].status \in {200, 204, 502}
  <1>1. result[r] \in Result
    BY DEF BrokerInv, TypeOK
  <1>2. CASE ~result[r].accessor
    BY <1>2 DEF BrokerInv, Stage
  <1>3. CASE result[r].accessor
    BY <1>1, <1>3 DEF BrokerInv, Stage, Result
  <1> QED BY <1>2, <1>3

\* Whatever select picked, the request is closed with a status the handler
\* returned or with the timeout's, and its context is over.
LEMMA RespondInv ==
    ASSUME ServerInv, NEW r \in Request, RespondResult(r) \/ RespondTimeout(r)
    PROVE  ServerInv'
  <1>1. PICK res \in {result[r], Timeout} :
            /\ Respond(r, res)
            /\ \/ res.status = 502
               \/ bpc[r] = "done" /\ res.status = result[r].status
            /\ res.status \in {200, 204, 502}
            /\ res.status # 502 => res = result[r]
    BY ResultStatus DEF RespondResult, RespondTimeout, Timeout, ServerInv
  <1>2. Closes(r, res.status)
    BY <1>1, WriteCloses DEF Respond
  <1>3. /\ ctx' \in [Request -> {"live", "done"}] /\ ctx'[r] = "done"
        /\ \A q \in Request \ {r} : ctx'[q] = ctx[q]
    BY <1>1 DEF Respond, ServerInv, ServerTypeOK, TypeOK
  <1>4. BrokerInv'
    BY <1>1, <1>3, BrokerFrame DEF Respond, ServerInv
  <1>5. logged' \subseteq Request
    BY <1>1 DEF Respond, Audit, ServerInv, ServerTypeOK
  <1>6. ServerTypeOK'
    BY <1>1, <1>2, <1>4, <1>5
       DEF Closes, Respond, ServerInv, ServerTypeOK, BrokerInv
  <1>7. Linked(r)'
    <2>1. bpc[r] # "idle"
      BY <1>1 DEF Respond, ServerInv, Linked
    <2>2. res.status # 502 /\ result[r].revokeFailed => r \in logged'
      BY <1>1 DEF Respond, Audit
    <2> QED BY <1>1, <1>2, <1>3, <2>1, <2>2 DEF Closes, Respond, Linked
  <1>8. ASSUME NEW q \in Request \ {r} PROVE Linked(q)'
    <2>1. logged \subseteq logged'
      BY <1>1 DEF Respond, Audit
    <2> QED BY <1>1, <1>2, <1>3, <2>1, LinkFrame DEF Closes, Respond, ServerInv
  <1> QED BY <1>4, <1>6, <1>7, <1>8 DEF ServerInv

\* A client that leaves, or the deadline, ends the context and nothing else.
LEMMA ContextInv ==
    ASSUME ServerInv, NEW r \in Request, HangUp(r) \/ Deadline(r)
    PROVE  ServerInv'
  <1>1. /\ ctx' \in [Request -> {"live", "done"}]
        /\ \A q \in Request : ctx'[q] = ctx[q] \/ ctx'[q] = "done"
    BY DEF HangUp, Deadline, CtxDone, ServerInv, ServerTypeOK, TypeOK
  <1>2. /\ gone' \in [Request -> BOOLEAN]
        /\ \A q \in Request : gone[q] => gone'[q]
    BY DEF HangUp, Deadline, http, ServerInv, ServerTypeOK
  <1>3. UNCHANGED <<canaryOK, repo, bpc, token, kind, lease, result,
                    hpc, reply, received, logged>>
    BY DEF HangUp, Deadline, CtxDone, http
  <1>4. BrokerInv'
    BY <1>1, <1>3, BrokerFrame DEF ServerInv
  <1>5. ServerTypeOK'
    BY <1>2, <1>3, <1>4 DEF ServerInv, ServerTypeOK, BrokerInv
  <1>6. ASSUME NEW q \in Request PROVE Linked(q)'
    BY <1>1, <1>2, <1>3 DEF ServerInv, Linked
  <1> QED BY <1>4, <1>5, <1>6 DEF ServerInv

\* What a handler's step leaves to the server: the other requests, contexts,
\* and results already returned.
LEMMA HandleFrame ==
    ASSUME BrokerInv, NEW r \in Request, Handle(r)
    PROVE  /\ UNCHANGED <<canaryOK, repo, ctx>>
           /\ bpc[r] \notin {"idle", "done"} /\ bpc'[r] # "idle"
           /\ \A q \in Request \ {r} :
                 /\ bpc'[q] = bpc[q] /\ token'[q] = token[q] /\ kind'[q] = kind[q]
                 /\ lease'[q] = lease[q] /\ result'[q] = result[q]
  <1> USE DEF BrokerInv, TypeOK, Finish, Goto, Fail
  <1>1. CASE Gate(r)
    BY <1>1 DEF Gate
  <1>2. CASE \E t \in TokenTypes : MintOK(r, t)
    BY <1>2 DEF MintOK
  <1>3. CASE MintFails(r)
    BY <1>3 DEF MintFails
  <1>4. CASE ReadIdentity(r) \/ ReadIdentityFails(r)
    BY <1>4 DEF ReadIdentity, ReadIdentityFails
  <1>5. CASE ReadConfig(r) \/ ReadConfigFails(r)
    BY <1>5 DEF ReadConfig, ReadConfigFails
  <1>6. CASE SweepLeases(r) \/ SweepFails(r) \/ SweepOK(r)
    BY <1>6 DEF SweepLeases, SweepFails, SweepOK
  <1>7. CASE Revocation(r)
    BY <1>7 DEF Revocation, RevokeOK, RevokeFails, Revoked, Returned
  <1> QED BY <1>1, <1>2, <1>3, <1>4, <1>5, <1>6, <1>7 DEF Handle, Fallible

\* A step of the handler goroutine.
LEMMA HandlerStepInv ==
    ASSUME ServerInv, NEW r \in Request, HandlerStep(r)
    PROVE  ServerInv'
  <1>1. BrokerInv'
    BY HandleInv DEF HandlerStep, ServerInv
  <1>2. ServerTypeOK'
    BY <1>1 DEF HandlerStep, http, ServerInv, ServerTypeOK, BrokerInv
  <1>3. Linked(r)'
    BY HandleFrame DEF HandlerStep, http, ServerInv, Linked
  <1>4. ASSUME NEW q \in Request \ {r} PROVE Linked(q)'
    BY HandleFrame, LinkFrame DEF HandlerStep, http, ServerInv
  <1> QED BY <1>1, <1>2, <1>3, <1>4 DEF ServerInv

\* A verdict published by the session goroutine, or no step at all.
LEMMA VerdictInv ==
    ASSUME ServerInv, VerdictChanges \/ UNCHANGED serverVars
    PROVE  ServerInv'
  <1>1. BrokerInv'
    BY OutsideInv DEF VerdictChanges, serverVars, ServerInv
  <1>2. UNCHANGED <<http, ctx, bpc, result>>
    BY DEF VerdictChanges, CanaryFlips, serverVars, vars, http
  <1>3. ServerTypeOK'
    BY <1>1, <1>2 DEF http, ServerInv, ServerTypeOK, BrokerInv
  <1>4. ASSUME NEW q \in Request PROVE Linked(q)'
    BY <1>2, LinkFrame DEF http, ServerInv
  <1> QED BY <1>1, <1>3, <1>4 DEF ServerInv

\* ServerInv is inductive.
THEOREM ServerInvariant == ServerSpec => []ServerInv
  <1>1. ServerInit => ServerInv
    BY ServerInitInv
  <1>2. ServerInv /\ [ServerNext]_serverVars => ServerInv'
    BY RefuseInv, AcceptInv, RespondInv, ContextInv, HandlerStepInv, VerdictInv
       DEF ServerNext
  <1> QED BY <1>1, <1>2, PTL DEF ServerSpec

\* An end of a request's context, whoever brings it about, is Broker's own or
\* came before.
LEMMA ContextEnds ==
    ASSUME ServerInv, NEW r \in Request, ctx' = [ctx EXCEPT ![r] = "done"],
           UNCHANGED <<canaryOK, repo, bpc, token, kind, lease, result>>
    PROVE  CtxDone(r) \/ UNCHANGED vars
  <1>1. CASE ctx[r] = "live"
    BY <1>1 DEF CtxDone
  <1>2. CASE ctx[r] = "done"
    <2>1. ctx' = ctx
      BY <1>2 DEF ServerInv, ServerTypeOK, TypeOK
    <2> QED BY <2>1 DEF vars
  <1> QED BY <1>1, <1>2 DEF ServerInv, ServerTypeOK, TypeOK

\* The serving goroutine's steps, as Broker sees them.
LEMMA ServingImplements ==
    ASSUME ServerInv, NEW r \in Request,
           \/ Refuse(r) \/ Accept(r) \/ RespondResult(r) \/ RespondTimeout(r)
           \/ HangUp(r) \/ Deadline(r)
    PROVE  Begin(r) \/ CtxDone(r) \/ UNCHANGED vars
  <1>1. CASE Refuse(r)
    BY <1>1 DEF Refuse, vars
  <1>2. CASE Accept(r)
    BY <1>2 DEF Accept
  <1>3. CASE RespondResult(r) \/ RespondTimeout(r)
    BY <1>3, ContextEnds DEF RespondResult, RespondTimeout, Respond
  <1>4. CASE HangUp(r)
    BY <1>4, ContextEnds DEF HangUp
  <1>5. CASE Deadline(r)
    BY <1>5 DEF Deadline
  <1> QED BY <1>1, <1>2, <1>3, <1>4, <1>5

\* The server implements Broker: callHandler's goroutine is Handle, whatever
\* becomes of the goroutine that waits for it.
THEOREM ServerImplementsBroker == ServerSpec => KeepsBroker
  <1>1. ServerInit => Init
    BY DEF ServerInit
  <1>2. ServerInv /\ [ServerNext]_serverVars => [Next]_vars
    <2> SUFFICES ASSUME ServerInv, [ServerNext]_serverVars PROVE [Next]_vars
      OBVIOUS
    <2>1. CASE VerdictChanges
      BY <2>1 DEF VerdictChanges, Next
    <2>2. ASSUME NEW r \in Request, HandlerStep(r)
          PROVE  Next
      BY <2>2 DEF HandlerStep, Next
    <2>3. ASSUME NEW r \in Request,
                 \/ Refuse(r) \/ Accept(r) \/ RespondResult(r) \/ RespondTimeout(r)
                 \/ HangUp(r) \/ Deadline(r)
          PROVE  [Next]_vars
      BY <2>3, ServingImplements DEF Next
    <2>4. CASE UNCHANGED serverVars
      BY <2>4 DEF serverVars
    <2> QED BY <2>1, <2>2, <2>3, <2>4 DEF ServerNext
  <1> QED BY <1>1, <1>2, ServerInvariant, PTL DEF ServerSpec, Spec, KeepsBroker

\* Broker's promises are the server's: an answered request's handler still
\* revokes by its outcome, and serves only who is entitled.
THEOREM ServerKeepsPromises ==
    ServerSpec => [](RevokedByOutcome /\ ServedOnlyIfEntitled)
  BY ServerImplementsBroker, RevocationByOutcome, ServingNeedsEntitlement, PTL
     DEF KeepsBroker

\* A response that carries a token is never undercut by a revocation.
THEOREM OkRepliesAreEarned == ServerSpec => []RepliesAreEarned
  <1>1. ASSUME ServerInv, NEW r \in Request PROVE Earned(r)
    <2> SUFFICES ASSUME reply[r] = 200
                 PROVE /\ bpc[r] = "done" /\ result[r].status = 200
                       /\ token[r] = "live" /\ kind[r] = "service"
                       /\ lease[r] # "revoked"
      BY DEF Earned
    <2>1. bpc[r] = "done" /\ result[r].status = 200
      BY <1>1 DEF ServerInv, ServerTypeOK, Linked, Refusals
    <2>2. result[r].accessor
      BY <1>1, <2>1 DEF ServerInv, BrokerInv, Stage
    <2> QED BY <1>1, <2>1, <2>2
            DEF ServerInv, BrokerInv, Stage, CleanedUp, Entitled
  <1>2. ServerInv => RepliesAreEarned
    BY <1>1 DEF RepliesAreEarned
  <1> QED BY <1>2, ServerInvariant, PTL

\* The list of ways a token may outlive its request is complete.
THEOREM LiveTokensAreExplained == ServerSpec => []LiveTokensExplained
  <1>1. ASSUME ServerInv, NEW r \in Request PROVE Explained(r)
    <2> SUFFICES ASSUME bpc[r] = "done", hpc[r] = "closed", token[r] = "live"
                 PROVE  \/ received[r] /\ reply[r] = 200
                        \/ result[r].revokeFailed /\ (r \in logged \/ reply[r] = 502)
                        \/ result[r].status = 200 /\ (gone[r] \/ reply[r] = 502)
      BY DEF Explained
    <2>1. result[r].accessor
      BY <1>1 DEF ServerInv, BrokerInv, Stage
    <2>2. CASE result[r].status # 200
      <3>1. result[r].revokeFailed
        BY <1>1, <2>1, <2>2 DEF ServerInv, BrokerInv, Stage, CleanedUp
      <3>2. r \in logged \/ reply[r] = 502
        BY <1>1, <3>1 DEF ServerInv, Linked
      <3> QED BY <3>1, <3>2
    <2>3. CASE result[r].status = 200
      BY <1>1, <2>3 DEF ServerInv, Linked
    <2> QED BY <2>2, <2>3
  <1>2. ServerInv => LiveTokensExplained
    BY <1>1 DEF LiveTokensExplained
  <1> QED BY <1>2, ServerInvariant, PTL
=============================================================================
