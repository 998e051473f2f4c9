------------------------------ MODULE HttpApi -------------------------------
(***************************************************************************)
(* httpapi.Server: the goroutine that serves one POST, racing the handler  *)
(* goroutine it starts against the request's context.  The handler is      *)
(* Broker's Handle; when the context ends first the client gets a 502 and  *)
(* the handler is left to unwind by itself.                                *)
(***************************************************************************)
EXTENDS Broker

VARIABLES
    hpc,      \* the serving goroutine: idle, waiting in callHandler, closed
    gone,     \* the client has hung up
    reply,    \* the status written, 0 before
    received, \* the status reached the client
    logged    \* requests whose failed revocation was logged

http == <<hpc, gone, reply, received, logged>>
serverVars == <<vars, http>>

Refusals == {400, 401, 413}

ServerTypeOK ==
    /\ TypeOK
    /\ hpc \in [Request -> {"idle", "wait", "closed"}]
    /\ gone \in [Request -> BOOLEAN] /\ received \in [Request -> BOOLEAN]
    /\ reply \in [Request -> {0, 200, 204, 502} \cup Refusals]
    /\ logged \subseteq Request

ServerInit ==
    /\ Init
    /\ hpc = [r \in Request |-> "idle"]
    /\ gone = [r \in Request |-> FALSE]
    /\ reply = [r \in Request |-> 0]
    /\ received = [r \in Request |-> FALSE]
    /\ logged = {}

-----------------------------------------------------------------------------
(***************************************************************************)
(* handlePost.                                                             *)
(***************************************************************************)
Write(r, status) ==
    /\ reply' = [reply EXCEPT ![r] = status]
    /\ received' = [received EXCEPT ![r] = ~gone[r]]
    /\ hpc' = [hpc EXCEPT ![r] = "closed"]

\* Steps 1-4: an unreadable or oversized body, a bad signature, a payload
\* without an identity.
Refuse(r) ==
    /\ hpc[r] = "idle"
    /\ \E status \in Refusals : Write(r, status)
    /\ UNCHANGED <<canaryOK, repo, ctx, bpc, token, kind, lease, result, gone, logged>>

\* The request is accepted: its deadline starts and so does the handler.
Accept(r) ==
    /\ hpc[r] = "idle"
    /\ hpc' = [hpc EXCEPT ![r] = "wait"]
    /\ Begin(r)
    /\ UNCHANGED <<gone, reply, received, logged>>

\* Mutant: a failed revocation is logged with an error's answer only.
AuditErrors(r, res) ==
    logged' = logged \cup {q \in {r} : res.revokeFailed /\ res.status = 502}

\* auditVerified, of which only the line on a failed revocation is kept: it is
\* written as far as the result says so.
Audit(r, res) == logged' = logged \cup {q \in {r} : res.revokeFailed}

\* The result that callHandler makes up when the context is done.
Timeout == [status |-> 502, outcome |-> "error", secrets |-> {},
            accessor |-> FALSE, revokeFailed |-> FALSE]

\* Mutant: the handler returns through a variable that the timeout writes too.
RespondShared(r, res) ==
    /\ hpc[r] = "wait"
    /\ Write(r, res.status) /\ Audit(r, res)
    /\ ctx' = [ctx EXCEPT ![r] = "done"]
    /\ result' = [result EXCEPT ![r] = res]
    /\ UNCHANGED <<canaryOK, repo, bpc, token, kind, lease, gone>>

\* Mutant: the context is left to its deadline.
RespondUncancelled(r, res) ==
    /\ hpc[r] = "wait"
    /\ Write(r, res.status) /\ Audit(r, res)
    /\ UNCHANGED <<canaryOK, repo, ctx, bpc, token, kind, lease, result, gone>>

\* Render and audit what select chose; handlePost's deferred cancel ends the
\* request's context.
Respond(r, res) ==
    /\ hpc[r] = "wait"
    /\ Write(r, res.status) /\ Audit(r, res)
    /\ ctx' = [ctx EXCEPT ![r] = "done"]
    /\ UNCHANGED <<canaryOK, repo, bpc, token, kind, lease, result, gone>>

RespondResult(r) == bpc[r] = "done" /\ Respond(r, result[r])

\* Mutant: the goroutine waits for the handler only.
RespondNever(r) == FALSE /\ Respond(r, Timeout)

\* select is free to take this case even when a result is there as well.
RespondTimeout(r) == ctx[r] = "done" /\ Respond(r, Timeout)

\* The client hangs up, which cancels the request's context.
HangUp(r) ==
    /\ hpc[r] # "closed" /\ ~gone[r]
    /\ gone' = [gone EXCEPT ![r] = TRUE]
    /\ ctx' = [ctx EXCEPT ![r] = "done"]
    /\ UNCHANGED <<canaryOK, repo, bpc, token, kind, lease, result, hpc, reply,
                   received, logged>>

\* The 30s deadline, which starts with the handler.
Deadline(r) == bpc[r] # "idle" /\ CtxDone(r) /\ UNCHANGED http

HandlerStep(r) == Handle(r) /\ UNCHANGED http

VerdictChanges == CanaryFlips /\ UNCHANGED http

ServerNext ==
    \/ VerdictChanges
    \/ \E r \in Request :
        \/ Refuse(r) \/ Accept(r) \/ RespondResult(r) \/ RespondTimeout(r)
        \/ HangUp(r) \/ Deadline(r) \/ HandlerStep(r)

ServerSpec == ServerInit /\ [][ServerNext]_serverVars

\* The timer and the serving goroutine.
ServerFairness ==
    \A r \in Request : /\ WF_serverVars(Deadline(r))
                       /\ WF_serverVars(RespondResult(r) \/ RespondTimeout(r))

\* The handler: its own code runs, a call errors once the context is done,
\* and the revocation is bounded (Broker's Fairness).
HandlerFairness ==
    \A r \in Request :
        /\ WF_serverVars(Gate(r) /\ UNCHANGED http)
        /\ WF_serverVars(ctx[r] = "done" /\ Fallible(r) /\ UNCHANGED http)
        /\ WF_serverVars(Revocation(r) /\ UNCHANGED http)

FairServerSpec == ServerSpec /\ ServerFairness /\ HandlerFairness

-----------------------------------------------------------------------------
(***************************************************************************)
(* Properties.                                                             *)
(***************************************************************************)
\* Seen without its client and its serving goroutines, the server is Broker:
\* nothing they do, or leave undone, reaches into a handler except through
\* the end of its context, and an answered request's handler goes on as any.
KeepsBroker == Spec

\* The token that custody is about, as the server's state shows it.
CustodyOf(r) ==
    CASE token[r] = "none" -> "none"
      [] token[r] = "lost" -> "abandoned"
      [] token[r] = "revoked" -> "revoked"
      [] token[r] = "live" /\ reply[r] = 200 ->
            IF received[r] THEN "delivered" ELSE "abandoned"
      [] token[r] = "live" /\ reply[r] # 200 ->
            IF bpc[r] = "done" /\ (reply[r] # 0 \/ result[r].status # 200)
            THEN "abandoned" ELSE "held"

ReplyOf(r) ==
    IF reply[r] = 0 THEN "pending"
    ELSE IF reply[r] = 200 /\ received[r] THEN "ok" ELSE "refused"

Custody == INSTANCE TokenCustody WITH
    custody <- [r \in Request |-> CustodyOf(r)],
    reply <- [r \in Request |-> ReplyOf(r)]

\* The server keeps TokenCustody's promise: however the handler, the deadline
\* and the client race, a token is delivered, revoked or given up once, and
\* never revoked after it was delivered.
KeepsCustody == Custody!Spec

\* ... and nobody holds a token for ever, even if Vault stops answering: the
\* deadline ends the handler's call, and its own deadline the revocation.
SettlesCustody == Custody!Settles

\* A 200 is written only for a request whose handler returned it, with the
\* token and the leases behind it alive: neither the deadline nor a client
\* that hangs up gets them revoked under a response that carries them.
Earned(r) == reply[r] = 200 =>
    /\ bpc[r] = "done" /\ result[r].status = 200
    /\ token[r] = "live" /\ kind[r] = "service" /\ lease[r] # "revoked"

RepliesAreEarned == \A r \in Request : Earned(r)

\* The only live tokens Handle minted and nobody was given are those whose
\* revocation failed, and then the log says so unless the answer was a 502,
\* those whose 200 lost the race against the deadline, and those whose client
\* hung up before the write.  (Tokens of a mint whose answer was lost are not
\* among them, Handle never hears of those: see MintFailureMintsNothing.)
Explained(r) == bpc[r] = "done" /\ hpc[r] = "closed" /\ token[r] = "live" =>
    \/ received[r] /\ reply[r] = 200
    \/ result[r].revokeFailed /\ (r \in logged \/ reply[r] = 502)
    \/ result[r].status = 200 /\ (gone[r] \/ reply[r] = 502)

LiveTokensExplained == \A r \in Request : Explained(r)

\* How the serving goroutine and the handler it started are tied together.
Linked(r) ==
    /\ hpc[r] = "idle" <=> reply[r] = 0 /\ bpc[r] = "idle"
    /\ hpc[r] # "closed" => reply[r] = 0
    /\ hpc[r] = "closed" => /\ reply[r] # 0
                            /\ received[r] \/ gone[r]
                            /\ bpc[r] # "idle" => ctx[r] = "done"
    /\ hpc[r] = "closed" /\ bpc[r] # "idle" =>
          reply[r] = 502 \/ (bpc[r] = "done" /\ reply[r] = result[r].status)
    /\ hpc[r] = "closed" /\ bpc[r] = "idle" => reply[r] \in Refusals
    /\ hpc[r] = "closed" /\ bpc[r] = "done" /\ reply[r] # 502 /\ result[r].revokeFailed
          => r \in logged

ServerInv == ServerTypeOK /\ BrokerInv /\ \A r \in Request : Linked(r)

\* "every non-200 response revokes the minted token; a 200 never does"
Non200Revokes ==
    \A r \in Request :
        received[r] /\ reply[r] \in {204, 502} /\ bpc[r] = "done" /\ result[r].accessor
            => token[r] = "revoked" \/ result[r].revokeFailed
=============================================================================
