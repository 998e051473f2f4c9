--------------------------- MODULE Custody_proofs ---------------------------
(***************************************************************************)
(* The server implements TokenCustody: every step of ServerSpec, seen      *)
(* through CustodyOf and ReplyOf, is one step of the abstract custody of   *)
(* one request's token, or no step of it.                                  *)
(***************************************************************************)
EXTENDS HttpApi_proofs

\* The abstract variables, as functions of the server's state.
custodies == [r \in Request |-> CustodyOf(r)]
replies   == [r \in Request |-> ReplyOf(r)]

\* A function that differs from another at one point at most is an EXCEPT of it.
LEMMA OnePoint ==
    ASSUME NEW S, NEW f, NEW g, NEW r \in S, NEW x,
           f = [s \in S |-> f[s]], g = [s \in S |-> g[s]], g[r] = x,
           \A s \in S \ {r} : g[s] = f[s]
    PROVE  g = [f EXCEPT ![r] = x]
  OBVIOUS

\* custodies and replies are functions on the requests, before and after a step.
LEMMA Functional ==
    /\ custodies = [s \in Request |-> custodies[s]]
    /\ custodies' = [s \in Request |-> custodies'[s]]
    /\ replies = [s \in Request |-> replies[s]]
    /\ replies' = [s \in Request |-> replies'[s]]
    /\ \A s \in Request : custodies[s] = CustodyOf(s) /\ replies[s] = ReplyOf(s)
  BY DEF custodies, replies

\* What custody reads of a request.
LEMMA CustodyFrame ==
    ASSUME NEW q \in Request, token'[q] = token[q], reply'[q] = reply[q],
           received'[q] = received[q], bpc'[q] = bpc[q], result'[q] = result[q]
    PROVE  custodies'[q] = custodies[q] /\ replies'[q] = replies[q]
  <1>1. CustodyOf(q)' = CustodyOf(q) /\ ReplyOf(q)' = ReplyOf(q)
    BY Zenon DEF CustodyOf, ReplyOf
  <1> QED BY <1>1 DEF custodies, replies

\* The moves of a token whose client is told nothing in the same step.
Moves(r) ==
    \/ custodies'[r] = custodies[r]
    \/ custodies[r] = "none" /\ custodies'[r] = "held" /\ replies[r] = "pending"
    \/ custodies[r] = "none" /\ custodies'[r] = "abandoned"
    \/ custodies[r] = "held" /\ custodies'[r] \in {"revoked", "abandoned"}

\* The moves of a token whose client is answered in the same step.
Answers(r) ==
    /\ replies[r] = "pending"
    /\ \/ /\ replies'[r] = "refused"
          /\ \/ custodies'[r] = custodies[r]
             \/ custodies[r] = "held" /\ custodies'[r] = "abandoned"
       \/ /\ replies'[r] = "ok"
          /\ custodies[r] = "held" /\ custodies'[r] = "delivered"

\* Each move without an answer is an action of TokenCustody, or a stutter.
LEMMA MovesImplement ==
    ASSUME NEW r \in Request, Moves(r), replies' = replies,
           \A q \in Request \ {r} : custodies'[q] = custodies[q]
    PROVE  [Custody!Next]_(Custody!vars)
  <1>1. custodies' = [custodies EXCEPT ![r] = custodies'[r]]
    BY OnePoint, Functional
  <1>2. CASE custodies'[r] = custodies[r]
    <2>1. custodies' = custodies
      BY <1>2, Functional
    <2> QED BY <2>1 DEF Custody!vars, custodies, replies
  <1>3. CASE custodies[r] = "none" /\ custodies'[r] = "held" /\ replies[r] = "pending"
    <2>1. Custody!Mint(r)
      BY <1>1, <1>3 DEF Custody!Mint, Custody!Move, custodies, replies
    <2> QED BY <2>1 DEF Custody!Next
  <1>4. CASE custodies[r] = "none" /\ custodies'[r] = "abandoned"
    <2>1. Custody!Lose(r)
      BY <1>1, <1>4 DEF Custody!Lose, Custody!Move, custodies, replies
    <2> QED BY <2>1 DEF Custody!Next
  <1>5. CASE custodies[r] = "held" /\ custodies'[r] \in {"revoked", "abandoned"}
    <2>1. Custody!Revoke(r) \/ Custody!Abandon(r)
      BY <1>1, <1>5
         DEF Custody!Revoke, Custody!Abandon, Custody!Move, custodies, replies
    <2> QED BY <2>1 DEF Custody!Next
  <1> QED BY <1>2, <1>3, <1>4, <1>5 DEF Moves

\* Each move with an answer is Deliver or Refuse.
LEMMA AnswersImplement ==
    ASSUME NEW r \in Request, Answers(r),
           \A q \in Request \ {r} :
              custodies'[q] = custodies[q] /\ replies'[q] = replies[q]
    PROVE  Custody!Next
  <1>1. /\ custodies' = [custodies EXCEPT ![r] = custodies'[r]]
        /\ replies' = [replies EXCEPT ![r] = replies'[r]]
    BY OnePoint, Functional
  <1>2. CASE /\ replies[r] = "pending" /\ replies'[r] = "refused"
             /\ custodies'[r] = custodies[r]
    <2>1. custodies' = custodies
      BY <1>2, Functional
    <2>2. Custody!Refuse(r)
      BY <1>1, <1>2, <2>1 DEF Custody!Refuse, Custody!Answer, custodies, replies
    <2> QED BY <2>2 DEF Custody!Next
  <1>3. CASE /\ replies[r] = "pending" /\ replies'[r] = "refused"
             /\ custodies[r] = "held" /\ custodies'[r] = "abandoned"
    <2>1. Custody!Refuse(r)
      BY <1>1, <1>3
         DEF Custody!Refuse, Custody!Answer, Custody!Move, custodies, replies
    <2> QED BY <2>1 DEF Custody!Next
  <1>4. CASE /\ replies[r] = "pending" /\ replies'[r] = "ok"
             /\ custodies[r] = "held" /\ custodies'[r] = "delivered"
    <2>1. Custody!Deliver(r)
      BY <1>1, <1>4
         DEF Custody!Deliver, Custody!Answer, Custody!Move, custodies, replies
    <2> QED BY <2>1 DEF Custody!Next
  <1> QED BY <1>2, <1>3, <1>4 DEF Answers

-----------------------------------------------------------------------------
\* What custody is of a live token, of one that is not, and of an answer.
LEMMA CustodyCases ==
    ASSUME NEW r \in Request
    PROVE  /\ token[r] = "none" => CustodyOf(r) = "none"
           /\ token[r] = "lost" => CustodyOf(r) = "abandoned"
           /\ token[r] = "revoked" => CustodyOf(r) = "revoked"
           /\ token[r] = "live" /\ reply[r] = 200 =>
                 CustodyOf(r) = IF received[r] THEN "delivered" ELSE "abandoned"
           /\ token[r] = "live" /\ reply[r] # 200 =>
                 CustodyOf(r) = IF bpc[r] = "done"
                                   /\ (reply[r] # 0 \/ result[r].status # 200)
                                THEN "abandoned" ELSE "held"
  BY Zenon DEF CustodyOf

\* The same, of the state after a step.
LEMMA CustodyCasesNext ==
    ASSUME NEW r \in Request
    PROVE  /\ token'[r] = "none" => custodies'[r] = "none"
           /\ token'[r] = "lost" => custodies'[r] = "abandoned"
           /\ token'[r] = "revoked" => custodies'[r] = "revoked"
           /\ token'[r] = "live" /\ reply'[r] = 200 =>
                 custodies'[r] = IF received'[r] THEN "delivered" ELSE "abandoned"
           /\ token'[r] = "live" /\ reply'[r] # 200 =>
                 custodies'[r] = IF bpc'[r] = "done"
                                   /\ (reply'[r] # 0 \/ result'[r].status # 200)
                                 THEN "abandoned" ELSE "held"
  <1>1. custodies'[r] = CustodyOf(r)'
    BY DEF custodies
  <1> QED BY <1>1, Zenon DEF CustodyOf

\* While the handler runs, its request has not been answered with a 200.
LEMMA RunningNotOk ==
    ASSUME ServerInv, NEW r \in Request, bpc[r] # "done", bpc[r] # "idle"
    PROVE  /\ reply[r] # 200
           /\ ctx[r] = "live" => reply[r] = 0
  BY DEF ServerInv, ServerTypeOK, Linked, Refusals

\* The calls before the revocation create the token, lose it, or leave it held.
LEMMA MintMoves ==
    ASSUME ServerInv, NEW r \in Request, UNCHANGED http,
           Gate(r) \/ (\E t \in TokenTypes : MintOK(r, t)) \/ MintFails(r)
    PROVE  Moves(r)
  <1>1. bpc[r] \in {"gate", "mint"} /\ token[r] = "none" /\ custodies[r] = "none"
    BY CustodyCases, Functional
       DEF Gate, MintOK, MintFails, ServerInv, BrokerInv, Stage
  <1>2. CASE Gate(r) \/ MintFails(r)
    <2>1. token'[r] \in {"none", "lost"}
      BY <1>1, <1>2 DEF Gate, MintFails, ServerInv, BrokerInv, TypeOK
    <2> QED BY <1>1, <2>1, CustodyCasesNext DEF Moves
  <1>3. ASSUME NEW t \in TokenTypes, MintOK(r, t) PROVE Moves(r)
    <2>1. token'[r] = "live" /\ reply[r] = 0 /\ reply'[r] = 0
      BY <1>1, <1>3, RunningNotOk DEF MintOK, http, ServerInv, BrokerInv, TypeOK
    <2>2. bpc'[r] \in {"revoke", "identity"}
      BY <1>3 DEF MintOK, Finish, Goto, ServerInv, BrokerInv, TypeOK
    <2>3. custodies'[r] = "held"
      BY <2>1, <2>2, CustodyCasesNext
    <2>4. replies[r] = "pending"
      BY <2>1 DEF replies, ReplyOf
    <2> QED BY <1>1, <2>3, <2>4 DEF Moves
  <1> QED BY <1>2, <1>3

\* Up to the end of the sweep the token stays held, whatever fails.
LEMMA SweepMoves ==
    ASSUME ServerInv, NEW r \in Request, UNCHANGED http,
           \/ ReadIdentity(r) \/ ReadIdentityFails(r)
           \/ ReadConfig(r) \/ ReadConfigFails(r)
           \/ SweepLeases(r) \/ SweepOK(r) \/ SweepFails(r)
    PROVE  Moves(r)
  <1>1. bpc[r] \in {"identity", "config", "sweep"}
    BY DEF ReadIdentity, ReadIdentityFails, ReadConfig, ReadConfigFails,
           SweepLeases, SweepOK, SweepFails
  <1>2. token[r] = "live" /\ token'[r] = "live"
    BY <1>1 DEF ServerInv, BrokerInv, Stage, ReadIdentity, ReadIdentityFails,
       ReadConfig, ReadConfigFails, SweepLeases, SweepOK, SweepFails
  <1>3. reply[r] # 200 /\ reply'[r] = reply[r]
    BY <1>1, RunningNotOk DEF http
  <1>4. custodies[r] = "held"
    BY <1>1, <1>2, <1>3, CustodyCases, Functional
  <1>5. \/ bpc'[r] # "done"
        \/ reply[r] = 0 /\ result'[r].status = 200
    <2>1. CASE SweepOK(r)
      BY <1>1, <2>1, RunningNotOk
         DEF SweepOK, Finish, ServerInv, BrokerInv, TypeOK
    <2>2. CASE SweepLeases(r)
      BY <1>1, <2>2 DEF SweepLeases
    <2>3. CASE ReadIdentity(r) \/ ReadIdentityFails(r)
      BY <2>3 DEF ReadIdentity, ReadIdentityFails, Goto, Finish,
         ServerInv, BrokerInv, TypeOK
    <2>4. CASE ReadConfig(r) \/ ReadConfigFails(r)
      BY <2>4 DEF ReadConfig, ReadConfigFails, Goto, Finish,
         ServerInv, BrokerInv, TypeOK
    <2>5. CASE SweepFails(r)
      BY <2>5 DEF SweepFails, Finish, ServerInv, BrokerInv, TypeOK
    <2> QED BY <2>1, <2>2, <2>3, <2>4, <2>5
  <1>6. custodies'[r] = "held"
    BY <1>2, <1>3, <1>5, CustodyCasesNext
  <1> QED BY <1>4, <1>6 DEF Moves

\* The deferred revocation revokes the token or gives it up.
LEMMA RevocationMoves ==
    ASSUME ServerInv, NEW r \in Request, UNCHANGED http, Revocation(r)
    PROVE  Moves(r)
  <1>1. bpc[r] = "revoke" /\ bpc'[r] = "done"
    BY DEF Revocation, RevokeOK, RevokeFails, Returned, ServerInv, BrokerInv, TypeOK
  <1>2. token[r] = "live" /\ result[r].status \in {204, 502}
    BY <1>1 DEF ServerInv, BrokerInv, Stage
  <1>3. reply[r] # 200 /\ reply'[r] = reply[r]
    BY <1>1, RunningNotOk DEF http
  <1>4. custodies[r] = "held"
    BY <1>1, <1>2, <1>3, CustodyCases, Functional
  <1>5. token'[r] = "revoked" \/ token'[r] = "live"
    BY <1>2 DEF Revocation, RevokeOK, RevokeFails, Revoked,
       ServerInv, BrokerInv, TypeOK
  <1>6. result'[r].status = result[r].status
    <2>1. result[r] \in Result
      BY DEF ServerInv, BrokerInv, TypeOK
    <2> QED BY <2>1 DEF Revocation, RevokeOK, RevokeFails, Result,
               ServerInv, BrokerInv, TypeOK
  <1>7. custodies'[r] \in {"revoked", "abandoned"}
    <2>1. result'[r].status # 200
      BY <1>2, <1>6
    <2> QED BY <1>1, <1>3, <1>5, <2>1, CustodyCasesNext
  <1> QED BY <1>4, <1>7 DEF Moves

\* A handler's step moves its own token only, and answers nobody.
LEMMA HandlerImplements ==
    ASSUME ServerInv, NEW r \in Request, HandlerStep(r)
    PROVE  [Custody!Next]_(Custody!vars)
  <1>1. Moves(r)
    BY MintMoves, SweepMoves, RevocationMoves DEF HandlerStep, Handle, Fallible
  <1>2. replies' = replies
    BY DEF HandlerStep, http, replies, ReplyOf
  <1>3. ASSUME NEW q \in Request \ {r} PROVE custodies'[q] = custodies[q]
    BY HandleFrame, CustodyFrame DEF HandlerStep, http, ServerInv
  <1> QED BY <1>1, <1>2, <1>3, MovesImplement

-----------------------------------------------------------------------------
\* A written response answers its request and leaves the others alone.
LEMMA RespondImplements ==
    ASSUME ServerInv, NEW r \in Request, RespondResult(r) \/ RespondTimeout(r)
    PROVE  Custody!Next
  <1>1. PICK res \in {result[r], Timeout} :
            /\ Respond(r, res) /\ res.status \in {200, 204, 502}
            /\ \/ res.status = 502
               \/ bpc[r] = "done" /\ res.status = result[r].status
    BY ResultStatus DEF RespondResult, RespondTimeout, Timeout, ServerInv
  <1>2. Closes(r, res.status) /\ UNCHANGED <<token, bpc, result>>
    BY <1>1, WriteCloses DEF Respond
  <1>3. reply[r] = 0 /\ reply'[r] = res.status /\ bpc[r] # "idle"
    BY <1>1, <1>2 DEF Respond, Closes, ServerInv, Linked
  <1>4. replies[r] = "pending"
    BY <1>3 DEF replies, ReplyOf
  <1>5. Answers(r)
    <2>1. CASE res.status # 200
      <3>1. replies'[r] = "refused"
        BY <1>1, <1>3, <2>1 DEF replies, ReplyOf
      <3>2. CASE token[r] # "live"
        <4>1. token[r] \in {"none", "lost", "revoked"} /\ token'[r] = token[r]
          BY <1>2, <3>2 DEF ServerInv, ServerTypeOK, TypeOK
        <4>2. custodies'[r] = custodies[r]
          BY <4>1, CustodyCases, CustodyCasesNext, Functional
        <4> QED BY <1>4, <3>1, <4>2 DEF Answers
      <3>3. CASE token[r] = "live"
        <4>1. custodies[r] \in {"held", "abandoned"}
          BY <1>3, <3>3, CustodyCases, Functional
        <4>2. custodies'[r] = IF bpc[r] = "done" THEN "abandoned" ELSE "held"
          BY <1>1, <1>2, <1>3, <2>1, <3>3, CustodyCasesNext
        <4>3. bpc[r] # "done" => custodies[r] = "held"
          BY <1>3, <3>3, CustodyCases, Functional
        <4> QED BY <1>4, <3>1, <4>1, <4>2, <4>3 DEF Answers
      <3> QED BY <3>2, <3>3
    <2>2. CASE res.status = 200
      <3>1. bpc[r] = "done" /\ result[r].status = 200
        BY <1>1, <2>2
      <3>2. token[r] = "live" /\ token'[r] = "live"
        BY <1>2, <3>1 DEF ServerInv, BrokerInv, Stage, CleanedUp
      <3>3. custodies[r] = "held"
        BY <1>3, <3>1, <3>2, CustodyCases, Functional
      <3>4. custodies'[r] = IF received'[r] THEN "delivered" ELSE "abandoned"
        BY <1>3, <2>2, <3>2, CustodyCasesNext
      <3>5. replies'[r] = IF received'[r] THEN "ok" ELSE "refused"
        BY <1>3, <2>2 DEF replies, ReplyOf
      <3> QED BY <1>4, <3>3, <3>4, <3>5 DEF Answers
    <2> QED BY <2>1, <2>2
  <1>6. ASSUME NEW q \in Request \ {r}
        PROVE  custodies'[q] = custodies[q] /\ replies'[q] = replies[q]
    BY <1>2, CustodyFrame DEF Closes
  <1> QED BY <1>5, <1>6, AnswersImplement

\* A request refused by the signature or payload checks has no token.
LEMMA RefuseImplements ==
    ASSUME ServerInv, NEW r \in Request, Refuse(r)
    PROVE  Custody!Next
  <1>1. PICK status \in Refusals : Write(r, status)
    BY DEF Refuse
  <1>2. Closes(r, status) /\ UNCHANGED <<token, bpc, result>>
    BY <1>1, WriteCloses DEF Refuse
  <1>3. bpc[r] = "idle" /\ reply[r] = 0 /\ reply'[r] = status
    BY <1>2 DEF Refuse, Closes, ServerInv, Linked
  <1>4. token[r] = "none" /\ token'[r] = "none"
    BY <1>2, <1>3 DEF ServerInv, BrokerInv, Stage
  <1>5. custodies'[r] = custodies[r]
    BY <1>4, CustodyCases, CustodyCasesNext, Functional
  <1>6. replies[r] = "pending" /\ replies'[r] = "refused"
    BY <1>3 DEF replies, ReplyOf, Refusals
  <1>7. ASSUME NEW q \in Request \ {r}
        PROVE  custodies'[q] = custodies[q] /\ replies'[q] = replies[q]
    BY <1>2, CustodyFrame DEF Closes
  <1> QED BY <1>5, <1>6, <1>7, AnswersImplement DEF Answers

\* The other steps of the server change nothing custody is read from.
LEMMA OthersStutter ==
    ASSUME ServerInv,
           \/ VerdictChanges \/ UNCHANGED serverVars
           \/ \E r \in Request : Accept(r) \/ HangUp(r) \/ Deadline(r)
    PROVE  UNCHANGED Custody!vars
  <1>1. UNCHANGED <<token, reply, received, result>>
    BY DEF VerdictChanges, CanaryFlips, serverVars, vars, http,
           Accept, Begin, Goto, HangUp, Deadline, CtxDone
  <1>2. ASSUME NEW q \in Request
        PROVE  custodies'[q] = custodies[q] /\ replies'[q] = replies[q]
    <2>1. CASE bpc'[q] = bpc[q]
      BY <1>1, <2>1, CustodyFrame
    <2>2. CASE bpc'[q] # bpc[q]
      <3>1. bpc[q] = "idle"
        BY <2>2 DEF VerdictChanges, CanaryFlips, serverVars, vars,
           Accept, Begin, Goto, HangUp, Deadline, CtxDone,
           ServerInv, BrokerInv, TypeOK
      <3>2. token[q] = "none" /\ token'[q] = "none"
        BY <1>1, <3>1 DEF ServerInv, BrokerInv, Stage
      <3>3. custodies'[q] = custodies[q]
        BY <3>2, CustodyCases, CustodyCasesNext, Functional
      <3>4. replies'[q] = replies[q]
        BY <1>1 DEF replies, ReplyOf
      <3> QED BY <3>3, <3>4
    <2> QED BY <2>1, <2>2
  <1>3. custodies' = custodies /\ replies' = replies
    BY <1>2, Functional
  <1> QED BY <1>3 DEF Custody!vars, custodies, replies

\* No token and no answer at the start.
LEMMA InitImplements == ServerInit => Custody!Init
  <1> SUFFICES ASSUME ServerInit PROVE Custody!Init
    OBVIOUS
  <1>1. ASSUME NEW r \in Request
        PROVE  custodies[r] = "none" /\ replies[r] = "pending"
    BY CustodyCases, Functional DEF ServerInit, Init, replies, ReplyOf
  <1> QED BY <1>1, Functional DEF Custody!Init, custodies, replies

\* Whatever the handler, the deadline and the client do, and in whatever
\* order, the token of every request is accounted for as TokenCustody says.
THEOREM ServerKeepsCustody == ServerSpec => KeepsCustody
  <1>1. ServerInit => Custody!Init
    BY InitImplements
  <1>2. ServerInv /\ [ServerNext]_serverVars => [Custody!Next]_(Custody!vars)
    <2> SUFFICES ASSUME ServerInv, [ServerNext]_serverVars
                 PROVE  [Custody!Next]_(Custody!vars)
      OBVIOUS
    <2>1. ASSUME NEW r \in Request, HandlerStep(r)
          PROVE  [Custody!Next]_(Custody!vars)
      BY <2>1, HandlerImplements
    <2>2. ASSUME NEW r \in Request,
                 Refuse(r) \/ RespondResult(r) \/ RespondTimeout(r)
          PROVE  Custody!Next
      BY <2>2, RefuseImplements, RespondImplements
    <2>3. CASE \/ VerdictChanges \/ UNCHANGED serverVars
               \/ \E r \in Request : Accept(r) \/ HangUp(r) \/ Deadline(r)
      BY <2>3, OthersStutter
    <2> QED BY <2>1, <2>2, <2>3 DEF ServerNext
  <1> QED BY <1>1, <1>2, ServerInvariant, PTL DEF ServerSpec, KeepsCustody, Custody!Spec

\* A client was told that it has the token exactly if it has it, and then the
\* token is alive: no other goroutine took it back before or after the write.
THEOREM OkMeansDelivered == ServerSpec => []Custody!DeliveredMeansOk
  <1>1. ASSUME ServerTypeOK, RepliesAreEarned, NEW r \in Request
        PROVE  custodies[r] = "delivered" <=> replies[r] = "ok"
    <2>1. token[r] \in {"none", "lost", "live", "revoked"}
      BY <1>1 DEF ServerTypeOK, TypeOK
    <2>2. CASE reply[r] = 200
      <3>1. token[r] = "live"
        BY <1>1, <2>2 DEF RepliesAreEarned, Earned
      <3>2. custodies[r] = IF received[r] THEN "delivered" ELSE "abandoned"
        BY <2>2, <3>1, CustodyCases, Functional
      <3>3. replies[r] = IF received[r] THEN "ok" ELSE "refused"
        BY <2>2 DEF replies, ReplyOf
      <3> QED BY <3>2, <3>3
    <2>3. CASE reply[r] # 200
      <3>1. custodies[r] # "delivered"
        BY <2>1, <2>3, CustodyCases, Functional
      <3>2. replies[r] # "ok"
        BY <2>3 DEF replies, ReplyOf
      <3> QED BY <3>1, <3>2
    <2> QED BY <2>2, <2>3
  <1>2. ServerInv /\ RepliesAreEarned => Custody!DeliveredMeansOk
    BY <1>1 DEF ServerInv, Custody!DeliveredMeansOk, custodies, replies
  <1> QED BY <1>2, ServerInvariant, OkRepliesAreEarned, PTL
=============================================================================
