---------------------------- MODULE Broker_proofs ---------------------------
(***************************************************************************)
(* Handle's two promises for every number of requests, every repository    *)
(* and every set of Vault calls that may fail: what it returns decides     *)
(* what happened to the token, and nothing is served to a request that is  *)
(* not entitled to it.  BrokerInv is the inductive invariant.              *)
(***************************************************************************)
EXTENDS Broker, TLAPS

\* A request nothing happened to stays where it was.
LEMMA Frame ==
    ASSUME NEW r \in Request, Stage(r),
           repo'[r] = repo[r], bpc'[r] = bpc[r], token'[r] = token[r],
           kind'[r] = kind[r], lease'[r] = lease[r], result'[r] = result[r]
    PROVE  Stage(r)'
  BY DEF Stage, CleanedUp, Entitled, Bound, Flat, NoResult, VaultAddr, VaultToken

\* A step of one request touches no other request's state.
LEMMA OneRequest ==
    ASSUME BrokerInv, TypeOK', NEW r \in Request, Stage(r)',
           \A q \in Request \ {r} :
              /\ repo'[q] = repo[q] /\ bpc'[q] = bpc[q]
              /\ token'[q] = token[q] /\ kind'[q] = kind[q]
              /\ lease'[q] = lease[q] /\ result'[q] = result[q]
    PROVE  BrokerInv'
  <1>1. ASSUME NEW q \in Request \ {r} PROVE Stage(q)'
    BY Frame DEF BrokerInv
  <1> QED BY <1>1 DEF BrokerInv

\* Handle has not begun on any request.
LEMMA InitInv == Init => BrokerInv
  BY DEF Init, BrokerInv, TypeOK, BPC, Result, Secret, NoResult, Stage,
         CleanedUp, Entitled, VaultAddr

\* What finish leaves behind, for a return that serves nothing.
LEMMA FinishRefused ==
    ASSUME BrokerInv, NEW r \in Request,
           NEW status \in {204, 502},
           NEW outcome \in {"unonboarded", "identity_mismatch", "error"},
           Finish(r, status, outcome, {})
    PROVE  /\ result' \in [Request -> Result] /\ bpc' \in [Request -> BPC]
           /\ bpc'[r] = "revoke" /\ result'[r].accessor
           /\ result'[r].status = status /\ result'[r].secrets = {}
           /\ \A q \in Request \ {r} : result'[q] = result[q] /\ bpc'[q] = bpc[q]
  BY DEF BrokerInv, TypeOK, Finish, Result, BPC

\* A step to the next call changes where Handle is and nothing else.
LEMMA GotoNext ==
    ASSUME BrokerInv, NEW r \in Request, NEW step \in BPC, Goto(r, step)
    PROVE  /\ result' = result /\ bpc' \in [Request -> BPC] /\ bpc'[r] = step
           /\ \A q \in Request \ {r} : bpc'[q] = bpc[q]
  BY DEF BrokerInv, TypeOK, Goto

\* The server hands a request over to Handle.
LEMMA BeginInv ==
    ASSUME BrokerInv, NEW r \in Request, Begin(r)
    PROVE  BrokerInv'
  <1>1. TypeOK'
    BY GotoNext DEF Begin, BrokerInv, TypeOK, BPC
  <1>2. Stage(r)'
    BY GotoNext DEF Begin, BrokerInv, Stage, CleanedUp, Entitled, BPC, NoResult
  <1> QED BY <1>1, <1>2, OneRequest, GotoNext DEF Begin, BPC

\* Every refusal after the mint goes to the revocation with its token alive.
LEMMA RefusalInv ==
    ASSUME BrokerInv, NEW r \in Request,
           bpc[r] \in {"identity", "config", "sweep"},
           NEW status \in {204, 502},
           NEW outcome \in {"unonboarded", "identity_mismatch", "error"},
           Finish(r, status, outcome, {}),
           UNCHANGED <<canaryOK, repo, ctx, token, kind, lease>>
    PROVE  BrokerInv'
  <1>1. TypeOK'
    BY FinishRefused DEF BrokerInv, TypeOK
  <1>2. Stage(r)'
    BY FinishRefused DEF BrokerInv, Stage, CleanedUp, Entitled, NoResult
  <1> QED BY <1>1, <1>2, OneRequest, FinishRefused

\* A step on to the next call keeps what the previous ones established.
LEMMA AdvanceInv ==
    ASSUME BrokerInv, NEW r \in Request, NEW step \in {"config", "sweep"},
           \/ bpc[r] = "identity" /\ step = "config" /\ Bound(r)
           \/ bpc[r] = "config" /\ step = "sweep" /\ Flat(r),
           Goto(r, step),
           UNCHANGED <<canaryOK, repo, ctx, token, kind, lease>>
    PROVE  BrokerInv'
  <1>1. TypeOK'
    BY GotoNext DEF BrokerInv, TypeOK, BPC
  <1>2. Stage(r)'
    BY GotoNext DEF BrokerInv, Stage, CleanedUp, Entitled, NoResult, BPC, Bound, Flat
  <1> QED BY <1>1, <1>2, OneRequest, GotoNext DEF BPC

\* What Fail leaves behind.
LEMMA FailReturns ==
    ASSUME BrokerInv, NEW r \in Request, Fail(r)
    PROVE  /\ result' \in [Request -> Result] /\ bpc' \in [Request -> BPC]
           /\ bpc'[r] = "done" /\ ~result'[r].accessor
           /\ result'[r].status = 502 /\ result'[r].secrets = {}
           /\ \A q \in Request \ {r} : result'[q] = result[q] /\ bpc'[q] = bpc[q]
  <1> DEFINE failed == [NoResult EXCEPT !.status = 502, !.outcome = "error"]
  <1>1. failed \in Result /\ ~failed.accessor /\ failed.status = 502
        /\ failed.secrets = {}
    BY DEF NoResult, Result
  <1>2. result' = [result EXCEPT ![r] = failed]
    BY DEF Fail
  <1>3. /\ bpc' \in [Request -> BPC] /\ bpc'[r] = "done"
        /\ \A q \in Request \ {r} : bpc'[q] = bpc[q]
    BY DEF BrokerInv, TypeOK, Fail, BPC
  <1> HIDE DEF failed
  <1>4. /\ result' \in [Request -> Result] /\ result'[r] = failed
        /\ \A q \in Request \ {r} : result'[q] = result[q]
    BY <1>1, <1>2 DEF BrokerInv, TypeOK
  <1> QED BY <1>1, <1>3, <1>4

\* The gate refuses before there is a token, or lets the request on.
LEMMA GateInv ==
    ASSUME BrokerInv, NEW r \in Request, Gate(r)
    PROVE  BrokerInv'
  <1>1. CASE Fail(r)
    <2>1. TypeOK'
      BY <1>1, FailReturns DEF Gate, BrokerInv, TypeOK
    <2>2. Stage(r)'
      BY <1>1, FailReturns DEF Gate, BrokerInv, Stage, CleanedUp, Entitled
    <2> QED BY <1>1, <2>1, <2>2, OneRequest, FailReturns DEF Gate
  <1>2. CASE Goto(r, "mint")
    <2>1. TypeOK'
      BY <1>2, GotoNext DEF Gate, BrokerInv, TypeOK, BPC
    <2>2. Stage(r)'
      BY <1>2, GotoNext DEF Gate, BrokerInv, Stage, CleanedUp, Entitled, BPC, NoResult
    <2> QED BY <1>2, <2>1, <2>2, OneRequest, GotoNext DEF Gate, BPC
  <1> QED BY <1>1, <1>2 DEF Gate

\* The mint: an unwanted token goes straight to its revocation.
LEMMA MintOKInv ==
    ASSUME BrokerInv, NEW r \in Request, NEW t \in TokenTypes, MintOK(r, t)
    PROVE  BrokerInv'
  <1>1. /\ token' \in [Request -> {"none", "lost", "live", "revoked"}]
        /\ kind' \in [Request -> {"none"} \cup TokenTypes]
        /\ token'[r] = "live" /\ kind'[r] = t
        /\ \A q \in Request \ {r} : token'[q] = token[q] /\ kind'[q] = kind[q]
    BY DEF MintOK, BrokerInv, TypeOK
  <1>2. ASSUME NEW status \in {204, 502},
               NEW outcome \in {"unonboarded", "identity_mismatch", "error"},
               Finish(r, status, outcome, {})
        PROVE  BrokerInv'
    <2>1. TypeOK'
      BY <1>1, <1>2, FinishRefused DEF MintOK, BrokerInv, TypeOK
    <2>2. Stage(r)'
      BY <1>1, <1>2, FinishRefused
         DEF MintOK, BrokerInv, Stage, CleanedUp, Entitled, NoResult
    <2> QED BY <1>1, <1>2, <2>1, <2>2, OneRequest, FinishRefused DEF MintOK
  <1>3. CASE t = "service" /\ ~AllWarned(r) /\ Goto(r, "identity")
    <2>1. TypeOK'
      BY <1>1, <1>3, GotoNext DEF MintOK, BrokerInv, TypeOK, BPC
    <2>2. Stage(r)'
      BY <1>1, <1>3, GotoNext
         DEF MintOK, BrokerInv, Stage, CleanedUp, Entitled, NoResult, BPC, AllWarned
    <2> QED BY <1>1, <1>3, <2>1, <2>2, OneRequest, GotoNext DEF MintOK, BPC
  <1> QED BY <1>2, <1>3 DEF MintOK

\* A failed mint leaves nothing, or a token Handle never hears of.
LEMMA MintFailsInv ==
    ASSUME BrokerInv, NEW r \in Request, MintFails(r)
    PROVE  BrokerInv'
  <1>1. /\ token' \in [Request -> {"none", "lost", "live", "revoked"}]
        /\ token'[r] \in {"none", "lost"}
        /\ \A q \in Request \ {r} : token'[q] = token[q]
    BY DEF MintFails, BrokerInv, TypeOK
  <1>2. TypeOK'
    BY <1>1, FailReturns DEF MintFails, BrokerInv, TypeOK
  <1>3. Stage(r)'
    BY <1>1, FailReturns DEF MintFails, BrokerInv, Stage, CleanedUp, Entitled
  <1> QED BY <1>1, <1>2, <1>3, OneRequest, FailReturns DEF MintFails

\* The two directives and the failing reads.
LEMMA ReadInv ==
    ASSUME BrokerInv, NEW r \in Request,
           \/ ReadIdentity(r) \/ ReadIdentityFails(r)
           \/ ReadConfig(r) \/ ReadConfigFails(r) \/ SweepFails(r)
    PROVE  BrokerInv'
  <1>1. CASE ReadIdentity(r)
    BY <1>1, RefusalInv, AdvanceInv DEF ReadIdentity
  <1>2. CASE ReadIdentityFails(r)
    BY <1>2, RefusalInv DEF ReadIdentityFails
  <1>3. CASE ReadConfig(r)
    BY <1>3, RefusalInv, AdvanceInv DEF ReadConfig
  <1>4. CASE ReadConfigFails(r)
    BY <1>4, RefusalInv DEF ReadConfigFails
  <1>5. CASE SweepFails(r)
    BY <1>5, RefusalInv DEF SweepFails
  <1> QED BY <1>1, <1>2, <1>3, <1>4, <1>5

\* A lease is created under a live token.
LEMMA SweepLeasesInv ==
    ASSUME BrokerInv, NEW r \in Request, SweepLeases(r)
    PROVE  BrokerInv'
  <1>1. TypeOK'
    BY DEF SweepLeases, BrokerInv, TypeOK
  <1>2. Stage(r)'
    BY DEF SweepLeases, BrokerInv, TypeOK, Stage, CleanedUp, Entitled, Bound, Flat, NoResult
  <1> QED BY <1>1, <1>2, OneRequest DEF SweepLeases, BrokerInv, TypeOK

\* A response holds secrets of the known names, something besides the address
\* unless there is nothing to serve, and no token that is suppressed.
LEMMA ResponseServes ==
    ASSUME BrokerInv, NEW r \in Request
    PROVE  /\ Response(r) \in SUBSET Secret
           /\ ~NothingToServe(r) => Response(r) \ {VaultAddr} # {}
           /\ VaultToken \in Response(r) => ~Suppressed(r)
  <1>1. repo[r].entries \subseteq Names
    BY ReposAssumption DEF BrokerInv, TypeOK, Repo
  <1>2. Response(r) \in SUBSET Secret
    BY <1>1 DEF Response, Swept, VaultToken, VaultAddr, Secret
  <1>3. ASSUME ~Suppressed(r)
        PROVE  Response(r) \ {VaultAddr} # {}
    <2>1. VaultToken \in Response(r)
      BY <1>3 DEF Response
    <2>2. VaultToken # VaultAddr
      BY DEF VaultToken, VaultAddr
    <2> QED BY <2>1, <2>2
  <1>4. ASSUME repo[r].entries # {}
        PROVE  Response(r) \ {VaultAddr} # {}
    <2>1. PICK n \in repo[r].entries : TRUE
      BY <1>4
    <2>2. [name |-> n, from |-> "kv"] \in Response(r)
      BY <2>1 DEF Response, Swept
    <2>3. [name |-> n, from |-> "kv"] # VaultAddr
      BY DEF VaultAddr
    <2> QED BY <2>2, <2>3
  <1>5. VaultToken \in Response(r) => ~Suppressed(r)
    <2>1. VaultToken.from = "mint" /\ VaultAddr.from = "addr"
      BY DEF VaultToken, VaultAddr
    <2>2. \A s \in Swept(r) : s.from = "kv"
      BY DEF Swept
    <2> QED BY <2>1, <2>2 DEF Response
  <1> QED BY <1>2, <1>3, <1>4, <1>5 DEF NothingToServe

\* A complete sweep serves an entitled request, or nobody.
LEMMA SweepOKInv ==
    ASSUME BrokerInv, NEW r \in Request, SweepOK(r)
    PROVE  BrokerInv'
  <1>1. CASE NothingToServe(r) /\ Finish(r, 204, "unonboarded", {})
    BY <1>1, RefusalInv DEF SweepOK
  <1>2. CASE ~NothingToServe(r) /\ Finish(r, 200, "ok", Response(r))
    <2>1. /\ result' \in [Request -> Result] /\ bpc' \in [Request -> BPC]
          /\ bpc'[r] = "done" /\ result'[r].accessor
          /\ result'[r].status = 200 /\ result'[r].secrets = Response(r)
          /\ \A q \in Request \ {r} : result'[q] = result[q] /\ bpc'[q] = bpc[q]
      BY <1>2, ResponseServes DEF BrokerInv, TypeOK, Finish, Result, BPC
    <2>2. TypeOK'
      BY <2>1 DEF SweepOK, BrokerInv, TypeOK
    <2>3. Stage(r)'
      BY <1>2, <2>1, ResponseServes
         DEF SweepOK, BrokerInv, Stage, CleanedUp, Entitled, Bound, Flat, IsText, Suppressed
    <2> QED BY <2>1, <2>2, <2>3, OneRequest DEF SweepOK
  <1> QED BY <1>1, <1>2 DEF SweepOK

\* The deferred revocation.
LEMMA RevokeInv ==
    ASSUME BrokerInv, NEW r \in Request, Revocation(r)
    PROVE  BrokerInv'
  <1>1. TypeOK'
    <2>1. result' \in [Request -> Result]
      <3>1. [result[r] EXCEPT !.revokeFailed = TRUE] \in Result
        <4>1. result[r] \in Result
          BY DEF BrokerInv, TypeOK
        <4> QED BY <4>1 DEF Result
      <3>2. CASE UNCHANGED result
        BY <3>2 DEF BrokerInv, TypeOK
      <3>3. CASE result' = [result EXCEPT ![r] = [@ EXCEPT !.revokeFailed = TRUE]]
        BY <3>1, <3>3 DEF BrokerInv, TypeOK
      <3> QED BY <3>2, <3>3 DEF Revocation, RevokeOK, RevokeFails
    <2>2. /\ token' \in [Request -> {"none", "lost", "live", "revoked"}]
          /\ lease' \in [Request -> {"none", "live", "revoked"}]
      BY DEF Revocation, RevokeOK, RevokeFails, Revoked, BrokerInv, TypeOK
    <2>3. bpc' \in [Request -> BPC]
      BY DEF Revocation, RevokeOK, RevokeFails, Returned, BrokerInv, TypeOK, BPC
    <2> QED BY <2>1, <2>2, <2>3
            DEF Revocation, RevokeOK, RevokeFails, BrokerInv, TypeOK
  <1>2. bpc[r] = "revoke" /\ bpc'[r] = "done"
    BY DEF Revocation, RevokeOK, RevokeFails, Returned, BrokerInv, TypeOK
  <1>3. /\ result'[r].accessor /\ result'[r].status \in {204, 502}
        /\ result'[r].secrets = {}
    BY <1>2 DEF Revocation, RevokeOK, RevokeFails, BrokerInv, TypeOK, Stage, Result
  <1>4. \/ token'[r] = "revoked" /\ lease'[r] # "live"
        \/ result'[r].revokeFailed /\ ("revoke" \in Faults \/ kind'[r] = "batch")
    BY <1>2 DEF Revocation, RevokeOK, RevokeFails, RevokeRefused, Revoked,
                BrokerInv, TypeOK, Stage, Result
  <1>5. Stage(r)'
    BY <1>2, <1>3, <1>4 DEF Stage, CleanedUp, Entitled
  <1> QED BY <1>1, <1>5, OneRequest
          DEF Revocation, RevokeOK, RevokeFails, Revoked, Returned, BrokerInv, TypeOK

\* The context and the canary's verdict are nothing the invariant is about.
LEMMA OutsideInv ==
    ASSUME BrokerInv, \/ CanaryFlips \/ UNCHANGED vars
                      \/ \E r \in Request : CtxDone(r)
    PROVE  BrokerInv'
  <1>1. TypeOK'
    BY DEF BrokerInv, TypeOK, CanaryFlips, CtxDone, vars
  <1>2. UNCHANGED <<repo, bpc, token, kind, lease, result>>
    BY DEF CanaryFlips, CtxDone, vars
  <1>3. ASSUME NEW q \in Request PROVE Stage(q)'
    BY <1>2, Frame DEF BrokerInv
  <1> QED BY <1>1, <1>3 DEF BrokerInv

\* Every step of one handler.
LEMMA HandleInv ==
    ASSUME BrokerInv, NEW r \in Request, Handle(r)
    PROVE  BrokerInv'
  BY GateInv, MintOKInv, MintFailsInv, ReadInv, SweepLeasesInv, SweepOKInv,
     RevokeInv DEF Handle, Fallible

\* BrokerInv is inductive.
THEOREM BrokerInvariant == Spec => []BrokerInv
  <1>1. Init => BrokerInv
    BY InitInv
  <1>2. BrokerInv /\ [Next]_vars => BrokerInv'
    BY BeginInv, HandleInv, OutsideInv DEF Next
  <1> QED BY <1>1, <1>2, PTL DEF Spec

\* Revocation by outcome holds on every path through Handle: a deferred
\* revocation is never skipped, and never meets a 200.
THEOREM RevocationByOutcome == Spec => []RevokedByOutcome
  <1>1. BrokerInv => RevokedByOutcome
    BY DEF BrokerInv, Stage, RevokedByOutcome
  <1> QED BY <1>1, BrokerInvariant, PTL

\* No path serves a request that is not entitled.
THEOREM ServingNeedsEntitlement == Spec => []ServedOnlyIfEntitled
  <1>1. BrokerInv => ServedOnlyIfEntitled
    BY DEF BrokerInv, Stage, ServedOnlyIfEntitled
  <1> QED BY <1>1, BrokerInvariant, PTL

-----------------------------------------------------------------------------
(***************************************************************************)
(* What a refusal stands on.                                               *)
(***************************************************************************)
\* A reason stays one while the answer stays the same.
LEMMA ReasonFrame ==
    ASSUME NEW r \in Request, Reasoned(r),
           repo'[r] = repo[r], kind'[r] = kind[r],
           result'[r].status = result[r].status,
           result'[r].outcome = result[r].outcome,
           result'[r].accessor = result[r].accessor,
           ctx'[r] = ctx[r] \/ ctx'[r] = "done"
    PROVE  Reasoned(r)'
  BY DEF Reasoned, Vacant, ReadsMayFail

\* A request without an answer needs no reason.
LEMMA NoReasonNeeded ==
    ASSUME NEW r \in Request, result'[r] = NoResult
    PROVE  Reasoned(r)'
  BY DEF Reasoned, NoResult

\* What finish returns.
LEMMA FinishReturns ==
    ASSUME BrokerInv, NEW r \in Request, NEW status, NEW outcome, NEW secrets,
           Finish(r, status, outcome, secrets)
    PROVE  /\ result'[r].status = status /\ result'[r].outcome = outcome
           /\ result'[r].accessor
           /\ \A q \in Request \ {r} : result'[q] = result[q]
  BY DEF BrokerInv, TypeOK, Finish

\* A refusal at the mint is for the token's type, or for a repository of which
\* no policy exists.
LEMMA MintReasoned ==
    ASSUME BrokerInv, NEW r \in Request, NEW t \in TokenTypes, MintOK(r, t)
    PROVE  Reasoned(r)'
  <1>1. kind'[r] = t /\ repo' = repo
    BY DEF MintOK, BrokerInv, TypeOK
  <1>2. CASE t # "service" /\ Finish(r, 502, "error", {})
    BY <1>1, <1>2, FinishReturns DEF Reasoned
  <1>3. CASE AllWarned(r) /\ Finish(r, 204, "unonboarded", {})
    BY <1>1, <1>3, FinishReturns DEF Reasoned, Vacant, AllWarned
  <1>4. CASE Goto(r, "identity")
    <2>1. result'[r] = NoResult
      BY <1>4 DEF MintOK, Goto, BrokerInv, Stage
    <2> QED BY <2>1, NoReasonNeeded
  <1> QED BY <1>2, <1>3, <1>4 DEF MintOK

\* A refusal at a read is for what the read said, or for its failure.
LEMMA ReadReasoned ==
    ASSUME BrokerInv, NEW r \in Request,
           \/ ReadIdentity(r) \/ ReadIdentityFails(r) \/ ReadConfig(r)
           \/ ReadConfigFails(r) \/ SweepFails(r) \/ SweepOK(r)
    PROVE  Reasoned(r)'
  <1>1. /\ bpc[r] \in {"identity", "config", "sweep"}
        /\ UNCHANGED <<repo, ctx, kind>>
    BY DEF ReadIdentity, ReadIdentityFails, ReadConfig, ReadConfigFails, SweepFails, SweepOK
  <1>2. kind[r] = "service" /\ repo[r].exists # {} /\ result[r] = NoResult
    BY <1>1 DEF BrokerInv, Stage
  <1>3. repo[r].binding \in {"unset", "matches", "other", "malformed"}
    BY ReposAssumption DEF BrokerInv, TypeOK, Repo
  <1>4. bpc[r] \in {"config", "sweep"} => Bound(r)
    BY DEF BrokerInv, Stage
  <1>5. bpc[r] = "sweep" => Flat(r)
    BY DEF BrokerInv, Stage
  <1>6. CASE UNCHANGED result
    BY <1>2, <1>6, NoReasonNeeded
  <1>7. CASE Down(r, "read") /\ Finish(r, 502, "error", {})
    BY <1>1, <1>2, <1>7, FinishReturns DEF Reasoned, ReadsMayFail, Down
  <1>8. CASE ReadIdentity(r) /\ ~Bound(r) /\ Finish(r, 204, "identity_mismatch", {})
    BY <1>1, <1>2, <1>3, <1>8, FinishReturns DEF Reasoned, Bound
  <1>9. CASE /\ Down(r, "read") /\ repo[r].binding # "unset"
             /\ Finish(r, 204, "identity_mismatch", {})
    BY <1>1, <1>2, <1>3, <1>9, FinishReturns DEF Reasoned, ReadsMayFail, Down
  <1>10. CASE ReadConfig(r) /\ ~Flat(r) /\ Finish(r, 502, "error", {})
    <2>1. Bound(r)
      BY <1>4, <1>10 DEF ReadConfig
    <2> QED BY <1>1, <1>2, <1>10, <2>1, FinishReturns
            DEF Reasoned, Bound, Flat, IsText
  <1>11. CASE SweepOK(r) /\ NothingToServe(r) /\ Finish(r, 204, "unonboarded", {})
    <2>1. Bound(r) /\ Flat(r)
      BY <1>4, <1>5, <1>11 DEF SweepOK
    <2> QED BY <1>1, <1>11, <2>1, FinishReturns
            DEF Reasoned, Vacant, NothingToServe, Suppressed, Bound, Flat, IsText
  <1>12. CASE Finish(r, 200, "ok", Response(r))
    BY <1>12, FinishReturns DEF Reasoned
  <1> QED BY <1>6, <1>7, <1>8, <1>9, <1>10, <1>11, <1>12
          DEF ReadIdentity, ReadIdentityFails, ReadConfig, ReadConfigFails,
              SweepFails, SweepOK, Goto

\* Every step of Handle gives a reason to the request it answers.
LEMMA HandleReasoned ==
    ASSUME BrokerInv, NEW r \in Request, Reasoned(r), Handle(r)
    PROVE  Reasoned(r)'
  <1>1. CASE \E t \in TokenTypes : MintOK(r, t)
    BY <1>1, MintReasoned
  <1>2. CASE \/ ReadIdentity(r) \/ ReadIdentityFails(r) \/ ReadConfig(r)
             \/ ReadConfigFails(r) \/ SweepFails(r) \/ SweepOK(r)
    BY <1>2, ReadReasoned
  <1>3. CASE Fail(r)
    <2>1. result'[r] = [NoResult EXCEPT !.status = 502, !.outcome = "error"]
      BY <1>3 DEF Fail, BrokerInv, TypeOK
    <2> QED BY <2>1 DEF Reasoned, NoResult
  <1>4. CASE SweepLeases(r) \/ RevokeOK(r)
    BY <1>4, ReasonFrame DEF SweepLeases, RevokeOK
  <1>5. CASE RevokeFails(r)
    <2>1. result' = [result EXCEPT ![r] = [@ EXCEPT !.revokeFailed = TRUE]]
      BY <1>5 DEF RevokeFails
    <2>2. result[r] \in Result /\ DOMAIN result = Request
      BY DEF BrokerInv, TypeOK
    <2>3. /\ result'[r].status = result[r].status
          /\ result'[r].outcome = result[r].outcome
          /\ result'[r].accessor = result[r].accessor
      BY <2>1, <2>2 DEF Result
    <2> QED BY <1>5, <2>3, ReasonFrame DEF RevokeFails
  <1>6. CASE Gate(r) /\ Goto(r, "mint")
    BY <1>6, ReasonFrame DEF Gate, Goto
  <1> QED BY <1>1, <1>2, <1>3, <1>4, <1>5, <1>6
          DEF Handle, Fallible, Revocation, Gate, MintFails

\* ... and takes none from another.
LEMMA OthersKeepReasons ==
    ASSUME BrokerInv, NEW r \in Request, NEW q \in Request \ {r}, Reasoned(q), Handle(r)
    PROVE  Reasoned(q)'
  <1>1. result'[q] = result[q]
    <2>1. DOMAIN result = Request
      BY DEF BrokerInv, TypeOK
    <2> QED BY <2>1
        DEF Handle, Gate, MintOK, MintFails, ReadIdentity, ReadIdentityFails, ReadConfig,
            ReadConfigFails, SweepLeases, SweepFails, SweepOK, Fallible, Revocation,
            RevokeOK, RevokeFails, Goto, Fail, Finish
  <1>2. repo' = repo /\ ctx' = ctx /\ kind'[q] = kind[q]
    BY DEF BrokerInv, TypeOK, Handle, Gate, MintOK, MintFails, ReadIdentity,
           ReadIdentityFails, ReadConfig, ReadConfigFails, SweepLeases, SweepFails,
           SweepOK, Fallible, Revocation, RevokeOK, RevokeFails
  <1> QED BY <1>1, <1>2, ReasonFrame

\* A refusal has a reason and the status that goes with it: no 204 hides what
\* could be served, and no directive that cannot be parsed is taken for a
\* failed call or an empty repository.
THEOREM RefusalsHaveReasons == Spec => []RefusedWithReason
  <1>1. ASSUME Init PROVE RefusedWithReason
    <2>1. ASSUME NEW r \in Request PROVE result[r] = NoResult
      BY <1>1 DEF Init
    <2>2. NoResult.outcome = "none" /\ NoResult.status = 0
      BY DEF NoResult
    <2>3. ASSUME NEW r \in Request PROVE Reasoned(r)
      BY <2>1, <2>2 DEF Reasoned
    <2> QED BY <2>3 DEF RefusedWithReason
  <1>2. ASSUME BrokerInv, RefusedWithReason, [Next]_vars PROVE RefusedWithReason'
    <2>1. ASSUME NEW q \in Request PROVE Reasoned(q)'
      <3>0. Reasoned(q)
        BY <1>2 DEF RefusedWithReason
      <3>1. ASSUME NEW r \in Request, Handle(r) PROVE Reasoned(q)'
        BY <1>2, <3>0, <3>1, HandleReasoned, OthersKeepReasons
      <3>2. ASSUME NEW r \in Request, Begin(r) PROVE Reasoned(q)'
        BY <3>0, <3>2, ReasonFrame DEF Begin, Goto
      <3>3. ASSUME NEW r \in Request, CtxDone(r) PROVE Reasoned(q)'
        <4>1. ctx'[q] = ctx[q] \/ ctx'[q] = "done"
          BY <1>2, <3>3 DEF CtxDone, BrokerInv, TypeOK
        <4> QED BY <3>0, <3>3, <4>1, ReasonFrame DEF CtxDone
      <3>4. CASE CanaryFlips \/ UNCHANGED vars
        BY <3>0, <3>4, ReasonFrame DEF CanaryFlips, vars
      <3> QED BY <1>2, <3>1, <3>2, <3>3, <3>4 DEF Next
    <2> QED BY <2>1 DEF RefusedWithReason
  <1> QED BY <1>1, <1>2, BrokerInvariant, PTL DEF Spec

-----------------------------------------------------------------------------
(***************************************************************************)
(* What a 200 carries.                                                     *)
(***************************************************************************)
ServesResponse(r) == result[r].status = 200 => result[r].secrets = Response(r)

\* A return is a refusal, or the response.
LEMMA ReturnMeans ==
    ASSUME BrokerInv, NEW r \in Request, Handle(r)
    PROVE  /\ UNCHANGED repo
           /\ \A q \in Request : \/ result'[q] = result[q]
                                 \/ result'[q].status # 200
                                 \/ result'[q].secrets = Response(q)
  <1>0. DOMAIN result = Request /\ UNCHANGED repo
    BY DEF BrokerInv, TypeOK, Handle, Gate, MintOK, MintFails, ReadIdentity, ReadIdentityFails,
           ReadConfig, ReadConfigFails, SweepLeases, SweepFails, SweepOK, Fallible,
           Revocation, RevokeOK, RevokeFails
  <1>1. Fail(r) => result'[r].status = 502 /\ \A q \in Request \ {r} : result'[q] = result[q]
    BY <1>0 DEF Fail, NoResult
  <1>2. \A status, outcome, secrets :
           Finish(r, status, outcome, secrets) =>
              /\ result'[r].status = status /\ result'[r].secrets = secrets
              /\ \A q \in Request \ {r} : result'[q] = result[q]
    BY <1>0 DEF Finish
  <1>3. \A step : Goto(r, step) => UNCHANGED result
    BY DEF Goto
  <1>4. CASE RevokeFails(r)
    <2>1. result[r].status \in {204, 502}
      BY <1>4 DEF RevokeFails, BrokerInv, Stage
    <2>2. /\ result'[r].status = result[r].status
          /\ \A q \in Request \ {r} : result'[q] = result[q]
      BY <1>0, <1>4 DEF RevokeFails, BrokerInv, TypeOK, Result
    <2> QED BY <1>0, <2>1, <2>2
  <1>5. CASE Fail(r)
    BY <1>0, <1>1, <1>5
  <1>6. CASE SweepOK(r)
    BY <1>0, <1>2, <1>6 DEF SweepOK
  <1>7. CASE \E status \in {204, 502} : \E outcome : Finish(r, status, outcome, {})
    BY <1>0, <1>2, <1>7
  <1>8. CASE UNCHANGED result
    BY <1>0, <1>8
  <1> QED BY <1>3, <1>4, <1>5, <1>6, <1>7, <1>8
          DEF Handle, Gate, MintOK, MintFails, ReadIdentity, ReadIdentityFails, ReadConfig,
              ReadConfigFails, SweepLeases, SweepFails, Fallible, Revocation, RevokeOK

\* A 200 carries all that was swept, the token unless it is suppressed and the
\* address if there is one, and nothing else.
THEOREM ServedIsResponse == Spec => [](\A r \in Request : ServesResponse(r))
  <1> DEFINE Inv == \A r \in Request : ServesResponse(r)
  <1>1. Init => Inv
    BY DEF Init, NoResult, ServesResponse
  <1>2. ASSUME BrokerInv, Inv, [Next]_vars PROVE Inv'
    <2>1. CASE \E r \in Request : Handle(r)
      BY <1>2, <2>1, ReturnMeans DEF ServesResponse, Response, Swept, Suppressed
    <2>2. CASE UNCHANGED <<result, repo>>
      BY <1>2, <2>2 DEF ServesResponse, Response, Swept, Suppressed
    <2> QED BY <1>2, <2>1, <2>2 DEF Next, CanaryFlips, Begin, Goto, CtxDone, vars
  <1> QED BY <1>1, <1>2, BrokerInvariant, PTL DEF Spec

\* How far ResponseNamesUnique fails: two secrets of one response share a name
\* only if the repository's owner used one of the two reserved names.
THEOREM CollisionsAreReserved ==
    Spec => [](\A r \in Request : \A s, t \in result[r].secrets :
                  s.name = t.name /\ s # t =>
                      s.name \in {"vault_token", "vault_addr"} \cap repo[r].entries)
  <1>1. ASSUME BrokerInv, NEW r \in Request, ServesResponse(r),
               NEW s \in result[r].secrets, NEW t \in result[r].secrets,
               s.name = t.name, s # t
        PROVE  s.name \in {"vault_token", "vault_addr"} \cap repo[r].entries
    <2>1. s \in Response(r) /\ t \in Response(r)
      BY <1>1 DEF BrokerInv, Stage, Entitled, ServesResponse
    <2>2. \A x \in Response(r) :
             \/ x = [name |-> x.name, from |-> "kv"] /\ x.name \in repo[r].entries
             \/ x = VaultToken \/ x = VaultAddr
      BY DEF Response, Swept
    <2>3. VaultToken.name = "vault_token" /\ VaultAddr.name = "vault_addr"
          /\ "vault_token" # "vault_addr"
      BY DEF VaultToken, VaultAddr
    <2> QED BY <1>1, <2>1, <2>2, <2>3
  <1>2. BrokerInv /\ (\A r \in Request : ServesResponse(r)) =>
           \A r \in Request : \A s, t \in result[r].secrets :
              s.name = t.name /\ s # t =>
                  s.name \in {"vault_token", "vault_addr"} \cap repo[r].entries
    BY <1>1
  <1> QED BY <1>2, BrokerInvariant, ServedIsResponse, PTL

\* A token nobody knows of is a mint that failed.
LostByFailure(r) ==
    token[r] = "lost" =>
        /\ bpc[r] = "done" /\ ~result[r].accessor /\ result[r].status = 502
        /\ "mint" \in Faults \/ ctx[r] = "done"

\* A failed mint is the only step that loses a token, and Handle's last.
LEMMA LosingStep ==
    ASSUME BrokerInv, NEW r \in Request, LostByFailure(r), [Next]_vars
    PROVE  LostByFailure(r)'
  <1>0. /\ token \in [Request -> {"none", "lost", "live", "revoked"}]
        /\ bpc \in [Request -> BPC] /\ ctx \in [Request -> {"live", "done"}]
    BY DEF BrokerInv, TypeOK
  <1>1. CASE MintFails(r)
    <2>1. bpc'[r] = "done" /\ ~result'[r].accessor /\ result'[r].status = 502
      BY <1>1, FailReturns DEF MintFails
    <2>2. ("mint" \in Faults \/ ctx[r] = "done") /\ ctx' = ctx
      BY <1>1 DEF MintFails, Down
    <2> QED BY <2>1, <2>2 DEF LostByFailure
  <1>2. CASE Handle(r) /\ ~MintFails(r)
    <2>1. token'[r] = "lost" => token[r] = "lost"
      BY <1>0, <1>2 DEF Handle, Gate, MintOK, ReadIdentity, ReadIdentityFails, ReadConfig,
           ReadConfigFails, SweepLeases, SweepFails, SweepOK, Fallible, Revocation, RevokeOK,
           RevokeFails, Revoked
    <2>2. bpc[r] # "done"
      BY <1>2 DEF Handle, Gate, MintOK, ReadIdentity, ReadIdentityFails, ReadConfig,
           ReadConfigFails, SweepLeases, SweepFails, SweepOK, Fallible, Revocation, RevokeOK,
           RevokeFails
    <2> QED BY <2>1, <2>2 DEF LostByFailure
  <1>3. CASE Begin(r)
    BY <1>3 DEF Begin, LostByFailure
  <1>4. CASE CtxDone(r)
    BY <1>0, <1>4 DEF CtxDone, LostByFailure
  <1>5. CASE CanaryFlips \/ UNCHANGED vars
    BY <1>5 DEF CanaryFlips, vars, LostByFailure
  <1>6. ASSUME NEW q \in Request \ {r}, Begin(q) \/ Handle(q) \/ CtxDone(q)
        PROVE  LostByFailure(r)'
    <2>1. result'[r] = result[r]
      <3>1. CASE Handle(q)
        <4>1. DOMAIN result = Request
          BY DEF BrokerInv, TypeOK
        <4> QED BY <1>6, <3>1, <4>1
               DEF Handle, Gate, MintOK, MintFails, ReadIdentity, ReadIdentityFails, ReadConfig,
                   ReadConfigFails, SweepLeases, SweepFails, SweepOK, Fallible, Revocation,
                   RevokeOK, RevokeFails, Goto, Fail, Finish
      <3> QED BY <1>6, <3>1 DEF Begin, Goto, CtxDone
    <2>2. token'[r] = token[r] /\ bpc'[r] = bpc[r] /\ ctx'[r] = ctx[r]
      BY <1>0, <1>6 DEF Begin, CtxDone, Handle, Gate, MintOK, MintFails, ReadIdentity,
           ReadIdentityFails, ReadConfig, ReadConfigFails, SweepLeases, SweepFails, SweepOK,
           Fallible, Revocation, RevokeOK, RevokeFails, Revoked, Returned, Goto, Fail, Finish
    <2> QED BY <2>1, <2>2 DEF LostByFailure
  <1> QED BY <1>1, <1>2, <1>3, <1>4, <1>5, <1>6 DEF Next

\* How far MintFailureMintsNothing fails: a token is lost only by a mint call
\* that failed or whose context ended, and the request got a 502.
THEOREM TokensAreLostByFailure == Spec => [](\A r \in Request : LostByFailure(r))
  <1> DEFINE Inv == \A r \in Request : LostByFailure(r)
  <1>1. Init => Inv
    BY DEF Init, LostByFailure
  <1>2. BrokerInv /\ Inv /\ [Next]_vars => Inv'
    BY LosingStep
  <1> QED BY <1>1, <1>2, BrokerInvariant, PTL DEF Spec
=============================================================================
