------------------------- MODULE VaultSession_proofs ------------------------
(***************************************************************************)
(* The gate's meaning, for every set of roles and every length of outage:  *)
(* SessionInv is inductive, so an open gate always stands for a canary     *)
(* that passed in this session against a conforming role.                  *)
(***************************************************************************)
EXTENDS VaultSession, TLAPS

\* Before the first login the gate is shut and nothing is held.
LEMMA InitInv == Init => SessionInv
  <1> SUFFICES ASSUME Init PROVE SessionInv
    OBVIOUS
  <1>1. TypeOK
    <2>1. /\ epoch \in Nat /\ verifiedEpoch \in Nat
          /\ outages \in Nat /\ roleChanges \in Nat /\ expiries \in Nat
      BY DEF Init
    <2> QED BY <2>1, Zenon DEF Init, TypeOK, PC
  <1>2. ~canaryOK /\ ~retryArmed /\ pc = "login" /\ canaryToken = "none"
    BY Zenon DEF Init
  <1> QED BY <1>1, <1>2 DEF SessionInv, ReadyMeansVerified, OpenGateSawGoodRole

\* Login and the waits around it: only a successful login touches the
\* verdict, and it takes it back.
LEMMA LoginInv ==
    ASSUME SessionInv, LoginOK \/ LoginFails \/ SleepEnds
    PROVE  SessionInv'
  <1> USE DEF SessionInv, TypeOK, ReadyMeansVerified, OpenGateSawGoodRole, PC,
              Conforms, CanaryAsserts, canary, counters
  <1>1. CASE LoginOK
    <2>1. epoch' \in Nat /\ epoch' > 0
      BY <1>1 DEF LoginOK
    <2>2. TypeOK'
      BY <1>1, <2>1, Zenon DEF LoginOK, SessionOpened
    <2>3. ~canaryOK'
      BY <1>1 DEF LoginOK, SessionOpened
    <2> QED BY <1>1, <2>1, <2>2, <2>3 DEF LoginOK
  <1>2. CASE LoginFails
    BY <1>2 DEF LoginFails
  <1>3. CASE SleepEnds
    BY <1>3 DEF SleepEnds
  <1> QED BY <1>1, <1>2, <1>3

\* The canary: it passes only after the assertions and the self-revocation
\* held of the same mint, and every failure shuts the gate.
LEMMA CanaryInv ==
    ASSUME SessionInv,
           CanaryMintOK \/ CanaryMintFails \/ CanaryPasses \/ CanaryRevokeFails
           \/ CanaryCleanup
    PROVE  SessionInv'
  <1> USE DEF SessionInv, TypeOK, ReadyMeansVerified, OpenGateSawGoodRole, PC,
              Conforms, CanaryAsserts, counters
  <1>1. CASE CanaryMintOK
    BY <1>1 DEF CanaryMintOK, Mintable
  <1>2. CASE CanaryMintFails
    BY <1>2 DEF CanaryMintFails, CanaryFailed
  <1>3. CASE CanaryPasses
    BY <1>3 DEF CanaryPasses, SelfRevocable
  <1>4. CASE CanaryRevokeFails
    BY <1>4 DEF CanaryRevokeFails, CanaryFailed
  <1>5. CASE CanaryCleanup
    BY <1>5 DEF CanaryCleanup, CanaryFailed, CleanupRevokes
  <1> QED BY <1>1, <1>2, <1>3, <1>4, <1>5

\* The session loop's select: a retry re-enters the canary with the gate
\* shut, because a retry is armed only by a failure.
LEMMA SelectInv ==
    ASSUME SessionInv,
           RenewDue \/ CanaryRetry \/ ObserveStop \/ RenewOK \/ RenewFails
    PROVE  SessionInv'
  <1> USE DEF SessionInv, TypeOK, ReadyMeansVerified, OpenGateSawGoodRole, PC,
              Conforms, CanaryAsserts, canary, counters
  <1>1. CASE RenewDue
    BY <1>1 DEF RenewDue
  <1>2. CASE CanaryRetry
    BY <1>2 DEF CanaryRetry
  <1>3. CASE ObserveStop
    BY <1>3 DEF ObserveStop
  <1>4. CASE RenewOK
    BY <1>4 DEF RenewOK
  <1>5. CASE RenewFails
    BY <1>5 DEF RenewFails
  <1> QED BY <1>1, <1>2, <1>3, <1>4, <1>5

\* Vault, the operator and the signal change nothing the verdict is about.
LEMMA EnvironmentInv ==
    ASSUME SessionInv, Vault \/ Signal
    PROVE  SessionInv'
  <1> USE DEF SessionInv, TypeOK, ReadyMeansVerified, OpenGateSawGoodRole, PC,
              Conforms, CanaryAsserts, client, canary, counters
  <1>1. CASE VaultDown
    <2>1. outages' \in Nat
      BY <1>1 DEF VaultDown
    <2> QED BY <1>1, <2>1, Zenon DEF VaultDown
  <1>2. CASE VaultBack
    BY <1>2 DEF VaultBack
  <1>3. CASE SessionExpires
    <2>1. expiries' \in Nat
      BY <1>3 DEF SessionExpires
    <2> QED BY <1>3, <2>1, Zenon DEF SessionExpires
  <1>4. CASE OperatorRewritesRole
    BY <1>4 DEF OperatorRewritesRole
  <1>5. CASE StrayExpires
    BY <1>5 DEF StrayExpires
  <1>6. CASE Signal
    BY <1>6 DEF Signal
  <1> QED BY <1>1, <1>2, <1>3, <1>4, <1>5, <1>6 DEF Vault

\* SessionInv is inductive.
THEOREM SessionInvariant == Spec => []SessionInv
  <1>1. Init => SessionInv
    BY InitInv
  <1>2. SessionInv /\ [Next]_vars => SessionInv'
    <2> SUFFICES ASSUME SessionInv, [Next]_vars PROVE SessionInv'
      OBVIOUS
    <2>1. CASE Run
      BY <2>1, LoginInv, CanaryInv, SelectInv DEF Run
    <2>2. CASE Vault \/ Signal
      BY <2>2, EnvironmentInv
    <2>3. CASE UNCHANGED vars
      BY <2>3 DEF vars, client, canary, counters, SessionInv, TypeOK,
                  ReadyMeansVerified, OpenGateSawGoodRole, Conforms,
                  CanaryAsserts
    <2> QED BY <2>1, <2>2, <2>3 DEF Next
  <1> QED BY <1>1, <1>2, PTL DEF Spec

\* DEC-0007 for every instance: an open gate was opened by a canary that
\* passed in the session in force.
THEOREM GateIsOfThisSession == Spec => []ReadyMeansVerified
  <1>1. SessionInv => ReadyMeansVerified
    BY DEF SessionInv
  <1> QED BY <1>1, SessionInvariant, PTL

\* ... against a role that had every property the canary stands for.
THEOREM GateSawGoodRole == Spec => []OpenGateSawGoodRole
  <1>1. SessionInv => OpenGateSawGoodRole
    BY DEF SessionInv
  <1> QED BY <1>1, SessionInvariant, PTL

\* A step that gives the canary's token up is one that could not revoke it:
\* the assertions' failure path has no way around the cleanup.
THEOREM CanaryCleansUp == Spec => StrayOnlyIfIrrevocable
  <1>1. ASSUME SessionInv, [Next]_vars, canaryToken = "held",
               canaryToken' = "stray"
        PROVE  ~Reachable \/ ~SelfRevocable(seen)
    <2>1. pc \in {"revoke", "cleanup"}
      BY <1>1 DEF SessionInv
    <2> QED
      BY <1>1, <2>1
         DEF Next, Run, Vault, vars, client, canary, counters, LoginOK,
             LoginFails, SleepEnds, CanaryMintOK, CanaryMintFails,
             CanaryPasses, CanaryRevokeFails, CanaryCleanup, CleanupRevokes,
             RenewDue, CanaryRetry, ObserveStop, RenewOK, RenewFails,
             VaultDown, VaultBack, SessionExpires, OperatorRewritesRole,
             StrayExpires, Signal
  <1>2. SessionInv /\ [Next]_vars
            => [canaryToken = "held" /\ canaryToken' = "stray"
                  => ~Reachable \/ ~SelfRevocable(seen)]_vars
    BY <1>1
  <1> QED BY <1>2, SessionInvariant, PTL DEF Spec, StrayOnlyIfIrrevocable
=============================================================================
