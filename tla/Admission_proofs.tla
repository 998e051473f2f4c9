-------------------------- MODULE Admission_proofs ---------------------------
(***************************************************************************)
(* What reaches the broker, for all windows, clocks, keys and payloads, and *)
(* any number of messages, deliveries and restarts.  AdmissionInv and      *)
(* IdentityIsSigned are inductive; the bound on replays is arithmetic on   *)
(* AdmissionInv.                                                           *)
(***************************************************************************)
EXTENDS Admission, Naming_proofs, TLAPS

\* What Verify has established when it returns nil.
LEMMA VerifiedMeans ==
    ASSUME NEW m, NEW damage, NEW body, Verified(m, damage, body)
    PROVE  /\ m.by.covers /\ m.by.key = conf.key /\ body = m.by.payload
           /\ m.by.dated /\ ~Stale(m)
  <1>1. DOMAIN Reasons = 1..8
    BY DEF Reasons
  <1>2. /\ ~Defects(m, damage, body)[3] /\ ~Defects(m, damage, body)[5]
        /\ ~Defects(m, damage, body)[6] /\ ~Defects(m, damage, body)[7]
        /\ ~Defects(m, damage, body)[8]
    BY <1>1 DEF Verified
  <1> QED BY <1>2 DEF Defects

\* What an accepted message adds, and under which conditions.
Accepts(m) ==
    /\ m.by.covers /\ m.by.key = conf.key /\ ~Stale(m)
    /\ ~Malformed(m.by.payload)
    /\ accepted' = accepted \cup
          {[msg |-> m, at |-> now, window |-> conf.window, key |-> conf.key,
            id |-> Identity(m.by.payload)]}

Answers(m) == \A r \in answer' : r.msg = m /\ r.status \in {200, 400, 401, 413}

\* What Answer leaves behind.
LEMMA AnswerMeans ==
    ASSUME NEW m, NEW damage, NEW body, NEW reason,
           NEW status \in {200, 400, 401, 413}, Answer(m, damage, body, status, reason)
    PROVE  Answers(m)
  BY DEF Answer, Answers

\* Whatever is delivered, ironbark answers, and accepts only what Verify and
\* Parse let through.
LEMMA DeliverMeans ==
    ASSUME NEW m, Deliver(m)
    PROVE  /\ phase = "serving" /\ UNCHANGED <<clock, boot, mail>>
           /\ Answers(m) /\ (UNCHANGED accepted \/ Accepts(m))
  <1>1. PICK damage, body : handlePost(m, damage, body)
    BY DEF Deliver
  <1>2. phase = "serving" /\ UNCHANGED <<clock, boot, mail>>
    BY <1>1 DEF handlePost
  <1>3. CASE ReadFails(m, damage, body)
    <2>1. UNCHANGED accepted
      BY <1>3 DEF ReadFails
    <2>2. PICK s \in {400, 413} : Answer(m, damage, body, s, "unread")
      BY <1>3, Zenon DEF ReadFails
    <2>3. Answers(m)
      BY <2>2, AnswerMeans
    <2> QED BY <1>2, <2>1, <2>3
  <1>4. CASE Refuse(m, damage, body)
    <2>1. UNCHANGED accepted
      BY <1>4 DEF Refuse
    <2>2. Answers(m)
      BY <1>4, AnswerMeans DEF Refuse
    <2> QED BY <1>2, <2>1, <2>2
  <1>5. CASE ParseFails(m, damage, body)
    <2>1. UNCHANGED accepted
      BY <1>5 DEF ParseFails
    <2>2. Answers(m)
      BY <1>5, AnswerMeans DEF ParseFails
    <2> QED BY <1>2, <2>1, <2>2
  <1>6. CASE Admit(m, damage, body)
    <2>1. /\ m.by.covers /\ m.by.key = conf.key /\ ~Stale(m) /\ body = m.by.payload
      BY <1>6, VerifiedMeans DEF Admit
    <2>2. Accepts(m)
      BY <1>6, <2>1 DEF Admit, Accepts
    <2>3. Answers(m)
      BY <1>6, AnswerMeans DEF Admit
    <2> QED BY <1>2, <2>2, <2>3
  <1> QED BY <1>1, <1>3, <1>4, <1>5, <1>6 DEF handlePost

-----------------------------------------------------------------------------
\* One fact about acceptances per conjunct of AdmissionInv.
Fresh(a) == /\ a.at + MaxSkew - a.msg.created >= -a.window
            /\ a.at - MaxSkew - a.msg.created <= a.window
            /\ a.window >= 0

InForce == phase = "serving" =>
    Loads(env) /\ conf = [key |-> Content(env.pubkey), window |-> Window(env)]

\* Before the first start.
LEMMA AdmissionInit == Init => AdmissionInv
  BY TimeAssumption, BoundsAssumption DEF Init, AdmissionInv, TypeOK

\* The window that is loaded is a duration.
LEMMA WindowIsInt ==
    ASSUME NEW e \in Environments
    PROVE  Window(e) \in Int
  BY EnvironmentsAssumption, TimeAssumption DEF Window

\* A start.
LEMMA LoadInv ==
    ASSUME AdmissionInv, NEW e \in Environments, Load(e)
    PROVE  AdmissionInv'
  <1>1. boots' \in 0..MaxBoots
    BY BoundsAssumption DEF Load, AdmissionInv, TypeOK
  <1>2. CASE Loads(e)
    BY <1>1, <1>2, WindowIsInt DEF Load, Loads, clock, AdmissionInv, TypeOK
  <1>3. CASE ~Loads(e)
    BY <1>1, <1>3 DEF Load, clock, AdmissionInv, TypeOK
  <1> QED BY <1>2, <1>3

\* A crash or a signal forgets the configuration, not what was accepted.
LEMMA StopInv ==
    ASSUME AdmissionInv, Stop
    PROVE  AdmissionInv'
  BY DEF Stop, clock, AdmissionInv, TypeOK

\* Time passes, and ironbark's clock drifts.
LEMMA TickInv ==
    ASSUME AdmissionInv, Tick
    PROVE  AdmissionInv'
  <1>1. now' \in 0..MaxTime /\ now' = now + 1
    BY TimeAssumption DEF Tick, AdmissionInv, TypeOK
  <1>2. \A t \in 0..now : t \in 0..now'
    BY <1>1 DEF AdmissionInv, TypeOK
  <1> QED BY <1>1, <1>2 DEF Tick, boot, AdmissionInv, TypeOK

\* A message is signed.
LEMMA SignInv ==
    ASSUME AdmissionInv, NEW s \in Signings, Sign(s)
    PROVE  AdmissionInv'
  <1>1. Seconds(now + s.ahead) \in Int /\ now \in 0..now
    BY SigningsAssumption, TimeAssumption DEF AdmissionInv, TypeOK, Seconds
  <1>2. \A m \in mail' :
            /\ m.by \in Signings /\ m.created \in Int /\ m.at \in 0..now
            /\ m.created = Seconds(m.at + m.by.ahead)
    BY <1>1 DEF Sign, AdmissionInv, TypeOK
  <1> QED BY <1>2 DEF Sign, clock, boot, AdmissionInv, TypeOK

\* A message arrives.
LEMMA DeliverInv ==
    ASSUME AdmissionInv, NEW m \in mail, Deliver(m)
    PROVE  AdmissionInv'
  <1>1. phase = "serving" /\ UNCHANGED <<clock, boot, mail>>
    BY DeliverMeans
  <1>2. \A r \in answer' : r.msg \in mail /\ r.status \in {200, 400, 401, 413}
    BY DeliverMeans DEF Answers
  <1>3. \A a \in accepted' : /\ a.msg \in mail /\ a.at \in 0..now
                             /\ a.window \in Int /\ a.key \in Keys
                             /\ Fresh(a)
    <2> SUFFICES ASSUME NEW a \in accepted' \ accepted
                 PROVE  /\ a.msg \in mail /\ a.at \in 0..now
                        /\ a.window \in Int /\ a.key \in Keys /\ Fresh(a)
      BY DEF AdmissionInv, TypeOK, Fresh
    <2>1. /\ ~Stale(m)
          /\ a = [msg |-> m, at |-> now, window |-> conf.window, key |-> conf.key,
                  id |-> Identity(m.by.payload)]
      BY DeliverMeans DEF Accepts
    <2>2. /\ now \in 0..now /\ now \in Int /\ conf.window \in Int /\ conf.key \in Keys
          /\ skew \in Int /\ m.created \in Int /\ MaxSkew \in Nat
          /\ -MaxSkew <= skew /\ skew <= MaxSkew
      BY <1>1, TimeAssumption DEF AdmissionInv, TypeOK
    <2>3. now + skew - m.created <= conf.window /\ now + skew - m.created >= -conf.window
      BY <2>1, <2>2 DEF Stale, Drift
    <2> QED BY <2>1, <2>2, <2>3 DEF Fresh
  <1> QED BY <1>1, <1>2, <1>3 DEF clock, boot, AdmissionInv, TypeOK, Fresh

\* AdmissionInv is inductive: what is accepted was in the window, and what is
\* in force is what was loaded.
THEOREM AdmissionInvariant == Spec => []AdmissionInv
  <1>1. Init => AdmissionInv
    BY AdmissionInit
  <1>2. ASSUME AdmissionInv, UNCHANGED vars PROVE AdmissionInv'
    BY <1>2 DEF vars, clock, boot, AdmissionInv, TypeOK
  <1>3. AdmissionInv /\ [Next]_vars => AdmissionInv'
    BY <1>2, LoadInv, StopInv, TickInv, SignInv, DeliverInv DEF Next
  <1> QED BY <1>1, <1>3, PTL DEF Spec

-----------------------------------------------------------------------------
\* Replays of one message are never further apart than its windows and the
\* drift of ironbark's clock allow, whatever window each restart loads.
THEOREM ReplaysAreBounded == Spec => []ReplaysStayInWindow
  <1>1. ASSUME AdmissionInv, NEW a \in accepted, NEW b \in accepted, a.msg = b.msg
        PROVE  Abs(a.at - b.at) <= a.window + b.window + 2 * MaxSkew
    <2>1. /\ a.at \in Int /\ b.at \in Int /\ a.window \in Int /\ b.window \in Int
          /\ a.msg.created \in Int /\ MaxSkew \in Int
      BY <1>1, TimeAssumption DEF AdmissionInv, TypeOK
    <2>2. /\ a.at + MaxSkew - a.msg.created >= -a.window
          /\ a.at - MaxSkew - a.msg.created <= a.window
          /\ b.at + MaxSkew - a.msg.created >= -b.window
          /\ b.at - MaxSkew - a.msg.created <= b.window
      BY <1>1 DEF AdmissionInv
    <2> QED BY <2>1, <2>2 DEF Abs
  <1>2. AdmissionInv => ReplaysStayInWindow
    BY <1>1 DEF ReplaysStayInWindow
  <1> QED BY <1>2, AdmissionInvariant, PTL

\* The broker works for the identity that was signed, and for no other.
THEOREM IdentitiesAreSigned == Spec => []IdentityIsSigned
  <1>1. Init => IdentityIsSigned
    BY DEF Init, IdentityIsSigned
  <1>2. ASSUME IdentityIsSigned, [Next]_vars PROVE IdentityIsSigned'
    <2>1. CASE UNCHANGED accepted
      BY <1>2, <2>1 DEF IdentityIsSigned
    <2>2. CASE \E m \in mail : Deliver(m)
      BY <1>2, <2>2, DeliverMeans DEF Accepts, IdentityIsSigned
    <2> QED BY <1>2, <2>1, <2>2 DEF Next, Load, Stop, Sign, Tick, vars
  <1> QED BY <1>1, <1>2, PTL DEF Spec

\* The broker's identities have policies of their own: what two payloads have in
\* common is a repository's policy, or a branch's if it is the same branch.
THEOREM PoliciesAreSeparate == Spec => []PoliciesSeparate
  <1>1. ASSUME AdmissionInv, IdentityIsSigned, NEW a \in accepted
        PROVE  a.id.branch \in Seq(Bytes)
    <2>1. a.msg.by \in Signings
      BY <1>1 DEF AdmissionInv, TypeOK
    <2>2. a.msg.by.payload \in Payloads
      BY <2>1, SigningsAssumption
    <2>3. a.id = Identity(a.msg.by.payload)
      BY <1>1 DEF IdentityIsSigned
    <2>4. \A p : Identity(p).branch = p.branch
      BY DEF Identity
    <2> QED BY <2>2, <2>3, <2>4, PayloadsAssumption
  <1>2. ASSUME NEW id \in DOMAIN PoliciesOf
        PROVE  id.branch \in Seq(Bytes) /\ PoliciesOf[id] = Derive(id)
    <2>1. PICK p \in Payloads : id = Identity(p)
      BY DEF PoliciesOf
    <2>2. id.branch = p.branch
      BY <2>1 DEF Identity
    <2>3. id.branch \in Seq(Bytes)
      BY <2>2, PayloadsAssumption
    <2>4. PoliciesOf[id] = Derive(id)
      BY DEF PoliciesOf
    <2> QED BY <2>3, <2>4
  <1>3. ASSUME AdmissionInv, IdentityIsSigned PROVE PoliciesSeparate
    <2> SUFFICES ASSUME NEW a \in accepted
                 PROVE  /\ \A id \in DOMAIN PoliciesOf :
                            \A shared \in Derive(a.id) \cap PoliciesOf[id] :
                               /\ P1(a.id) = P1(id)
                               /\ shared # P1(a.id) => a.id.branch = id.branch
                        /\ HasBranchPolicy(a.id) =>
                              LET escaped == Esc(a.id.branch)
                              IN  /\ escaped[1] # Dot
                                  /\ \A i \in DOMAIN escaped : escaped[i] # Slash
      BY DEF PoliciesSeparate
    <2>1. a.id.branch \in Seq(Bytes)
      BY <1>1, <1>3
    <2>2. ASSUME NEW id \in DOMAIN PoliciesOf, NEW shared \in Derive(a.id) \cap PoliciesOf[id]
          PROVE  P1(a.id) = P1(id) /\ (shared # P1(a.id) => a.id.branch = id.branch)
      <3>1. id.branch \in Seq(Bytes) /\ shared \in Derive(a.id) \cap Derive(id)
        BY <1>2, <2>2
      <3> QED BY <2>1, <3>1, SharedPolicies
    <2>3. ASSUME HasBranchPolicy(a.id)
          PROVE  /\ Esc(a.id.branch)[1] # Dot
                 /\ \A i \in DOMAIN Esc(a.id.branch) : Esc(a.id.branch)[i] # Slash
      BY <2>1, <2>3, EscIsOneSegment DEF HasBranchPolicy
    <2> QED BY <2>2, <2>3
  <1> QED BY <1>3, AdmissionInvariant, IdentitiesAreSigned, PTL

\* A delivery that meets TimelyIsNeverRefused's conditions is not refused by
\* Verify: none of its checks finds a defect.
LEMMA TimelyPasses ==
    ASSUME AdmissionInv, NEW m \in mail, NEW damage, NEW body,
           damage = "none", body = m.by.payload,
           m.by.key = conf.key, m.by.covers, m.by.dated,
           now - m.at + MaxSkew + Abs(m.by.ahead) + Second - 1 <= conf.window
    PROVE  ~Refuse(m, damage, body)
  <1>1. /\ now \in Int /\ m.at \in Int /\ m.at <= now /\ m.by.ahead \in Int
        /\ conf.window \in Int /\ skew \in Int /\ -MaxSkew <= skew /\ skew <= MaxSkew
        /\ MaxSkew \in Int /\ Second \in Nat \ {0} /\ m.created \in Int
    BY TimeAssumption, SigningsAssumption DEF AdmissionInv, TypeOK
  <1>2. /\ m.created <= m.at + m.by.ahead
        /\ m.at + m.by.ahead <= m.created + Second - 1
    <2>1. m.created = (m.at + m.by.ahead) - ((m.at + m.by.ahead) % Second)
      BY DEF AdmissionInv, Seconds
    <2>2. (m.at + m.by.ahead) % Second \in 0..(Second - 1)
      BY <1>1
    <2> QED BY <1>1, <2>1, <2>2
  <1>3. ~Stale(m)
    BY <1>1, <1>2 DEF Stale, Drift, Abs
  <1>4. DOMAIN Reasons = 1..8
    BY DEF Reasons
  <1>5. /\ ~Defects(m, damage, body)[1] /\ ~Defects(m, damage, body)[2]
        /\ ~Defects(m, damage, body)[3] /\ ~Defects(m, damage, body)[4]
        /\ ~Defects(m, damage, body)[5] /\ ~Defects(m, damage, body)[6]
        /\ ~Defects(m, damage, body)[7] /\ ~Defects(m, damage, body)[8]
    BY <1>3 DEF Defects
  <1>6. \A i \in 1..8 : ~Defects(m, damage, body)[i]
    BY <1>5
  <1> QED BY <1>4, <1>6 DEF Refuse

\* Delay, clocks and rounding together: who stays within the window is not
\* refused for its signature.
THEOREM TimelyIsServed == Spec => []TimelyIsNeverRefused
  <1>1. Init => TimelyIsNeverRefused
    BY DEF Init, TimelyIsNeverRefused
  <1>2. ASSUME AdmissionInv, NEW m \in mail, Deliver(m) PROVE TimelyIsNeverRefused'
    <2>1. PICK damage, body : handlePost(m, damage, body)
      BY <1>2 DEF Deliver
    <2>2. UNCHANGED <<now, conf>>
      BY <2>1 DEF handlePost, clock, boot
    <2>3. ASSUME NEW r \in answer',
                 r.damage = "none", r.body = r.msg.by.payload,
                 r.msg.by.key = conf.key, r.msg.by.covers, r.msg.by.dated,
                 now - r.msg.at + MaxSkew + Abs(r.msg.by.ahead) + Second - 1 <= conf.window
          PROVE  r.status # 401
      <3>1. CASE Refuse(m, damage, body)
        <4>1. r.msg = m /\ r.damage = damage /\ r.body = body
          BY <3>1 DEF Refuse, Answer
        <4> QED BY <1>2, <2>3, <3>1, <4>1, TimelyPasses
      <3>2. CASE ReadFails(m, damage, body)
        BY <3>2 DEF ReadFails, Answer
      <3>3. CASE ParseFails(m, damage, body)
        BY <3>3 DEF ParseFails, Answer
      <3>4. CASE Admit(m, damage, body)
        BY <3>4 DEF Admit, Answer
      <3> QED BY <2>1, <3>1, <3>2, <3>3, <3>4 DEF handlePost
    <2> QED BY <2>2, <2>3 DEF TimelyIsNeverRefused
  <1>3. ASSUME AdmissionInv, TimelyIsNeverRefused, [Next]_vars
        PROVE  TimelyIsNeverRefused'
    <2>1. CASE \E m \in mail : Deliver(m)
      BY <1>2, <1>3, <2>1
    <2>2. CASE answer' = {}
      BY <2>2 DEF TimelyIsNeverRefused
    <2>3. CASE UNCHANGED vars
      BY <1>3, <2>3 DEF vars, clock, boot, TimelyIsNeverRefused
    <2> QED BY <1>3, <2>1, <2>2, <2>3 DEF Next, Load, Stop, Sign, Tick
  <1> QED BY <1>1, <1>3, AdmissionInvariant, PTL DEF Spec

\* What is verified against is the only key the environment offers, and no
\* secret was chosen between two.
THEOREM BootsAreUnambiguous == Spec => BootIsUnambiguous
  <1>1. ASSUME NEW s, Resolves(s)
        PROVE  /\ {s.val, s.file} \ {Unset} = {Content(s)}
               /\ Content(s) \in {s.val, s.file} \ {Blank, Unreadable}
    BY <1>1 DEF Resolves, Content
  <1>2. ASSUME NEW e \in Environments, Load(e), phase' = "serving"
        PROVE  /\ env' = e /\ conf'.key = Content(e.pubkey)
               /\ \A s \in Secrets(e) : Resolves(s)
    BY <1>2 DEF Load, Loads
  <1>3. ASSUME [Next]_vars, phase # "serving", phase' = "serving"
        PROVE  /\ \A s \in Secrets(env') :
                     \E v \in {s.val, s.file} \ {Blank, Unreadable} :
                        {s.val, s.file} \ {Unset} = {v}
               /\ {env'.pubkey.val, env'.pubkey.file} \ {Unset} = {conf'.key}
    <2>1. PICK e \in Environments : Load(e)
      <3>1. \A m \in mail : ~Deliver(m)
        BY <1>3, DeliverMeans
      <3> QED BY <1>3, <3>1 DEF Next, vars, boot, Tick, Stop, Sign
    <2>2. e.pubkey \in Secrets(e)
      BY DEF Secrets
    <2> QED BY <1>1, <1>2, <1>3, <2>1, <2>2
  <1>4. [Next]_vars => [phase # "serving" /\ phase' = "serving" =>
             /\ \A s \in Secrets(env') :
                   \E v \in {s.val, s.file} \ {Blank, Unreadable} :
                        {s.val, s.file} \ {Unset} = {v}
             /\ {env'.pubkey.val, env'.pubkey.file} \ {Unset} = {conf'.key}]_vars
    BY <1>3
  <1> QED BY <1>4, PTL DEF Spec, BootIsUnambiguous
=============================================================================
