------------------------------ MODULE Admission ------------------------------
(***************************************************************************)
(* What stands between the network and the broker: config.Load at boot,    *)
(* then steps 1 to 4 of handlePost for every POST: read the body, verify   *)
(* the signature and its age, parse the payload.                           *)
(*                                                                         *)
(* Woodpecker signs; the network keeps what it has seen, delivers it any   *)
(* number of times, late or damaged; clocks drift; ironbark restarts with  *)
(* another environment.  Handling one POST keeps nothing for the next, so  *)
(* a delivery is one action; it reads the clock once.                      *)
(***************************************************************************)
EXTENDS Naming, Integers, FiniteSets

CONSTANTS
    Environments,   \* the environments ironbark may be started in
    Keys,           \* Ed25519 public keys
    Payloads,       \* request bodies
    Swaps,          \* bodies that may arrive in the place of the signed one
    Signings,       \* how a body may be signed
    DefaultWindow,  \* withDefault of the freshness window, in ticks
    MaxSkew,        \* how far ironbark's clock strays from real time
    Second,         \* ticks to a second: "created" counts seconds
    MaxTime,        \* bound: ticks of real time
    MaxSigned,      \* bound: signed messages
    MaxBoots        \* bound: starts of ironbark

\* What a variable, or the file its _FILE variant names, may hold.
Unset      == ""
Blank      == " "
Unreadable == "unreadable"

Secrets(e) == {e.pubkey, e.role, e.secret}

NoVar == [val |-> Unset, file |-> Unset]
NoEnvironment ==
    [pubkey |-> NoVar, addr |-> Unset, role |-> NoVar, secret |-> NoVar,
     window |-> [kind |-> "unset", ticks |-> 0]]

ASSUME EnvironmentsAssumption ==
    \A e \in Environments :
        /\ DOMAIN e = {"pubkey", "addr", "role", "secret", "window"}
        /\ \A s \in Secrets(e) : DOMAIN s = {"val", "file"} /\ s.val # Unreadable
        /\ DOMAIN e.window = {"kind", "ticks"}
        /\ e.window.kind \in {"unset", "junk", "given"} /\ e.window.ticks \in Int
ASSUME KeysAssumption == {Unset, Blank, Unreadable} \cap Keys = {}
ASSUME SigningsAssumption ==
    \A s \in Signings :
        /\ DOMAIN s = {"payload", "key", "covers", "dated", "ahead"}
        /\ s.payload \in Payloads /\ s.key \in Keys
        /\ s.covers \in BOOLEAN /\ s.dated \in BOOLEAN /\ s.ahead \in Int
ASSUME PayloadsAssumption == \A p \in Payloads : p.branch \in Seq(Bytes)
ASSUME SwapsAssumption == Swaps \subseteq Payloads
ASSUME TimeAssumption ==
    DefaultWindow \in Nat /\ MaxSkew \in Nat /\ Second \in Nat \ {0} /\ MaxTime \in Nat
ASSUME BoundsAssumption == MaxSigned \in Nat /\ MaxBoots \in Nat

VARIABLES
    now,       \* real time
    skew,      \* ironbark's clock minus real time
    phase,     \* of the process: "down", "serving", or "exited" by Load
    boots,     \* how often it was started
    env,       \* the environment of the process that serves
    conf,      \* Config: the key and the window
    mail,      \* signed messages: the network can deliver each of them
    answer,    \* what the last delivery came to, until the next step
    accepted   \* what was handed to the broker

clock == <<now, skew>>
boot  == <<phase, boots, env, conf>>
vars  == <<clock, boot, mail, answer, accepted>>

TypeOK ==
    /\ now \in 0..MaxTime /\ skew \in -MaxSkew..MaxSkew
    /\ phase \in {"down", "serving", "exited"} /\ boots \in 0..MaxBoots
    /\ env \in Environments \cup {NoEnvironment}
    /\ DOMAIN conf = {"key", "window"} /\ conf.window \in Int
    /\ phase = "serving" => conf.key \in Keys
    /\ \A m \in mail : /\ m.by \in Signings
                       /\ m.created \in Int /\ m.at \in 0..now
    /\ \A r \in answer : r.msg \in mail /\ r.status \in {200, 400, 401, 413}
    /\ \A a \in accepted : /\ a.msg \in mail /\ a.at \in 0..now
                           /\ a.window \in Int /\ a.key \in Keys

Init ==
    /\ now = 0 /\ skew \in -MaxSkew..MaxSkew
    /\ phase = "down" /\ boots = 0 /\ env = NoEnvironment
    /\ conf = [key |-> Unset, window |-> 0]
    /\ mail = {} /\ answer = {} /\ accepted = {}

-----------------------------------------------------------------------------
(***************************************************************************)
(* config.Load.                                                            *)
(***************************************************************************)
\* What requiredSecret takes: the file's content when the path is set.
Content(s) == IF s.file # Unset THEN s.file ELSE s.val

\* Mutant: when both are set, one of them is taken.
ResolvesEither(s) == Content(s) \notin {Unset, Blank, Unreadable}

\* Mutant: whatever is there is taken.
ResolvesUnread(s) ==
    /\ s.val = Unset \/ s.file = Unset
    /\ Content(s) # Unset

\* requiredSecret succeeds: one of the two is set, and what it holds can be
\* read and is not blank.
Resolves(s) ==
    /\ s.val = Unset \/ s.file = Unset
    /\ Content(s) \notin {Unset, Blank, Unreadable}

\* The window is any duration, a negative one too.
Window(e) == IF e.window.kind = "unset" THEN DefaultWindow ELSE e.window.ticks

Loads(e) ==
    /\ \A s \in Secrets(e) : Resolves(s)
    /\ Content(e.pubkey) \in Keys          \* parseEd25519PublicKey
    /\ e.addr # Unset
    /\ e.window.kind # "junk"

\* The process starts, for the first time or again, in the environment it
\* finds, and serves or exits.
Load(e) ==
    /\ phase # "serving" /\ boots < MaxBoots
    /\ boots' = boots + 1
    /\ \/ /\ Loads(e) /\ phase' = "serving" /\ env' = e
          /\ conf' = [key |-> Content(e.pubkey), window |-> Window(e)]
       \/ /\ ~Loads(e) /\ phase' = "exited" /\ UNCHANGED <<env, conf>>
    /\ answer' = {}
    /\ UNCHANGED <<clock, mail, accepted>>

\* The process ends: a crash, or a signal.
Stop ==
    /\ phase = "serving" /\ phase' = "down"
    /\ env' = NoEnvironment /\ conf' = [key |-> Unset, window |-> 0]
    /\ answer' = {}
    /\ UNCHANGED <<clock, boots, mail, accepted>>

-----------------------------------------------------------------------------
(***************************************************************************)
(* wpsign.Verify and handlePost.                                           *)
(***************************************************************************)
\* What may happen to a message on its way: nothing; the signature headers
\* dropped or unreadable; the digest header dropped; another covered component
\* changed; the body too large, or cut off.
Damages == {"none", "unsigned", "garbled", "digestless", "altered", "oversized", "cut"}

\* now().Sub(created), on ironbark's clock.
Drift(m) == now + skew - m.created

\* Mutants: only old messages are stale; the edges of the window are outside.
StaleOneSided(m)  == Drift(m) > conf.window
StaleExclusive(m) == Drift(m) >= conf.window \/ Drift(m) <= -conf.window

Stale(m) == Drift(m) > conf.window \/ Drift(m) < -conf.window

\* Mutant: the digest header is trusted, as the signing library leaves it.
DefectsUndigested(m, damage, body) ==
    << damage = "unsigned", damage = "garbled", ~m.by.covers, damage = "digestless",
       m.by.key # conf.key \/ damage = "altered", FALSE, ~m.by.dated, Stale(m) >>

\* The checks of Verify, in its order, and the reason each one gives.
Defects(m, damage, body) ==
    << damage = "unsigned", damage = "garbled", ~m.by.covers, damage = "digestless",
       m.by.key # conf.key \/ damage = "altered",
       body # m.by.payload, ~m.by.dated, Stale(m) >>

Reasons ==
    << "missing_signature", "unparseable", "uncovered_component", "digest_mismatch",
       "wrong_key", "digest_mismatch", "missing_created", "stale_created" >>

\* What a delivery came to.
Answer(m, damage, body, status, reason) ==
    answer' = {[msg |-> m, damage |-> damage, body |-> body,
                status |-> status, reason |-> reason]}

BodyRead(damage) == damage \notin {"oversized", "cut"}

ReadFails(m, damage, body) ==
    /\ ~BodyRead(damage)
    /\ Answer(m, damage, body, IF damage = "oversized" THEN 413 ELSE 400, "unread")
    /\ UNCHANGED accepted

\* logRefusedSignature counts and logs the first reason.
Refuse(m, damage, body) ==
    /\ BodyRead(damage)
    /\ \E i \in DOMAIN Reasons :
          /\ Defects(m, damage, body)[i]
          /\ \A j \in 1..(i - 1) : ~Defects(m, damage, body)[j]
          /\ Answer(m, damage, body, 401, Reasons[i])
    /\ UNCHANGED accepted

Verified(m, damage, body) ==
    BodyRead(damage) /\ \A i \in DOMAIN Reasons : ~Defects(m, damage, body)[i]

ParseFails(m, damage, body) ==
    /\ Verified(m, damage, body) /\ Malformed(body)
    /\ Answer(m, damage, body, 400, "malformed")
    /\ UNCHANGED accepted

\* The identity goes to the broker; the answer is the broker's.
Admit(m, damage, body) ==
    /\ Verified(m, damage, body) /\ ~Malformed(body)
    /\ accepted' = accepted \cup
          {[msg |-> m, at |-> now, window |-> conf.window, key |-> conf.key,
            id |-> Identity(body)]}
    /\ Answer(m, damage, body, 200, "none")

handlePost(m, damage, body) ==
    /\ phase = "serving"
    /\ \/ ReadFails(m, damage, body)
       \/ Refuse(m, damage, body)
       \/ ParseFails(m, damage, body)
       \/ Admit(m, damage, body)
    /\ UNCHANGED <<clock, boot, mail>>

-----------------------------------------------------------------------------
(***************************************************************************)
(* Woodpecker, the network and the clocks.                                 *)
(***************************************************************************)
\* "created" is in whole seconds of the signer's clock, which is s.ahead off.
Seconds(t) == t - (t % Second)

Sign(s) ==
    /\ Cardinality(mail) < MaxSigned
    /\ mail' = mail \cup
          {[by |-> s, at |-> now, created |-> Seconds(now + s.ahead)]}
    /\ answer' = {}
    /\ UNCHANGED <<clock, boot, accepted>>

\* The body that arrives is the one that was signed, or another.
Deliver(m) ==
    \/ \E damage \in Damages : handlePost(m, damage, m.by.payload)
    \/ \E body \in Swaps : handlePost(m, "none", body)

Tick ==
    /\ now < MaxTime /\ now' = now + 1 /\ skew' \in -MaxSkew..MaxSkew
    /\ answer' = {}
    /\ UNCHANGED <<boot, mail, accepted>>

Next ==
    \/ Tick \/ Stop
    \/ \E e \in Environments : Load(e)
    \/ \E s \in Signings : Sign(s)
    \/ \E m \in mail : Deliver(m)

Spec == Init /\ [][Next]_vars

-----------------------------------------------------------------------------
(***************************************************************************)
(* Properties.                                                             *)
(***************************************************************************)
\* The policies of everything a payload may stand for.
PoliciesOf ==
    [id \in {Identity(p) : p \in {q \in Payloads : ~Malformed(q)}} |-> Derive(id)]

Abs(n) == IF n < 0 THEN -n ELSE n

\* An accepted message was, on ironbark's clock at that moment, within the
\* window of the time it was dated, and what is in force is what was loaded.
AdmissionInv ==
    /\ TypeOK
    /\ phase = "serving" => /\ Loads(env)
                            /\ conf = [key |-> Content(env.pubkey), window |-> Window(env)]
    /\ \A m \in mail : m.created = Seconds(m.at + m.by.ahead)
    /\ \A a \in accepted :
          /\ a.at + MaxSkew - a.msg.created >= -a.window
          /\ a.at - MaxSkew - a.msg.created <= a.window
          /\ a.window >= 0

\* Whatever was delivered, damaged or swapped on the way, the identity handed
\* to the broker is the one Woodpecker signed, with the key configured, over
\* all that must be covered.
IdentityIsSigned ==
    \A a \in accepted :
        /\ a.key = a.msg.by.key /\ a.msg.by.covers
        /\ ~Malformed(a.msg.by.payload) /\ a.id = Identity(a.msg.by.payload)

\* There is no memory of requests: a message may be replayed, but never over
\* more than its two windows and the drift of the clock, restarts and changes
\* of the window included.
ReplaysStayInWindow ==
    \A a, b \in accepted :
        a.msg = b.msg => Abs(a.at - b.at) <= a.window + b.window + 2 * MaxSkew

\* A message under the configured key that arrives whole, and soon enough that
\* delay, clocks and the rounding of "created" leave it in the window, gets
\* past the signature.
TimelyIsNeverRefused ==
    \A r \in answer :
        /\ r.damage = "none" /\ r.body = r.msg.by.payload
        /\ r.msg.by.key = conf.key /\ r.msg.by.covers /\ r.msg.by.dated
        /\ now - r.msg.at + MaxSkew + Abs(r.msg.by.ahead) + Second - 1 <= conf.window
        => r.status # 401

\* Two identities share a policy only if they are of the same repository and
\* event, and a branch policy only if the branch is the same byte by byte; its
\* last segment is one path segment and not hidden from LIST.
PoliciesSeparate ==
    \A a \in accepted :
        /\ \A id \in DOMAIN PoliciesOf : \A shared \in Derive(a.id) \cap PoliciesOf[id] :
              /\ P1(a.id) = P1(id)
              /\ shared # P1(a.id) => a.id.branch = id.branch
        /\ HasBranchPolicy(a.id) =>
              LET escaped == Esc(a.id.branch)
              IN  escaped[1] # Dot /\ \A i \in DOMAIN escaped : escaped[i] # Slash

\* "A var and its _FILE variant both set (ambiguous - refused rather than
\* guessed)": once ironbark serves, no value its environment offers for a
\* secret is another than the one in use, which was read and is not blank, and
\* the key verified against is it.
BootIsUnambiguous ==
    [][phase # "serving" /\ phase' = "serving" =>
         /\ \A s \in Secrets(env') :
               \E v \in {s.val, s.file} \ {Blank, Unreadable} :
                   {s.val, s.file} \ {Unset} = {v}
         /\ {env'.pubkey.val, env'.pubkey.file} \ {Unset} = {conf'.key}]_vars
=============================================================================
