# A TLA+ development of ironbark

ironbark is a secret broker between a CI server and HashiCorp Vault. A CI
pipeline POSTs a signed request; ironbark mints a Vault token scoped to the
pipeline's repository, event and branch, sweeps the secrets that token can see,
and answers with them, or makes sure the token is gone. This directory models
that program in TLA+, checks the models with TLC on small instances, and proves
the safety properties that matter most with TLAPS for all instances.

## 1. The system

### Components

| component | state | operations | modelled by |
|---|---|---|---|
| Vault session (`internal/vaultx/client.go`) | `sessionOK`, `canaryOK`, the session token, two timers | `Login`, `renewSelf`, `Run`, `sessionLoop`, `Healthy`, `CanaryOK` | `VaultSession` |
| startup canary (`internal/vaultx/canary.go`) | the canary token it holds | `runCanary`, `canaryAssertMintProperties` | `VaultSession` |
| mint and revoke (`internal/vaultx/mint.go`) | none in the process; tokens at Vault | `MintToken`, `RevokeSelf` | `Broker`, `VaultSession` |
| broker (`internal/broker/broker.go`) | one `Handle` per request: the minted token, its leases, the result | `Handle` and its deferred revocation | `Broker` |
| directives and sweep (`internal/vaultx/sweep.go`) | the accumulator of one sweep | `ReadIdentity`, `ReadConfig`, `Sweep` | `Broker` (directives, `Sweep` by its outcomes), `Sweep` (the walk, call by call) |
| HTTP server (`internal/httpapi/server.go`) | per request the serving goroutine, the channel to the handler, the written status; counters | `handlePost`, `callHandler`, `renderResult`, `auditVerified` | `HttpApi` |
| process (`cmd/ironbark/main.go`) | serving, draining, gone | start, the signal (`Interrupt`), `Shutdown`, exit | `Ironbark` |
| identity and policy (`internal/identity`, `internal/policy`) | none | `Parse`, `Esc`, `Derive`, `Branchful` | `Naming` |
| signature check (`internal/wpsign`) | none | `Verify`; for tests, `SignOpts` | `Admission` |
| configuration (`internal/config`) | what `Load` returned at start | `Load` | `Admission` |
| metrics and logging (`internal/httpapi/server.go`) | counters | one outcome and one audit line per request, a line for a failed revocation | `HttpApi`: only the line for a failed revocation |

Vault, the network, the operator who writes token roles and the CI client are
the environment. They are modelled by what the code's calls can observe of them.

### How they interact

* One goroutine runs `Run`. Request handlers read one boolean of what it
  publishes, `CanaryOK()`, and mint with the session token it set last.
* Each POST has two goroutines: `handlePost`, which waits in a `select`, and
  `Handle`, which it started. They share the request's context and a channel
  with room for one result. When the context ends first the server answers 502
  and leaves `Handle` to unwind.
* All of them talk to one Vault with one session token and, per request, with
  the token minted for it. Vault revokes a token's leases with the token.
* `main` cancels `Run`'s context on a signal and waits up to 5 seconds for
  requests being served; it does not wait for handlers the server gave up on.

### What is hard, and what has to hold

1. *The verdict on the session* is published by one goroutine and used by
   others. It must never outlive the session it is about (`ReadyMeansVerified`,
   `GatePassesVerified`), never be better than what the canary saw
   (`OpenGateSawGoodRole`), and always be tried for again (`BecomesReady`).
2. *Somebody answers for every token.* Between the mint and the written response
   there are five Vault calls, a deadline, a client that may leave, and a select
   that may prefer the deadline to a result. A token must be delivered or
   revoked, or be given up for a reason one can name (`KeepsCustody`,
   `RevokedByOutcome`, `LiveTokensExplained`), and never be revoked under a
   response that carries it (`RepliesAreEarned`).
3. *Fail closed, and only with a reason.* An error, a malformed directive, a
   batch token or a repository that is not onboarded never leads to a 200
   (`ServedOnlyIfEntitled`; a `null` in `.config` is the exception, see
   `MalformedConfigIsRefused`), and a refused request has the reason its status
   stands for: a 204 hides nothing that could be served (`RefusedWithReason`).
4. *Nothing hangs*: handlers, requests, custody of a token, the goroutine and
   the process end whatever Vault does (`HandleReturns`, `EveryRequestAnswered`,
   `SettlesCustody`, `StopIsObserved`, `ShutdownEnds`).
5. *A sweep tells the truth about the store it saw.* It is up to dozens of calls
   with no snapshot: entries are written between a LIST and a GET, the token may
   lose its rights half-way, and what Vault refuses is skipped. What nobody
   wrote must be served or overruled by something more specific
   (`UntouchedIsServed`), names must go to the most specific writer for good
   (`PrecedenceIsFinal`), and a store that holds still must come out exactly,
   with its leases, even those that yielded nothing (`QuietSweepIsExact`). A
   value must never go out under the pins of another version of its entry
   (`SecretsAreOfOneVersion`), nor a secret that the token may not read.
6. *Who asks is who signed.* The network may delay, replay, damage or swap a
   message, both clocks are off, and ironbark restarts with other settings
   without a memory of what it has seen (`IdentityIsSigned`,
   `ReplaysStayInWindow`, `TimelyIsNeverRefused`, `BootIsUnambiguous`). Then the
   identity becomes policy names, which must not meet (`PoliciesSeparate`).

`PROJECT.json` lists under "hazards" each place of the code where one of these
can go wrong, with the properties that would show it, and the hazards that no
property covers yet.

## 2. The modules

`VaultSession` — the lifecycle goroutine and the canary. `pc` is where it is in
`Run`/`sessionLoop`/`runCanary`. It has one action per outcome of a Vault call,
and what the code does up to the next call belongs to that action. `epoch` numbers the
logins and stands for the session token; `seen` and `verifiedEpoch` record what
the canary saw and in which session it passed, and nothing in the code's actions
reads them. Timers carry no durations: an armed timer may fire. The bounds
(`MaxOutages`, `MaxRoleChanges`, `MaxExpiries`) limit the environment only.

`Broker` — `Handle` for a set of concurrent requests. `bpc` is the step of
`Handle`, `repo[r]` what Vault holds for the request's repository (which of the
requested policies exist, `.identity` against the payload, `.config` field by
field as it was written, JSON `null` among the values, and the names a sweep
finds; `Flat` and `Suppressed` are what the code makes of the fields), `Faults`
the kinds of call that may fail although their context is live. A call whose
context is over always may fail. `Finish` is `finish` together with the deferred
function that every return after the mint runs. A sweep is two or three steps:
it may create a lease, then succeeds or fails.

`HttpApi` extends `Broker` with the serving goroutine, the client and the
accounting. `RespondResult` and `RespondTimeout` are the two cases of
`callHandler`'s `select`; both may be enabled. `Respond` ends the request's
context, as `handlePost`'s deferred `cancel` does. Without its own variables it
is `Broker`: `KeepsBroker`.

`TokenCustody` — the abstract specification: for each request, whose the token
is (`none`, `held`, `delivered`, `revoked`, `abandoned`) and what the client was
told. It has no goroutines, calls, contexts or statuses. `HttpApi` implements
it under the mapping `CustodyOf`/`ReplyOf`: `KeepsCustody`.

`Ironbark` extends `HttpApi` and takes `VaultSession` as the instance `Session`.
`canaryOK` is one variable of both, so the environment action by which `HttpApi`
flips it is replaced by the session goroutine itself; a mint needs the session
token to be valid and takes the type of the role in force when it reaches Vault;
nothing is answered while Vault is down. `main`'s state is `proc`. The signal
(`Interrupt`) cancels `Run`'s context while the server still accepts, until `main`
gets to `Shutdown`; a listener that fails makes `main` do both at once. A request that
`Shutdown` finds between its arrival and the start of its handler goes on in the
code; here it counts as handed over just before, which is the same run, because
the hand-over touches nothing but its own request. The
process implements both of its parts: `KeepsSession` says that nobody else
writes what the session goroutine publishes, `KeepsServer` that the verdict, the
role and the drain reach the requests only as `HttpApi` lets them.

`Sweep` — one sweep, with one action per outcome of a Vault call: `List` a tier,
`ReadEntry`, `ReadPointer` and then `Deref`, the skips that a 403 or 404 leads
to, and `Fails` for everything else. `acc` is the accumulator; a secret in it
also remembers where it was found (`at`), which the code does not keep and no
action reads. Keys and fields are numbers in byte order, names are sequences of
parts, so that different keys and fields can normalise to one name. Between two
calls the repository's owner may write or delete any entry (`Write`, `Delete`)
and the token may die (`TokenDies`). `rights` is what the token's policies allow
and does not change. `held` records which entries each place has held since the
sweep began, and no action reads it. `Entries` are all there may be, `Rewrites`
those written during a sweep. `AllOffered` is the reference: what a store offers
to a token, said without a walk and without the walk's operators for entries and
replies (`Offers`). `Broker` keeps its own abstraction of a sweep: any set of
names, a lease that may be created by a dereference (`SweepLeases`), an error.

`Naming` — `Parse`, `Esc`, `Derive` and `Branchful` as operators. Branches are
sequences of bytes, because `Esc` works on bytes, and `Built` is the builder of its
loop after each of them; organisations, repositories
and events are names with a lower-case form. A policy is a sequence of segments.

`Admission` extends `Naming` with all that comes before the broker: `Load` when
the process starts, and for each delivery `handlePost` up to the hand-over, as
one action, because it keeps nothing for the next request and reads the clock
once. `Defects` lists the checks of `Verify` in the code's order; the first that
applies gives the reason. `mail` is what was signed: the network can deliver any
of it, any number of times, damaged (`Damages`) or with another body (`Swaps`).
`answer` is what the last delivery came to and is cleared by the next step of
anything else. Time is counted in ticks, `Second` of them to a second, because
`created` is rounded down to seconds while the drift is not; `skew` is
ironbark's clock against real time and `ahead` the signer's.

`MC*` give the constants their finite values. The `*_proofs` modules hold the
theorems.

A definition whose comment begins with "Mutant:" is a plausible bug, put in
place of the definition after it to see that a property notices. It takes no
part in any specification.

## 3. What the runs check

| run | instance | shows |
|---|---|---|
| `VaultSession` | 6 roles (one good, one for each wrong property), 2 outages, 2 role changes, 1 expiry | `SessionInv`, `ReadyMeansVerified`, `OpenGateSawGoodRole`, `StrayOnlyIfIrrevocable`; `BecomesReady`, `StopIsObserved` |
| `Broker` | 1 request, every repository over 2 policies, 2 names and 2 fields of `.config`; mints may fail, and every call once the context is over | `BrokerInv`, `RevokedByOutcome`, `ServedOnlyIfEntitled`, `RefusedWithReason` |
| `HttpApi` | 2 requests, a repository that is served and one that is not; revocations may fail, every call may hang | `ServerInv`, `RepliesAreEarned`, `LiveTokensExplained`, `KeepsBroker`, `KeepsCustody`; `SettlesCustody`, `HandleReturns` |
| `Ironbark` | 1 request, 3 roles, 1 outage, 1 role change, 1 expiry; every call may fail or hang | `ProcessInv`, `RepliesAreEarned`, `CleanExitCutsOnlyAbandoned`, `GatePassesVerified`, `KeepsSession`, `KeepsServer`; `ShutdownEnds`, `EveryRequestAnswered` |
| `Sweep` | 3 tiers, 2 plain keys and a hidden pointer, every store with one or two usual entries and those with an odd one, 3 sets of rights, 1 write | `SweepInv`, `QuietSweepIsExact`, `UntouchedIsServed`, `SecretsAreOfOneVersion`, `PrecedenceIsFinal` |
| `Admission` | half-second ticks to 2 s, clock off by up to half a second, a signer right, half a second behind or 2 s ahead; 20 payloads, 1 message, 2 starts out of 21 environments, windows of 1 s (for the default, which is 10 s), 1.5 s, 0 and -1 s | `AdmissionInv`, `IdentityIsSigned`, `ReplaysStayInWindow`, `TimelyIsNeverRefused`, `PoliciesSeparate`, `BootIsUnambiguous` |

*Bounds.* Requests do not influence each other except through the verdict, the
role and Vault, so two of them show every interleaving of serving goroutine and
handler next to another request's, and one suffices where the session goroutine
is the other actor. Two outages and role changes let a second one happen during
the recovery from the first; an expiry adds to that the one case of a renewal
that Vault refuses. In `Broker` no read fails while its context is live, so that
an error without a reason would show; such reads fail in the `Ironbark` run. Two
policies are what `policy.Derive` returns at most; one policy more than the
repository has makes the difference between "some" and "all" warned. Of the two
names one is `vault_token`. In `Sweep`, two entries are what a conflict needs,
in one tier or in two, and the two keys and two of the fields are chosen so that
a key alone and a key with a field meet in one name, and two fields differ in
case only; a single write can hit an entry listed but not read, read but not
dereferenced, not listed yet, or done. In `Admission` a delivery leaves no trace
that another one reads, so one message, delivered over and over across a
restart, shows what several would; the time is long enough for a message to
leave each window on either side.

*Deadlock.* `Broker` and `HttpApi` never deadlock, because the verdict can
always change. The `VaultSession` and `Ironbark` runs switch the check off: the
goroutine and the process really stop. So do the `Sweep` and `Admission` runs: a
sweep returns, and the modelled time ends.

*Fairness.* In `VaultSession` the goroutine keeps running, but its calls have no
deadline, so weak fairness is assumed of `Run` only while Vault answers or after
the stop, when the cancelled context ends any call. A login may also be
refused by a Vault that answers (`LoginFails`); `Run` tries for ever, so
`BecomesReady` rests on Vault not refusing its credentials for ever: strong
fairness of `LoginOK`, an assumption about the environment. Which ready case `select`
takes is random, so each case is taken if it is ready again and again (strong
fairness of `RenewDue`, `CanaryRetry`, `ObserveStop` and the cancelled wait). In
`HttpApi`, a call may stay unanswered for ever while its context is live; fair
are the serving goroutine, the deadline, the gate, which makes no call, the
failure of a call whose context is over, and the revocation, which has a
deadline of 5 seconds. `Sweep` and `Admission` assume none: they promise nothing
about when. In `Ironbark` nothing at all is assumed of the handlers,
of the session goroutine and of Vault: `main` (`Shutdown` after the signal, then
`Drained` or `DrainExpires`), the deadlines and the serving goroutines alone have
to answer every request and to end the process.

### Where the documentation says something else

Six runs check one sentence of a document or comment that the code does not
keep; TLC shows how. None of them says that the code is wrong: several are
limits that the design accepts elsewhere, with the token's TTL as the backstop.

| run | sentence | what happens |
|---|---|---|
| `Broker_lostmint` | "Mint itself failed: no token was minted, nothing to revoke." (`broker.go:209`) | the answer of a successful mint is lost |
| `Broker_names` | "Name collisions within one response: first writer wins" (`docs/SPEC.md:325`) | a swept `vault_token` is served next to the minted one |
| `Broker_config` | "a broken suppression directive must never silently fall back to defaults" (`broker.go:274-275`; also `sweep.go:226-228` and `docs/SPEC.md:394-398`) | a field of `.config` that is `null` decodes into an empty string, and the request is served |
| `HttpApi_late200` | "every non-200 response revokes the minted token" (`broker.go:4`) | the deadline beats a ready 200 |
| `Ironbark_hardgate` | no mint while the canary's state is unknown (`docs/SPEC.md:276-278`) | a re-login between the gate and the mint |
| `Ironbark_relogin` | "on re-login failure ... mints fail `502`" (`docs/SPEC.md:81-82`) | the old verdict and the old token still serve |

How far three of them go is proved (section 4): two secrets of a response share
a name only if that is `vault_token` or `vault_addr` and the repository's owner
used it (`CollisionsAreReserved`); a mint loses a token only by a call that failed
or whose context ended, and the request gets a 502 (`TokensAreLostByFailure`);
and the decoding behind `Broker_config`, `stringField`, makes of a swept value
that is `null` an empty secret, and lets no other value through that is not a string
(`OnlyNullIsNoString`; "any non-string JSON value (number, bool, array, object,
null) returns ("", false)", `sweep.go:106-107`).

What holds instead of the last two is `GatePassesVerified` (the verdict is right
when it is read) and `RepliesAreEarned` (each mint checks the token's type).

Four smaller differences have no run of their own. A directive whose body breaks
off is counted as malformed, hence 204, although `sweep.go:184-185` makes other
read failures a plain error and a 502 (`Broker` has it as an outcome of
`ReadIdentityFails`). "Revoke failures are logged" (`docs/SPEC.md:255`) is not
true of a handler the server gave up on; `LiveTokensExplained` therefore allows
for a 502. "One structured JSON log line per POST" (`docs/SPEC.md:489`): a body
that cannot be read is answered with 413 or 400 without a line and without a
count. And a dereferenced reply of KV v2 shape is said to be "classified exactly
like a swept entry" (`docs/SPEC.md:351`); since the single-value convention
(`sweep.go:530-540`) its `value` is served alone even next to other fields,
which is what `TargetSecrets` does.

## 4. What is proved

TLAPS checks every proof, for every value of the constants that meets the
modules' assumptions: any number of requests, policies, names, repositories and
roles, any set of failing calls, any store and number of writes, any window and
clock, any bound.

* `VaultSession_proofs`. `SessionInv` is inductive. `ReadyMeansVerified` alone
  is not: a step of `CanaryPasses` keeps it, but to know that what passed was
  conforming one needs that the token asked to revoke itself had passed the
  assertions (`pc = "revoke"`), and for the login that the gate is shut from
  there to the canary's end. From it follow `ReadyMeansVerified`,
  `OpenGateSawGoodRole` and the action property `StrayOnlyIfIrrevocable`.
* `Broker_proofs`. `BrokerInv` says for each step of `Handle` what the token,
  its type, its leases and the result are there (`Stage`). What comes to the
  deferred revocation is a live token with a status of 204 or 502 and no
  secrets; that makes `RevokedByOutcome` and `ServedOnlyIfEntitled` inductive.
  `RefusalsHaveReasons` adds to it what is known of the repository at each
  refusal. `ServedIsResponse` says what a 200 carries, no more and no less, and
  gives `CollisionsAreReserved`; `TokensAreLostByFailure` rests on a failed mint
  being the only step that loses a token, and `Handle`'s last.
* `HttpApi_proofs`. `ServerInv` adds `Linked`: a closed request either carries
  the 502 of the timeout or the handler's own status, after the handler is done,
  and its context is over. With `BrokerInv` it gives `RepliesAreEarned` and
  `LiveTokensExplained`, which is about the tokens that `Handle` has: one that
  the mint itself lost is `TokensAreLostByFailure`'s. Each step of the server is
  a step of `Broker` or a stutter (`ServerImplementsBroker`), so
  `RevokedByOutcome` and `ServedOnlyIfEntitled` hold of the server
  (`ServerKeepsPromises`).
* `Custody_proofs`. Each step of the server, seen through `CustodyOf` and
  `ReplyOf`, is a step of `TokenCustody` or a stutter: `ServerKeepsCustody`. The
  argument needs `ServerInv` for two things: a handler that still runs has not
  been answered with 200, and a call that succeeds does so before the answer.
  `OkMeansDelivered` is the abstract module's own promise, for the server.
* `Ironbark_proofs`. The process implements the session goroutine
  (`ProcessImplementsSession`) and the server (`ProcessImplementsServer`, which
  needs of the session's invariant that the role in force is one of `Roles`, so
  that a mint takes a type the server knows). Hence everything above holds of
  the process: `ProcessKeepsGate`, `ProcessRepliesAreEarned`,
  `ProcessKeepsCustody`. What relates the parts follows from both invariants and
  `main`'s (`ProcessInvariant`): `CleanExitIsHarmless`, and
  `GatePassesInVerifiedSession`, where the request's step at the gate meets the
  session's `ReadyMeansVerified`. The lemmas on the session's invariant are
  stated again through the instance `Session`, because this version of the
  prover cannot cite a theorem of an instantiated module.
* `Naming_proofs`. `EscInjective` for branches of any length. The 256 codes of a
  byte (itself, or a percent sign and two hexadecimal digits) are prefix-free
  (`CodesArePrefixFree`); the builder only grows, so each code stays in its
  place (`CodeInPlace`); hence two equal escapes agree byte by byte
  (`AgreeThroughout`). The library's induction takes an operator as a parameter,
  so `Counting` states induction for a set of numbers instead, by its least
  element. `EscIsOneSegment`: no slash, no leading dot, not empty. With both,
  `SharedPolicies`, and in `Admission_proofs` `PoliciesAreSeparate`: the
  policies of two accepted identities meet only where they should. It assumes of
  payloads what holds of every Go string: a branch is a sequence of bytes.
* `Admission_proofs`. `AdmissionInv` is inductive: it ties each accepted message
  to the window in force and the clock when it was accepted, and each signed
  message's `created` to the time it was signed. From it, by linear arithmetic
  over two acceptances of one message, `ReplaysAreBounded`
  (`ReplaysStayInWindow` for every window, skew and number of restarts), and
  with the bounds of rounding to seconds `TimelyIsServed`. `IdentitiesAreSigned`
  carries `IdentityIsSigned` along by cases on the eight defects, and
  `BootsAreUnambiguous` is an action property of `Load`.
* `Sweep_proofs`. `SweepInv` is inductive. What one wants, `Taken` (a name is
  taken once, and what was taken from an unwritten entry is what it offers) and
  `NothingMissed` (what unwritten entries behind the sweep offer is taken or
  overruled), is not by itself: a key can drop out of sight between the LIST and
  its turn (`Ahead`), and a pointer read before a write is followed after it
  (`Following`). Every answer to a GET comes to the same step, `Passes`: the
  candidates of the current key are taken and the sweep goes on. From the
  invariant follow `UntouchedAreServed`, `PrecedenceHolds` and, with the account
  of the leases, `QuietSweepsAreExact`. The reference that the last one measures
  with says what an entry offers as `docs/SPEC.md` 4.2 and 4.3 do (`Offers`),
  without the walk's classification; `OffersMeans` shows that the two come to
  the same. `SecretsAreWhole` strengthens `SecretsAreOfOneVersion` by what is in
  flight: the store, and a pointer read but not yet followed, are recorded in
  `held`. That sorted keys have a first is the one place where the well-order of
  the naturals comes in.

Every invariant and every safety action property that a passing run checks is
stated by a theorem. Only model-checked are the liveness properties
(`BecomesReady`, `StopIsObserved`, `SettlesCustody`, `HandleReturns`,
`ShutdownEnds`, `EveryRequestAnswered`): fairness and ENABLED are outside the
prover's reach. The six sentences that fail are refuted on their instances.

## 5. What is not modelled

* The two views of a sweep are not tied by a refinement: `Broker` takes any set of
  names and any of `Sweep`'s ends, which is more than `Sweep` can do. `Broker` fixes
  the names found (`repo[r]`) before the sweep and creates a lease and fails in
  two steps; `Sweep` finds the names as it goes and may do both in one, so a
  mapping would have to foresee the names.
* A secret that is moved, during a sweep, from a tier not yet swept to one
  already swept: it is in neither read, and nothing in the code can notice.
  The `Sweep` run has one write, so TLC does not show it; no property claims
  anything of entries that were written.
* Cryptography: a signature verifies exactly under its key and over the
  components covered. JSON, PEM and duration syntax: a payload, a key or a window
  is malformed, junk or good. `isKV2Shaped` is a flag of the reply.
* That events stay apart from branches in a policy's path: the code does not
  escape events, and `Naming` relies on Woodpecker's list, where none has a "/".
* Durations. Timers and deadlines may fire at any time after they are set.
  `revokeCleanupTimeout` and the requests' deadline appear as fairness.
* Vault revoking the tokens minted by a session when the session ends, for a
  role that is not orphan, and the TTL of minted tokens: a token that is `live`
  here may have expired at Vault.
* `/healthz`, `/readyz`, `/metrics` as requests: they read `Healthy` and change
  nothing. The counters behind `/metrics`.
* Durations of leases: the half-life rule, and a lease of a second or less, for
  which the code renews without a pause (`client.go:140`).
* Login, renewal and canary calls that are never answered (`client.go:311`): they
  have no deadline. `VaultSession` allows for it, and no property can promise
  anything until Vault answers or the process is stopped.

## 6. Plan

1. (done) `VaultSession`, `Broker`, `HttpApi`, `TokenCustody`, `Ironbark`, their
   runs, and the proofs about them.
2. (done) `Sweep`, `Naming`, `Admission`, and the proofs of section 4.
3. (done) The composition and the naming: `Ironbark` implements its parts,
   `HttpApi` implements `Broker`, `Esc` is injective, and every invariant and
   action property of a run is a theorem.
4. `SessionRenewal`: `VaultSession` with lease durations, for the half-life rule
   and the lease of one second.
