-------------------------------- MODULE Sweep --------------------------------
(***************************************************************************)
(* vaultx.Client.Sweep: one request's walk over the KV tiers it may see,   *)
(* most specific first, with the minted token.  Each tier is LISTed, each  *)
(* plain key of the list is read, a pointer is dereferenced once, and the  *)
(* string fields found become secrets; a name goes to its first writer.    *)
(*                                                                         *)
(* One action per Vault call.  Between two calls the repository's owners   *)
(* may write the store, and the token may be revoked or expire: a read     *)
(* that Vault refuses is skipped, not reported.                            *)
(*                                                                         *)
(* Keys and fields are numbers in byte order.  A name is the sequence of   *)
(* its parts between underscores, after normalizeName: so <<"db">> joined  *)
(* with <<"user">> is the name of a key "DB-User".                         *)
(***************************************************************************)
EXTENDS Naturals, Sequences

CONSTANTS
    Keys, Plain,           \* keys; those not dot-prefixed and no directories
    Fields,                \* field names of entries and of referenced data
    RefField, ValueField,  \* "$ref" and "value"
    KeyName, FieldName,    \* the parts of the normalised names
    BadParts,              \* parts with a character names may not have
    Strings,               \* JSON strings, as values and as paths
    Reply,                 \* what Vault answers to a GET of a $ref's path
    Entries,               \* KV entries there may be
    Rewrites,              \* those that may be written during a sweep
    Stores,                \* the stores a sweep may start with
    Grants,                \* what the minted token may be allowed to read
    MaxWrites              \* bound: writes to the store during the sweep

AllTiers == <<"branch", "event", "base">>
TierNames == {AllTiers[i] : i \in 1..3}
Places == TierNames \X Keys

\* The JSON values of a field: a string, null, or anything else.
Null  == "null"
Other == "other"
Value == Strings \cup {Null, Other}

Data == UNION {[F -> Value] : F \in SUBSET Fields}

ASSUME KeysAssumption == Keys \subseteq Nat /\ Plain \subseteq Keys
ASSUME FieldsAssumption ==
    Fields \subseteq Nat /\ {RefField, ValueField} \subseteq Fields /\ RefField # ValueField
ASSUME NamesAssumption ==
    /\ \A k \in Keys : KeyName[k] \in Seq(STRING)
    /\ \A f \in Fields : FieldName[f] \in Seq(STRING)
ASSUME StringsAssumption == {"", Null, Other} \cap Strings = {}
ASSUME ReplyAssumption ==
    /\ DOMAIN Reply \subseteq Strings
    /\ \A p \in DOMAIN Reply :
          /\ DOMAIN Reply[p] = {"data", "kv2", "lease"}
          /\ Reply[p].data \in Data
          /\ Reply[p].kv2 \in BOOLEAN /\ Reply[p].lease \in BOOLEAN
ASSUME EntriesAssumption ==
    /\ \A e \in Entries : DOMAIN e = {"data", "pin"} /\ e.data \in Data
    /\ Rewrites \subseteq Entries
ASSUME StoresAssumption ==
    \A s \in Stores : DOMAIN s \subseteq Places /\ \A p \in DOMAIN s : s[p] \in Entries
ASSUME BoundAssumption == MaxWrites \in Nat

VARIABLES
    store,    \* the repository's KV entries: a function on the places in use
    rights,   \* the paths the token's policies allow it to read
    alive,    \* Vault still accepts the token
    tiers,    \* Sweep's tier paths, most specific first
    pc,       \* the call Sweep is about to make, or how it ended
    tier,     \* the tier being swept
    todo,     \* keys of the tier still to be read
    pending,  \* the pointer being dereferenced
    acc,      \* sweepAccumulator.secrets
    leasesCreated,  \* sweepAccumulator.leasesCreated
    touched,  \* places written since the sweep began
    held,     \* what each place has held since then: <<place, entry>>
    writes    \* how often

sweeper == <<pc, tier, todo, pending, acc, leasesCreated>>
vault   == <<store, rights, alive, touched, held, writes>>
vars    == <<sweeper, vault, tiers>>

Nowhere == [path |-> "", pin |-> ""]

TypeOK ==
    /\ DOMAIN store \subseteq Places /\ \A p \in DOMAIN store : store[p] \in Entries
    /\ rights \in Grants /\ alive \in BOOLEAN
    /\ tiers \in {AllTiers, Tail(AllTiers)}
    /\ pc \in {"list", "entry", "deref", "done", "failed"}
    /\ tier \in 1..(Len(tiers) + 1)
    /\ todo \subseteq Plain
    /\ DOMAIN pending = {"path", "pin"}
    /\ \A s \in acc : /\ DOMAIN s = {"name", "value", "pin", "at"}
                      /\ s.at \in (1..Len(tiers)) \X Plain \X Fields
    /\ leasesCreated \in BOOLEAN
    /\ touched \subseteq Places /\ writes \in Nat
    /\ held \subseteq Places \X Entries

\* Only a branchful event with a branch has a branch tier.
Init ==
    /\ store \in Stores /\ rights \in Grants /\ alive = TRUE
    /\ tiers \in {AllTiers, Tail(AllTiers)}
    /\ pc = "list" /\ tier = 1 /\ todo = {} /\ pending = Nowhere
    /\ acc = {} /\ leasesCreated = FALSE
    /\ touched = {} /\ writes = 0
    /\ held = {<<p, store[p]>> : p \in DOMAIN store}

-----------------------------------------------------------------------------
(***************************************************************************)
(* Entries and the secrets they offer.  A candidate remembers where it was *)
(* found: <<tier, key, field>>, the order in which Sweep comes by.         *)
(***************************************************************************)
\* stringField: encoding/json decodes null into a string without an error
\* and leaves it empty, so null passes for a string.
IsString(v) == v # Other
Decoded(v)  == IF v = Null THEN "" ELSE v

\* isPointerForm and isShorthandForm: the one field there is.
IsPointer(d)   == DOMAIN d = {RefField}

\* Mutant: a "value" among other fields is enough.
IsShorthandAmong(d) == ValueField \in DOMAIN d

IsShorthand(d) == DOMAIN d = {ValueField}

Candidate(name, v, pin, at) ==
    [name |-> name, value |-> Decoded(v), pin |-> pin, at |-> at]

\* The secret of key k alone, and one secret for each string field of d.
Single(i, k, v, pin) ==
    {Candidate(KeyName[k], v, pin, <<i, k, ValueField>>) : w \in {x \in {v} : IsString(x)}}

Flattened(i, k, d, pin) ==
    {Candidate(KeyName[k] \o FieldName[f], d[f], pin, <<i, k, f>>) :
        f \in {g \in DOMAIN d : IsString(d[g])}}

EntrySecrets(i, k, e) ==
    IF IsPointer(e.data) THEN {}
    ELSE IF IsShorthand(e.data) THEN Single(i, k, e.data[ValueField], e.pin)
    ELSE Flattened(i, k, e.data, e.pin)

\* Mutant: the reply's shape is not looked at.
TargetSecretsAnyShape(i, k, pin, r) ==
    IF ValueField \in DOMAIN r.data /\ IsString(r.data[ValueField])
    THEN Single(i, k, r.data[ValueField], pin)
    ELSE Flattened(i, k, r.data, pin)

\* A reply of KV v2 shape with a string "value" is one secret whatever its
\* other fields are; the pin is the entry's, never the target's.
TargetSecrets(i, k, pin, r) ==
    IF r.kv2 /\ ValueField \in DOMAIN r.data /\ IsString(r.data[ValueField])
    THEN Single(i, k, r.data[ValueField], pin)
    ELSE Flattened(i, k, r.data, pin)

ValidName(name) == \A n \in DOMAIN name : name[n] \notin BadParts

Before(a, b) ==
    \/ a[1] < b[1]
    \/ a[1] = b[1] /\ a[2] < b[2]
    \/ a[1] = b[1] /\ a[2] = b[2] /\ a[3] < b[3]

\* Among candidates, the first writer of each valid name.
Firsts(cands) ==
    {c \in cands : /\ ValidName(c.name)
                   /\ \A d \in cands : d.name = c.name => ~Before(d.at, c.at)}

\* Mutant: a name goes to its last writer.
AddLast(cands) ==
    acc' = {s \in acc : \A c \in Firsts(cands) : c.name # s.name} \cup Firsts(cands)

\* sweepAccumulator.add for each candidate, fields in sorted order.
Add(cands) ==
    acc' = acc \cup {c \in Firsts(cands) : \A s \in acc : s.name # c.name}

-----------------------------------------------------------------------------
(***************************************************************************)
(* Sweep, sweepTier, sweepEntry and sweepDeref, call by call.              *)
(***************************************************************************)
\* vaultGet finds the path; a 403 or a 404 is an answer too, and skipped.
Readable(path) == alive /\ path \in rights

\* Mutant: the keys are taken as Vault lists them.
LastKey(keys) == CHOOSE k \in keys : \A m \in keys : m <= k

\* The keys are sorted before they are read.
FirstKey(keys) == CHOOSE k \in keys : \A m \in keys : k <= m

\* Go on with the rest of the tier's keys, or with the next tier.
Advance(rest) ==
    \/ /\ rest # {}
       /\ todo' = rest /\ pc' = "entry" /\ UNCHANGED tier
    \/ /\ rest = {} /\ tier < Len(tiers)
       /\ todo' = {} /\ pc' = "list" /\ tier' = tier + 1
    \/ /\ rest = {} /\ tier = Len(tiers)
       /\ todo' = {} /\ pc' = "done" /\ tier' = tier + 1

\* Mutant: dot-prefixed keys and directories are read as well.
ListedAll(t) == {k \in Keys : <<t, k>> \in DOMAIN store}

\* listTierKeys: the plain keys of the tier at this moment.
Listed(t) == {k \in Plain : <<t, k>> \in DOMAIN store}

List ==
    /\ pc = "list"
    /\ Advance(IF Readable(<<tiers[tier]>>) THEN Listed(tiers[tier]) ELSE {})
    /\ UNCHANGED <<pending, acc, leasesCreated, vault, tiers>>

Key   == FirstKey(todo)
Place == <<tiers[tier], Key>>
Found == Place \in DOMAIN store /\ Readable(Place)

\* A pointer whose path is no string yields nothing; null is the path "".
Points(e) == IsPointer(e.data) /\ IsString(e.data[RefField])

ReadPointer ==
    /\ pc = "entry" /\ Found /\ Points(store[Place])
    /\ pending' = [path |-> Decoded(store[Place].data[RefField]),
                   pin |-> store[Place].pin]
    /\ pc' = "deref"
    /\ UNCHANGED <<tier, todo, acc, leasesCreated, vault, tiers>>

ReadEntry ==
    /\ pc = "entry" /\ Found /\ ~Points(store[Place])
    /\ Add(EntrySecrets(tier, Key, store[Place]))
    /\ Advance(todo \ {Key})
    /\ UNCHANGED <<pending, leasesCreated, vault, tiers>>

\* The entry vanished since the LIST, or the token may not read it.
SkipEntry ==
    /\ pc = "entry" /\ ~Found
    /\ Advance(todo \ {Key})
    /\ UNCHANGED <<pending, acc, leasesCreated, vault, tiers>>

Resolves == pending.path \in DOMAIN Reply /\ Readable(<<pending.path>>)

\* Mutant: the flag follows the secrets found, not the lease.
NoteLeaseIfServed(r) == leasesCreated' = (leasesCreated \/ (r.lease /\ acc' # acc))

NoteLease(r) == leasesCreated' = (leasesCreated \/ r.lease)

\* Mutant: the pins are looked up when the target has answered.
DerefRereads ==
    /\ pc = "deref" /\ Resolves
    /\ Add(TargetSecrets(tier, Key, IF Found THEN store[Place].pin ELSE pending.pin,
                         Reply[pending.path]))
    /\ NoteLease(Reply[pending.path])
    /\ pending' = Nowhere
    /\ Advance(todo \ {Key})
    /\ UNCHANGED <<vault, tiers>>

\* One level only: what comes back is never followed further.
Deref ==
    /\ pc = "deref" /\ Resolves
    /\ Add(TargetSecrets(tier, Key, pending.pin, Reply[pending.path]))
    /\ NoteLease(Reply[pending.path])
    /\ pending' = Nowhere
    /\ Advance(todo \ {Key})
    /\ UNCHANGED <<vault, tiers>>

SkipDeref ==
    /\ pc = "deref" /\ ~Resolves
    /\ pending' = Nowhere
    /\ Advance(todo \ {Key})
    /\ UNCHANGED <<acc, leasesCreated, vault, tiers>>

\* Mutant: a failed call ends the sweep with what there is.
FailsOver ==
    /\ pc \in {"list", "entry", "deref"}
    /\ pc' = "done" /\ tier' = Len(tiers) + 1 /\ todo' = {}
    /\ UNCHANGED <<pending, acc, leasesCreated, vault, tiers>>

\* Any other status, a transport failure, the end of the request's context or
\* an answer that does not decode ends the sweep with an error and without
\* secrets.  (What leases there are go with the token, see Broker.)
Fails ==
    /\ pc \in {"list", "entry", "deref"}
    /\ pc' = "failed" /\ acc' = {}
    /\ UNCHANGED <<tier, todo, pending, leasesCreated, vault, tiers>>

-----------------------------------------------------------------------------
(***************************************************************************)
(* The environment.                                                        *)
(***************************************************************************)
\* The owner of the repository writes an entry, or deletes it.
Touch(p) ==
    /\ writes < MaxWrites /\ writes' = writes + 1
    /\ touched' = touched \cup {p}
    /\ UNCHANGED <<rights, alive, sweeper, tiers>>

Write(p, e) ==
    /\ store' = [q \in DOMAIN store \cup {p} |-> IF q = p THEN e ELSE store[q]]
    /\ held' = held \cup {<<p, e>>}
    /\ Touch(p)

Delete(p) ==
    /\ p \in DOMAIN store
    /\ store' = [q \in DOMAIN store \ {p} |-> store[q]]
    /\ UNCHANGED held
    /\ Touch(p)

\* The token is revoked or reaches its TTL: from now on each read is a 403.
TokenDies ==
    /\ alive /\ alive' = FALSE
    /\ UNCHANGED <<store, rights, touched, held, writes, sweeper, tiers>>

-----------------------------------------------------------------------------
Sweeping == \/ List \/ ReadPointer \/ ReadEntry \/ SkipEntry
            \/ Deref \/ SkipDeref \/ Fails

Environment ==
    \/ TokenDies
    \/ \E p \in TierNames \X Plain : Delete(p) \/ \E e \in Rewrites : Write(p, e)

Next ==
    \/ Sweeping
    \/ pc \notin {"done", "failed"} /\ Environment

Spec == Init /\ [][Next]_vars

-----------------------------------------------------------------------------
(***************************************************************************)
(* What a sweep is for: the secrets a store offers to a token, said of     *)
(* entries and replies as they are, without the walk's own classification  *)
(* (SPEC 4.2 and 4.3).                                                     *)
(***************************************************************************)
\* The entry is {"$ref": "<path>"}, and the token may read the path.
Aims(e) ==
    /\ DOMAIN e.data = {RefField} /\ e.data[RefField] # Other
    /\ <<Decoded(e.data[RefField])>> \in rights
    /\ Decoded(e.data[RefField]) \in DOMAIN Reply

Aim(e) == Reply[Decoded(e.data[RefField])]

\* The fields an entry stands for: its target's, its own, or none.
Stands(e) ==
    IF Aims(e) THEN Aim(e).data
    ELSE [f \in {g \in DOMAIN e.data : DOMAIN e.data # {RefField}} |-> e.data[f]]

\* Its value is a secret of its own: {"value": v}, or v among the fields of a
\* target of KV v2 shape.
Alone(e) ==
    \/ DOMAIN e.data = {ValueField}
    \/ /\ Aims(e) /\ Aim(e).kv2
       /\ ValueField \in DOMAIN Aim(e).data /\ Aim(e).data[ValueField] # Other

\* What an entry offers whose directory and own path may be read: its string
\* fields, under the entry's own pin.
Offers(i, k, e) ==
    {[name |-> IF Alone(e) THEN KeyName[k] ELSE KeyName[k] \o FieldName[f],
      value |-> Decoded(Stands(e)[f]), pin |-> e.pin, at |-> <<i, k, f>>] :
        f \in {g \in DOMAIN Stands(e) : /\ Stands(e)[g] # Other
                                        /\ Alone(e) => g = ValueField}}

\* What the place of key k in tier i offers as the store is now.
Offered(i, k) ==
    LET p == <<tiers[i], k>>
    IN  IF <<tiers[i]>> \notin rights \/ p \notin DOMAIN store \/ p \notin rights THEN {}
        ELSE Offers(i, k, store[p])

AllOffered == UNION {Offered(i, k) : i \in 1..Len(tiers), k \in Plain}

\* A pointer to an engine that leases, among the entries the token may read.
Leasing(i, k) ==
    LET p == <<tiers[i], k>>
    IN  /\ {<<tiers[i]>>, p} \subseteq rights /\ p \in DOMAIN store
        /\ Aims(store[p]) /\ Aim(store[p]).lease

-----------------------------------------------------------------------------
(***************************************************************************)
(* Properties.                                                             *)
(***************************************************************************)
\* Keys a sweep has been past.
Visited(i, k) ==
    \/ i < tier
    \/ i = tier /\ pc \in {"entry", "deref"} /\ k < FirstKey(todo)

Covers(s, c) == s.name = c.name /\ ~Before(c.at, s.at)

\* How far the walk is; only a tier the token may list is read.
Progress ==
    /\ pc = "list" => todo = {} /\ tier <= Len(tiers)
    /\ pc \in {"entry", "deref"} =>
          todo # {} /\ tier <= Len(tiers) /\ <<tiers[tier]>> \in rights
    /\ pc = "done" => tier = Len(tiers) + 1

\* What the tier has at or behind the current key is still to be read.
Ahead ==
    pc \in {"entry", "deref"} =>
        \A k \in Plain : <<tiers[tier], k>> \in DOMAIN store \ touched =>
            k \in todo \/ k < Key

\* The pointer being followed is the one the current entry holds.
Following ==
    pc = "deref" =>
        /\ Place \in rights
        /\ Place \notin touched =>
              /\ Place \in DOMAIN store /\ Points(store[Place])
              /\ pending = [path |-> Decoded(store[Place].data[RefField]),
                            pin |-> store[Place].pin]

\* A name is taken once, by a key the sweep has been past, and what was taken
\* from an entry nobody wrote is still what the entry offers.
Taken ==
    /\ \A s \in acc : ValidName(s.name) /\ Visited(s.at[1], s.at[2])
    /\ \A s, t \in acc : s.name = t.name => s = t
    /\ \A s \in acc : <<tiers[s.at[1]], s.at[2]>> \notin touched
                        => s \in Offered(s.at[1], s.at[2])

\* What an entry behind the sweep offers is taken, or its name went to a more
\* specific one.
NothingMissed ==
    alive /\ pc # "failed" =>
        \A i \in 1..Len(tiers) : \A k \in Plain :
            Visited(i, k) /\ <<tiers[i], k>> \notin touched =>
                \A c \in Offered(i, k) :
                    ValidName(c.name) => \E s \in acc : Covers(s, c)

\* How the walk keeps its promise.
SweepInv == TypeOK /\ Progress /\ Ahead /\ Following /\ Taken /\ NothingMissed

\* Of a store that holds still, a sweep whose token lives serves exactly what
\* it offers, each name from the most specific tier, the first key and the
\* first field that has it ("the MOST specific secret wins"), and has noticed
\* the leases its dereferences created.
QuietSweepIsExact ==
    pc = "done" /\ alive /\ touched = {} =>
        /\ acc = Firsts(AllOffered)
        /\ leasesCreated <=> \E i \in 1..Len(tiers) : \E k \in Plain : Leasing(i, k)

\* Whatever is written meanwhile, an entry nobody wrote is served or overruled
\* by a more specific one; only the death of the token makes a sweep that
\* succeeds leave it out.
UntouchedIsServed ==
    pc = "done" /\ alive =>
        \A i \in 1..Len(tiers) : \A k \in Plain :
            <<tiers[i], k>> \notin touched =>
                \A c \in Offered(i, k) :
                    ValidName(c.name) => \E s \in acc : Covers(s, c)

\* Names are settled in order of precedence, for good: while a sweep goes on
\* what it has found is never withdrawn, and what it adds comes later.
PrecedenceIsFinal ==
    [][pc' # "failed" =>
         /\ acc \subseteq acc'
         /\ \A s \in acc, t \in acc' \ acc : Before(s.at, t.at)]_vars

\* A secret is of one version of its entry, one the place held during the sweep
\* and the token may read: however the entry is written meanwhile, the value of
\* one version never goes out under the pins of another ("read from the same
\* data-GET response").
SecretsAreOfOneVersion ==
    \A s \in acc :
        LET i == s.at[1]
            k == s.at[2]
            p == <<tiers[i], k>>
        IN  /\ {<<tiers[i]>>, p} \subseteq rights
            /\ \E e \in Entries : <<p, e>> \in held /\ s \in Offers(i, k, e)
=============================================================================
