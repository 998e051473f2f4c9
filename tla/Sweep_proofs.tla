---------------------------- MODULE Sweep_proofs -----------------------------
(***************************************************************************)
(* What a sweep delivers, for all stores, keys, fields, replies and        *)
(* rights, any number of writes, and a token that dies at any moment.      *)
(* SweepInv is inductive; that an entry nobody wrote is served, and that a *)
(* store that holds still comes out exactly, follow from it.               *)
(***************************************************************************)
EXTENDS Sweep, WellFoundedInduction, TLAPS

-----------------------------------------------------------------------------
(***************************************************************************)
(* Keys and candidates.                                                    *)
(***************************************************************************)
\* Any set of keys that is not empty has a least one.
LEMMA HasLeast ==
    ASSUME NEW S \in SUBSET Nat, S # {}
    PROVE  \E k \in S : \A m \in S : k <= m
  <1> DEFINE Less == OpToRel(<, Nat)
  <1>0. IsWellFoundedOn(Less, Nat)
    BY NatLessThanWellFounded
  <1> HIDE DEF Less
  <1>1. PICK k \in S : \A m \in S : <<m, k>> \notin Less
    BY <1>0, WFMin
  <1>2. \A m \in S : m < k => <<m, k>> \in Less
    BY DEF OpToRel, Less
  <1>3. \A m \in S : ~(m < k)
    BY <1>1, <1>2
  <1>4. \A m \in S : m \in Nat /\ k \in Nat
    OBVIOUS
  <1> QED BY <1>3, <1>4

\* The sorted keys: the first of them is the least.
LEMMA FirstOf ==
    ASSUME NEW S \in SUBSET Nat, S # {}
    PROVE  FirstKey(S) \in S /\ \A m \in S : FirstKey(S) <= m
  BY HasLeast DEF FirstKey

\* Candidates that one key of one tier offers.
At(C, i, k) ==
    /\ \A c \in C : /\ DOMAIN c = {"name", "value", "pin", "at"}
                    /\ \E f \in Fields : c.at = <<i, k, f>>
    /\ \A c, d \in C : c.at = d.at => c = d

\* One secret for each field: the field tells two of them apart.
LEMMA FlattenedAt ==
    ASSUME NEW i, NEW k, NEW d \in Data, NEW pin
    PROVE  At(Flattened(i, k, d, pin), i, k)
  <1>1. DOMAIN d \subseteq Fields
    BY DEF Data
  <1>2. \A c \in Flattened(i, k, d, pin) :
           \E f \in DOMAIN d : c = Candidate(KeyName[k] \o FieldName[f], d[f], pin, <<i, k, f>>)
    BY DEF Flattened
  <1>3. \A f, n, v : /\ Candidate(n, v, pin, <<i, k, f>>).at = <<i, k, f>>
                     /\ DOMAIN Candidate(n, v, pin, <<i, k, f>>) = {"name", "value", "pin", "at"}
    BY DEF Candidate
  <1>4. \A f, g : <<i, k, f>> = <<i, k, g>> => f = g
    OBVIOUS
  <1>5. ASSUME NEW c \in Flattened(i, k, d, pin), NEW e \in Flattened(i, k, d, pin),
               c.at = e.at
        PROVE  c = e
    <2>1. PICK f \in DOMAIN d :
             c = Candidate(KeyName[k] \o FieldName[f], d[f], pin, <<i, k, f>>)
      BY <1>2
    <2>2. PICK g \in DOMAIN d :
             e = Candidate(KeyName[k] \o FieldName[g], d[g], pin, <<i, k, g>>)
      BY <1>2
    <2>3. f = g
      BY <1>3, <1>4, <1>5, <2>1, <2>2
    <2> QED BY <2>1, <2>2, <2>3
  <1>6. ASSUME NEW c \in Flattened(i, k, d, pin)
        PROVE  /\ DOMAIN c = {"name", "value", "pin", "at"}
               /\ \E f \in Fields : c.at = <<i, k, f>>
    <2>1. PICK f \in DOMAIN d :
             c = Candidate(KeyName[k] \o FieldName[f], d[f], pin, <<i, k, f>>)
      BY <1>2
    <2>2. f \in Fields
      BY <1>1
    <2>3. /\ DOMAIN c = {"name", "value", "pin", "at"}
          /\ c.at = <<i, k, f>>
      BY <2>1 DEF Candidate
    <2> QED BY <2>2, <2>3
  <1> QED BY <1>5, <1>6 DEF At

\* The secret of a key alone.
LEMMA SingleAt ==
    ASSUME NEW i, NEW k, NEW v, NEW pin
    PROVE  At(Single(i, k, v, pin), i, k)
  <1>1. ValueField \in Fields
    BY FieldsAssumption
  <1> QED BY <1>1 DEF At, Single, Candidate

\* Whatever form an entry or a reply has, its candidates are its own.
LEMMA EntryAt ==
    ASSUME NEW i, NEW k, NEW e \in Entries
    PROVE  At(EntrySecrets(i, k, e), i, k)
  <1>1. e.data \in Data
    BY EntriesAssumption
  <1>2. At({}, i, k)
    BY DEF At
  <1> QED BY <1>1, <1>2, FlattenedAt, SingleAt DEF EntrySecrets

\* The same of a dereferenced reply.
LEMMA TargetAt ==
    ASSUME NEW i, NEW k, NEW pin, NEW p \in DOMAIN Reply
    PROVE  At(TargetSecrets(i, k, pin, Reply[p]), i, k)
  <1>1. Reply[p].data \in Data
    BY ReplyAssumption
  <1> QED BY <1>1, FlattenedAt, SingleAt DEF TargetSecrets

\* The first writers: one for each valid name, none before it.
LEMMA FirstsMean ==
    ASSUME NEW i \in Nat, NEW k \in Nat, NEW C, At(C, i, k)
    PROVE  /\ Firsts(C) \subseteq C
           /\ \A c \in Firsts(C) : ValidName(c.name)
           /\ \A c, d \in Firsts(C) : c.name = d.name => c = d
           /\ \A c \in C : ValidName(c.name) => \E d \in Firsts(C) : Covers(d, c)
  <1>1. \A c \in C : c.at[1] = i /\ c.at[2] = k /\ c.at[3] \in Nat
                     /\ c.at = <<i, k, c.at[3]>>
    BY FieldsAssumption DEF At
  <1>2. \A c, d \in C : Before(c.at, d.at) <=> c.at[3] < d.at[3]
    BY <1>1 DEF Before
  <1>3. ASSUME NEW c \in Firsts(C), NEW d \in Firsts(C), c.name = d.name
        PROVE  c = d
    <2>1. c \in C /\ d \in C /\ ~(c.at[3] < d.at[3]) /\ ~(d.at[3] < c.at[3])
      BY <1>2, <1>3 DEF Firsts
    <2>2. c.at[3] = d.at[3]
      BY <1>1, <2>1
    <2>3. c.at = d.at
      BY <1>1, <2>1, <2>2
    <2> QED BY <2>1, <2>3 DEF At
  <1>4. ASSUME NEW c \in C, ValidName(c.name)
        PROVE  \E d \in Firsts(C) : Covers(d, c)
    <2> DEFINE S == {e.at[3] : e \in {d \in C : d.name = c.name}}
    <2>1. S \subseteq Nat /\ c.at[3] \in S
      BY <1>1
    <2>2. \A e \in C : e.name = c.name => e.at[3] \in S
      OBVIOUS
    <2>3. PICK n \in S : \A m \in S : n <= m
      BY <2>1, HasLeast
    <2>4. PICK d \in C : d.name = c.name /\ d.at[3] = n
      BY <2>3
    <2>5. \A e \in C : e.name = c.name => ~Before(e.at, d.at)
      <3> HIDE DEF S
      <3>1. \A e \in C : e.name = c.name => e.at[3] \in Nat /\ n <= e.at[3]
        BY <1>1, <2>3, <2>2
      <3>2. n \in Nat
        BY <2>1, <2>3
      <3>3. \A e \in C : e.name = c.name => ~(e.at[3] < d.at[3])
        BY <2>4, <3>1, <3>2
      <3> QED BY <1>2, <2>4, <3>3
    <2>6. d \in Firsts(C)
      BY <1>4, <2>4, <2>5 DEF Firsts
    <2> QED BY <2>4, <2>5, <2>6 DEF Covers
  <1> QED BY <1>3, <1>4 DEF Firsts

-----------------------------------------------------------------------------
(***************************************************************************)
(* Going on to the next key.                                               *)
(***************************************************************************)
\* While an entry is read or dereferenced there is a current key.
LEMMA Walking ==
    ASSUME TypeOK, Progress, pc \in {"entry", "deref"}
    PROVE  /\ Len(tiers) \in Nat /\ tier \in 1..Len(tiers)
           /\ todo \subseteq Plain /\ todo \in SUBSET Nat /\ todo # {}
           /\ Key \in todo /\ Key \in Plain /\ Key \in Nat
           /\ \A m \in todo : Key <= m
           /\ Plain \subseteq Nat
  <1>1. Len(tiers) \in Nat
    BY DEF TypeOK, AllTiers
  <1>2. /\ todo \subseteq Plain /\ todo # {} /\ tier \in 1..Len(tiers)
    BY <1>1 DEF TypeOK, Progress
  <1>3. Plain \subseteq Nat
    BY KeysAssumption
  <1> QED BY <1>1, <1>2, <1>3, FirstOf DEF Key

\* Past the current key, the sweep is past whatever it was past before, the
\* key itself, and keys behind it that it had not listed.
LEMMA AdvanceMeans ==
    ASSUME TypeOK, Progress, pc \in {"entry", "deref"}, UNCHANGED tiers,
           Advance(todo \ {Key})
    PROVE  /\ tier' \in 1..(Len(tiers) + 1) /\ todo' \subseteq Plain
           /\ pc' \in {"list", "entry", "done"}
           /\ pc' = "list" => todo' = {} /\ tier' <= Len(tiers)
           /\ pc' = "entry" => todo' # {} /\ todo' = todo \ {Key} /\ tier' = tier /\ Key < Key'
           /\ pc' = "done" => tier' = Len(tiers) + 1
           /\ \A i \in 1..Len(tiers), k \in Plain :
                 /\ Visited(i, k) \/ (i = tier /\ k = Key) => Visited(i, k)'
                 /\ Visited(i, k)' =>
                       Visited(i, k) \/ (i = tier /\ (k = Key \/ (k \notin todo /\ Key < k)))
  <1>0. /\ Len(tiers) \in Nat /\ tier \in 1..Len(tiers)
        /\ todo \subseteq Plain /\ todo \in SUBSET Nat /\ todo # {}
        /\ Key \in todo /\ Key \in Plain /\ Key \in Nat
        /\ \A m \in todo : Key <= m
        /\ Plain \subseteq Nat
    BY Walking
  <1>1. \A k \in Plain : k \in Nat
    BY <1>0
  <1>2. \A i, k : Visited(i, k) <=> i < tier \/ (i = tier /\ k < Key)
    BY DEF Visited, Key
  <1>3. CASE /\ todo \ {Key} # {} /\ todo' = todo \ {Key} /\ pc' = "entry" /\ tier' = tier
    <2>1. /\ Key' \in todo' /\ \A m \in todo' : Key' <= m
      <3>1. todo' \in SUBSET Nat /\ todo' # {}
        BY <1>0, <1>3
      <3> QED BY <3>1, FirstOf DEF Key
    <2>2. Key' \in Nat /\ Key < Key'
      BY <1>0, <1>3, <2>1
    <2>3. \A i, k : Visited(i, k)' <=> i < tier \/ (i = tier /\ k < Key')
      BY <1>3 DEF Visited, Key
    <2>4. ASSUME NEW k \in Plain, k < Key', ~(k < Key)
          PROVE  k = Key \/ (k \notin todo /\ Key < k)
      <3>1. k \notin todo'
        BY <1>1, <2>1, <2>2, <2>4
      <3> QED BY <1>0, <1>1, <1>3, <2>4, <3>1
    <2>5. \A i \in 1..Len(tiers), k \in Plain :
             /\ Visited(i, k) \/ (i = tier /\ k = Key) => Visited(i, k)'
             /\ Visited(i, k)' =>
                   Visited(i, k) \/ (i = tier /\ (k = Key \/ (k \notin todo /\ Key < k)))
      BY <1>0, <1>1, <1>2, <2>2, <2>3, <2>4
    <2> QED BY <1>0, <1>3, <2>2, <2>5
  <1>4. CASE /\ todo \ {Key} = {} /\ todo' = {} /\ tier' = tier + 1
             /\ \/ tier < Len(tiers) /\ pc' = "list"
                \/ tier = Len(tiers) /\ pc' = "done"
    <2>1. \A i, k : Visited(i, k)' <=> i < tier + 1
      BY <1>4 DEF Visited
    <2>2. \A k \in todo : k = Key
      BY <1>4
    <2>3. ASSUME NEW i \in 1..Len(tiers), NEW k \in Plain
          PROVE  /\ Visited(i, k) \/ (i = tier /\ k = Key) => Visited(i, k)'
                 /\ Visited(i, k)' =>
                       Visited(i, k) \/ (i = tier /\ (k = Key \/ (k \notin todo /\ Key < k)))
      BY <1>0, <1>1, <1>2, <2>1, <2>2
    <2> QED BY <1>0, <1>4, <2>3
  <1> QED BY <1>3, <1>4 DEF Advance

\* What the accumulator takes from the current key comes after all it has.
LEMMA AddMeans ==
    ASSUME TypeOK, Progress, Taken, pc \in {"entry", "deref"},
           NEW C, At(C, tier, Key), Add(C)
    PROVE  /\ acc \subseteq acc'
           /\ \A t \in acc' \ acc :
                 /\ t \in C /\ ValidName(t.name) /\ DOMAIN t = {"name", "value", "pin", "at"}
                 /\ t.at[1] = tier /\ t.at[2] = Key
                 /\ t.at \in (1..Len(tiers)) \X Plain \X Fields
           /\ \A s \in acc, t \in acc' \ acc : Before(s.at, t.at)
           /\ \A s, t \in acc' : s.name = t.name => s = t
           /\ \A c \in C : ValidName(c.name) => \E s \in acc' : Covers(s, c)
  <1>0. /\ Len(tiers) \in Nat /\ tier \in 1..Len(tiers)
        /\ todo \subseteq Plain /\ Key \in Plain /\ Key \in Nat /\ Plain \subseteq Nat
    BY Walking
  <1> DEFINE New == {c \in Firsts(C) : \A s \in acc : s.name # c.name}
  <1>1. acc' = acc \cup New
    BY DEF Add
  <1>2. /\ Firsts(C) \subseteq C /\ \A c \in Firsts(C) : ValidName(c.name)
        /\ \A c, d \in Firsts(C) : c.name = d.name => c = d
        /\ \A c \in C : ValidName(c.name) => \E d \in Firsts(C) : Covers(d, c)
    BY <1>0, FirstsMean
  <1>3. \A c \in C : /\ DOMAIN c = {"name", "value", "pin", "at"}
                     /\ c.at[1] = tier /\ c.at[2] = Key
                     /\ c.at \in (1..Len(tiers)) \X Plain \X Fields
    <2> SUFFICES ASSUME NEW c \in C
                 PROVE  /\ DOMAIN c = {"name", "value", "pin", "at"}
                        /\ c.at[1] = tier /\ c.at[2] = Key
                        /\ c.at \in (1..Len(tiers)) \X Plain \X Fields
      OBVIOUS
    <2>1. PICK f \in Fields : c.at = <<tier, Key, f>>
      BY DEF At
    <2>2. DOMAIN c = {"name", "value", "pin", "at"}
      BY DEF At
    <2> QED BY <1>0, <2>1, <2>2
  <1>4. \A s \in acc, c \in C : Before(s.at, c.at)
    <2> SUFFICES ASSUME NEW s \in acc, NEW c \in C PROVE Before(s.at, c.at)
      OBVIOUS
    <2>1. s.at[1] < tier \/ (s.at[1] = tier /\ s.at[2] < Key)
      BY DEF Taken, Visited, Key
    <2> QED BY <1>3, <2>1 DEF Before
  <1>5. \A c \in C : ValidName(c.name) => \E s \in acc' : Covers(s, c)
    <2> SUFFICES ASSUME NEW c \in C, ValidName(c.name) PROVE \E s \in acc' : Covers(s, c)
      OBVIOUS
    <2>1. CASE \E s \in acc : s.name = c.name
      <3>1. PICK s \in acc : s.name = c.name
        BY <2>1
      <3>2. s.at[1] \in Nat /\ s.at[2] \in Nat /\ c.at[1] \in Nat /\ c.at[2] \in Nat
        <4>1. s.at \in (1..Len(tiers)) \X Plain \X Fields
          BY DEF TypeOK
        <4>2. s.at[1] \in 1..Len(tiers) /\ s.at[2] \in Plain
          BY <4>1
        <4>3. tier \in Nat /\ \A n \in 1..Len(tiers) : n \in Nat
          BY <1>0
        <4>4. c.at[1] = tier /\ c.at[2] = Key
          BY <1>3
        <4> QED BY <1>0, <4>2, <4>3, <4>4
      <3>3. s.at[1] < tier \/ (s.at[1] = tier /\ s.at[2] < Key)
        BY DEF Taken, Visited, Key
      <3>4. ~Before(c.at, s.at)
        BY <1>3, <3>2, <3>3 DEF Before
      <3> QED BY <1>1, <3>1, <3>4 DEF Covers
    <2>2. CASE \A s \in acc : s.name # c.name
      <3>1. PICK d \in Firsts(C) : Covers(d, c)
        BY <1>2
      <3>2. d \in New
        BY <2>2, <3>1 DEF Covers
      <3> QED BY <1>1, <3>1, <3>2
    <2> QED BY <2>1, <2>2
  <1>6. \A s, t \in acc : s.name = t.name => s = t
    BY DEF Taken
  <1>7. \A s, t \in acc' : s.name = t.name => s = t
    BY <1>1, <1>2, <1>6
  <1>8. acc' \ acc \subseteq New /\ New \subseteq C
    BY <1>1, <1>2
  <1>9. \A t \in New : ValidName(t.name)
    BY <1>2
  <1> HIDE DEF New
  <1> QED BY <1>1, <1>3, <1>4, <1>5, <1>7, <1>8, <1>9

-----------------------------------------------------------------------------
(***************************************************************************)
(* What the store offers.                                                  *)
(***************************************************************************)
\* What the walk takes from an entry and from its target, told apart by whether
\* the entry is a pointer.
Walked(i, k, e) ==
    IF ~Points(e) THEN EntrySecrets(i, k, e)
    ELSE IF Aims(e) THEN TargetSecrets(i, k, e.pin, Aim(e))
    ELSE {}

\* The field whose value is a secret of its own.
LEMMA SingleMeans ==
    ASSUME NEW i, NEW k, NEW d, ValueField \in DOMAIN d, NEW pin
    PROVE  Single(i, k, d[ValueField], pin) =
             {[name |-> KeyName[k], value |-> Decoded(d[f]), pin |-> pin, at |-> <<i, k, f>>] :
                 f \in {g \in DOMAIN d : d[g] # Other /\ g = ValueField}}
  BY DEF Single, Candidate, IsString

\* The walk's classification of entries and replies is the one SPEC 4.2 and 4.3
\* describe: what it takes is what an entry offers.
LEMMA OffersMeans ==
    ASSUME NEW i, NEW k, NEW e
    PROVE  Offers(i, k, e) = Walked(i, k, e)
  <1>0. RefField # ValueField
    BY FieldsAssumption
  <1>1. Aims(e) => Points(e)
    BY DEF Aims, Points, IsPointer, IsString
  <1>2. CASE DOMAIN e.data = {RefField} /\ ~Aims(e)
    <2>1. Walked(i, k, e) = {}
      BY <1>2 DEF Walked, EntrySecrets, IsPointer
    <2>2. DOMAIN Stands(e) = {}
      BY <1>2 DEF Stands
    <2> QED BY <2>1, <2>2 DEF Offers
  <1>3. CASE Aims(e)
    <2> DEFINE d == Aim(e).data
    <2>1. Stands(e) = d /\ Walked(i, k, e) = TargetSecrets(i, k, e.pin, Aim(e))
      BY <1>1, <1>3 DEF Stands, Walked
    <2>2. Alone(e) <=> Aim(e).kv2 /\ ValueField \in DOMAIN d /\ d[ValueField] # Other
      BY <1>0, <1>3 DEF Alone, Aims
    <2>3. CASE Alone(e)
      <3>1. TargetSecrets(i, k, e.pin, Aim(e)) = Single(i, k, d[ValueField], e.pin)
        BY <2>2, <2>3 DEF TargetSecrets, IsString
      <3> QED BY <2>1, <2>2, <2>3, <3>1, SingleMeans DEF Offers
    <2>4. CASE ~Alone(e)
      <3>1. TargetSecrets(i, k, e.pin, Aim(e)) = Flattened(i, k, d, e.pin)
        BY <2>2, <2>4 DEF TargetSecrets, IsString
      <3> QED BY <2>1, <2>4, <3>1 DEF Offers, Flattened, Candidate, IsString
    <2> QED BY <2>3, <2>4
  <1>4. CASE DOMAIN e.data # {RefField}
    <2> DEFINE d == e.data
    <2>1. ~Aims(e) /\ ~Points(e)
      BY <1>4 DEF Aims, Points, IsPointer
    <2>2. /\ DOMAIN Stands(e) = DOMAIN d
          /\ \A f \in DOMAIN d : Stands(e)[f] = d[f]
          /\ Walked(i, k, e) = EntrySecrets(i, k, e)
      BY <1>4, <2>1 DEF Stands, Walked
    <2>3. Alone(e) <=> DOMAIN d = {ValueField}
      BY <2>1 DEF Alone
    <2>4. CASE Alone(e)
      <3>1. EntrySecrets(i, k, e) = Single(i, k, d[ValueField], e.pin)
        BY <1>4, <2>3, <2>4 DEF EntrySecrets, IsPointer, IsShorthand
      <3> QED BY <2>2, <2>3, <2>4, <3>1, SingleMeans DEF Offers
    <2>5. CASE ~Alone(e)
      <3>1. EntrySecrets(i, k, e) = Flattened(i, k, d, e.pin)
        BY <1>4, <2>3, <2>5 DEF EntrySecrets, IsPointer, IsShorthand
      <3> QED BY <2>2, <2>5, <3>1 DEF Offers, Flattened, Candidate, IsString
    <2> QED BY <2>4, <2>5
  <1> QED BY <1>2, <1>3, <1>4

\* What is offered at a place has that place as its origin.
LEMMA OfferedAt ==
    ASSUME TypeOK, NEW i, NEW k
    PROVE  At(Offered(i, k), i, k)
  <1>1. At({}, i, k)
    BY DEF At
  <1>2. \A p \in DOMAIN store : store[p] \in Entries
    BY DEF TypeOK
  <1>3. ASSUME NEW e \in Entries PROVE At(Offers(i, k, e), i, k)
    <2>1. Aims(e) => At(TargetSecrets(i, k, e.pin, Aim(e)), i, k)
      BY TargetAt DEF Aims, Aim
    <2> QED BY <1>1, <2>1, EntryAt, OffersMeans DEF Walked
  <1> QED BY <1>1, <1>2, <1>3 DEF Offered

\* What an entry offers depends on what the token may read, and on nothing else
\* that changes.
LEMMA OffersFrame ==
    ASSUME UNCHANGED rights
    PROVE  \A i, k, e : Offers(i, k, e)' = Offers(i, k, e)
  <1>1. \A e : (Aims(e)' <=> Aims(e)) /\ Aim(e)' = Aim(e)
    BY DEF Aims, Aim
  <1>2. ASSUME NEW i, NEW k, NEW e PROVE Offers(i, k, e)' = Offers(i, k, e)
    <2>1. Stands(e)' = Stands(e)
      BY <1>1 DEF Stands
    <2>2. Alone(e)' = Alone(e)
      BY <1>1 DEF Alone
    <2> QED BY <2>1, <2>2 DEF Offers
  <1> QED BY <1>2

\* The offer of an entry changes with the entry and with nothing else.
LEMMA SameOffer ==
    ASSUME NEW i, NEW k, UNCHANGED <<rights, tiers>>,
           <<tiers[i], k>> \in DOMAIN store <=> <<tiers[i], k>> \in DOMAIN store',
           <<tiers[i], k>> \in DOMAIN store => store[<<tiers[i], k>>] = store'[<<tiers[i], k>>]
    PROVE  Offered(i, k)' = Offered(i, k)
  BY OffersFrame DEF Offered

-----------------------------------------------------------------------------
(***************************************************************************)
(* SweepInv is inductive.                                                  *)
(***************************************************************************)
\* The step every answer leads to: the candidates C of the current key are
\* taken, and the sweep goes on.  C is what the entry offers, unless the entry
\* was written meanwhile or the token died.
LEMMA Passes ==
    ASSUME SweepInv, pc \in {"entry", "deref"}, NEW C, At(C, tier, Key),
           Place \notin touched => C \subseteq Offered(tier, Key),
           alive /\ Place \notin touched => Offered(tier, Key) \subseteq C,
           Add(C), Advance(todo \ {Key}), UNCHANGED <<vault, tiers>>,
           DOMAIN pending' = {"path", "pin"},
           leasesCreated' \in BOOLEAN
    PROVE  SweepInv'
  <1>0. /\ TypeOK /\ Progress /\ Ahead /\ Taken /\ NothingMissed
        /\ Len(tiers) \in Nat /\ tier \in 1..Len(tiers) /\ Key \in Plain
        /\ Plain \subseteq Nat /\ Key \in Nat
    BY Walking DEF SweepInv
  <1>1. UNCHANGED <<store, rights, alive, touched, held, writes, tiers>>
    BY DEF vault
  <1>2. /\ tier' \in 1..(Len(tiers) + 1) /\ todo' \subseteq Plain
        /\ pc' \in {"list", "entry", "done"}
        /\ pc' = "list" => todo' = {} /\ tier' <= Len(tiers)
        /\ pc' = "entry" => todo' # {} /\ todo' = todo \ {Key} /\ tier' = tier /\ Key < Key'
        /\ pc' = "done" => tier' = Len(tiers) + 1
    BY <1>0, <1>1, AdvanceMeans
  <1>3. \A i \in 1..Len(tiers), k \in Plain :
           /\ Visited(i, k) \/ (i = tier /\ k = Key) => Visited(i, k)'
           /\ Visited(i, k)' =>
                 Visited(i, k) \/ (i = tier /\ (k = Key \/ (k \notin todo /\ Key < k)))
    BY <1>0, <1>1, AdvanceMeans
  <1>4. /\ acc \subseteq acc'
        /\ \A t \in acc' \ acc :
              /\ t \in C /\ ValidName(t.name) /\ DOMAIN t = {"name", "value", "pin", "at"}
              /\ t.at[1] = tier /\ t.at[2] = Key
              /\ t.at \in (1..Len(tiers)) \X Plain \X Fields
        /\ \A s, t \in acc' : s.name = t.name => s = t
        /\ \A c \in C : ValidName(c.name) => \E s \in acc' : Covers(s, c)
    BY <1>0, AddMeans
  <1>5. \A i, k : Offered(i, k)' = Offered(i, k)
    BY <1>1, SameOffer
  <1>6. TypeOK'
    <2>1. \A s \in acc' : /\ DOMAIN s = {"name", "value", "pin", "at"}
                          /\ s.at \in (1..Len(tiers)) \X Plain \X Fields
      BY <1>0, <1>4 DEF TypeOK
    <2> QED BY <1>0, <1>1, <1>2, <2>1 DEF TypeOK
  <1>7. Progress'
    BY <1>0, <1>1, <1>2 DEF Progress
  <1>8. Ahead'
    <2> SUFFICES ASSUME pc' = "entry", NEW k \in Plain,
                        <<tiers[tier], k>> \in DOMAIN store \ touched
                 PROVE  k \in todo' \/ k < Key'
      BY <1>1, <1>2 DEF Ahead
    <2>1. k \in todo \/ k < Key
      BY <1>0 DEF Ahead
    <2>2. Key' \in Nat /\ k \in Nat
      <3>1. todo' \in SUBSET Nat /\ todo' # {}
        BY <1>0, <1>2
      <3> QED BY <1>0, <3>1, FirstOf DEF Key
    <2> QED BY <1>0, <1>2, <2>1, <2>2
  <1>9. Following'
    BY <1>2 DEF Following
  <1>10. Taken'
    <2>1. ASSUME NEW s \in acc'
          PROVE  /\ ValidName(s.name) /\ Visited(s.at[1], s.at[2])'
                 /\ <<tiers[s.at[1]], s.at[2]>> \notin touched
                       => s \in Offered(s.at[1], s.at[2])
      <3>1. CASE s \in acc
        <4>1. s.at[1] \in 1..Len(tiers) /\ s.at[2] \in Plain
          BY <1>0, <3>1 DEF TypeOK
        <4> QED BY <1>0, <1>3, <3>1, <4>1 DEF Taken
      <3>2. CASE s \notin acc
        <4>1. s \in C /\ ValidName(s.name) /\ s.at[1] = tier /\ s.at[2] = Key
          BY <1>4, <3>2
        <4>2. Visited(s.at[1], s.at[2])'
          BY <1>0, <1>3, <4>1
        <4> QED BY <4>1, <4>2 DEF Place
      <3> QED BY <3>1, <3>2
    <2> QED BY <1>1, <1>4, <1>5, <2>1 DEF Taken
  <1>11. NothingMissed'
    <2> SUFFICES ASSUME alive, NEW i \in 1..Len(tiers), NEW k \in Plain,
                        Visited(i, k)', <<tiers[i], k>> \notin touched,
                        NEW c \in Offered(i, k), ValidName(c.name)
                 PROVE  \E s \in acc' : Covers(s, c)
      BY <1>1, <1>5 DEF NothingMissed
    <2>1. CASE Visited(i, k)
      <3>1. \E s \in acc : Covers(s, c)
        BY <1>0, <2>1 DEF NothingMissed
      <3> QED BY <1>4, <3>1
    <2>2. CASE i = tier /\ k = Key
      BY <1>4, <2>2 DEF Place
    <2>3. CASE i = tier /\ k \notin todo /\ Key < k
      <3>1. k \in Nat /\ ~(k < Key)
        BY <1>0, <2>3
      <3>2. <<tiers[i], k>> \notin DOMAIN store
        BY <1>0, <2>3, <3>1 DEF Ahead
      <3> QED BY <3>2 DEF Offered
    <2> QED BY <1>3, <2>1, <2>2, <2>3
  <1> QED BY <1>6, <1>7, <1>8, <1>9, <1>10, <1>11 DEF SweepInv

\* A tier that was listed: what it has is to be read.  What the sweep is past
\* by that is a tier it may not list, or an entry that is not there.
LEMMA ListMeans ==
    ASSUME TypeOK, Progress, List
    PROVE  /\ tier' \in 1..(Len(tiers) + 1) /\ todo' \subseteq Plain
           /\ pc' \in {"list", "entry", "done"}
           /\ pc' = "list" => todo' = {} /\ tier' <= Len(tiers)
           /\ pc' = "entry" =>
                 /\ todo' # {} /\ tier' = tier /\ tier <= Len(tiers)
                 /\ <<tiers[tier]>> \in rights
                 /\ \A k \in Plain : <<tiers[tier], k>> \in DOMAIN store => k \in todo'
           /\ pc' = "done" => tier' = Len(tiers) + 1
           /\ \A i \in 1..Len(tiers), k \in Plain :
                 /\ Visited(i, k) => Visited(i, k)'
                 /\ alive /\ Visited(i, k)' =>
                       \/ Visited(i, k)
                       \/ <<tiers[i]>> \notin rights \/ <<tiers[i], k>> \notin DOMAIN store
  <1> DEFINE keys == IF Readable(<<tiers[tier]>>) THEN Listed(tiers[tier]) ELSE {}
  <1>1. Plain \subseteq Nat /\ Len(tiers) \in Nat /\ tier \in 1..Len(tiers)
    BY KeysAssumption DEF List, TypeOK, Progress, AllTiers
  <1>2. Advance(keys) /\ keys \subseteq Plain
    BY DEF List, Listed
  <1>3. \A k \in Plain : alive /\ k \notin keys =>
           <<tiers[tier]>> \notin rights \/ <<tiers[tier], k>> \notin DOMAIN store
    BY DEF Listed, Readable
  <1>4. keys # {} => /\ <<tiers[tier]>> \in rights
                     /\ \A k \in Plain : <<tiers[tier], k>> \in DOMAIN store => k \in keys
    BY DEF Readable, Listed
  <1>5. \A i, k : Visited(i, k) <=> i < tier
    BY DEF List, Visited
  <1> HIDE DEF keys
  <1>6. CASE keys # {} /\ todo' = keys /\ pc' = "entry" /\ tier' = tier
    <2>1. ASSUME NEW i \in 1..Len(tiers), NEW k \in Plain
          PROVE  /\ Visited(i, k) => Visited(i, k)'
                 /\ Visited(i, k)' => Visited(i, k) \/ (i = tier /\ k \notin keys)
      <3>1. keys \in SUBSET Nat /\ k \in Nat
        BY <1>1, <1>2
      <3>2. FirstKey(keys) \in Nat /\ \A m \in keys : FirstKey(keys) <= m
        BY <1>6, <3>1, FirstOf
      <3>3. Visited(i, k)' <=> i < tier \/ (i = tier /\ k < FirstKey(keys))
        BY <1>6 DEF Visited
      <3> QED BY <1>5, <3>1, <3>2, <3>3
    <2> QED BY <1>1, <1>2, <1>3, <1>4, <1>6, <2>1
  <1>7. CASE /\ keys = {} /\ todo' = {} /\ tier' = tier + 1
             /\ \/ tier < Len(tiers) /\ pc' = "list"
                \/ tier = Len(tiers) /\ pc' = "done"
    <2>1. \A i, k : Visited(i, k)' <=> i < tier + 1
      BY <1>7 DEF Visited
    <2>2. \A i \in 1..Len(tiers), k \in Plain :
             /\ Visited(i, k) => Visited(i, k)'
             /\ Visited(i, k)' => Visited(i, k) \/ (i = tier /\ k \notin keys)
      BY <1>1, <1>5, <1>7, <2>1
    <2>3. /\ tier' \in 1..(Len(tiers) + 1)
          /\ pc' = "list" => tier' <= Len(tiers)
          /\ pc' = "done" => tier' = Len(tiers) + 1
      BY <1>1, <1>7
    <2> QED BY <1>3, <1>7, <2>2, <2>3
  <1> QED BY <1>2, <1>6, <1>7 DEF Advance

\* Listing a tier keeps the invariant.
LEMMA Lists ==
    ASSUME SweepInv, List
    PROVE  SweepInv'
  <1>0. TypeOK /\ Progress /\ Taken /\ NothingMissed
    BY DEF SweepInv
  <1>1. /\ UNCHANGED <<store, rights, alive, touched, held, writes, tiers>>
        /\ UNCHANGED <<pending, acc, leasesCreated>> /\ pc = "list"
    BY DEF List, vault
  <1>2. /\ tier' \in 1..(Len(tiers) + 1) /\ todo' \subseteq Plain
        /\ pc' \in {"list", "entry", "done"}
        /\ pc' = "list" => todo' = {} /\ tier' <= Len(tiers)
        /\ pc' = "entry" =>
              /\ todo' # {} /\ tier' = tier /\ tier <= Len(tiers)
              /\ <<tiers[tier]>> \in rights
              /\ \A k \in Plain : <<tiers[tier], k>> \in DOMAIN store => k \in todo'
        /\ pc' = "done" => tier' = Len(tiers) + 1
    BY <1>0, ListMeans
  <1>3. \A i \in 1..Len(tiers), k \in Plain :
           /\ Visited(i, k) => Visited(i, k)'
           /\ alive /\ Visited(i, k)' =>
                 \/ Visited(i, k)
                 \/ <<tiers[i]>> \notin rights \/ <<tiers[i], k>> \notin DOMAIN store
    BY <1>0, ListMeans
  <1>4. \A i, k : Offered(i, k)' = Offered(i, k)
    BY <1>1, SameOffer
  <1>5. TypeOK' /\ Progress'
    BY <1>0, <1>1, <1>2 DEF TypeOK, Progress
  <1>6. Ahead' /\ Following'
    BY <1>1, <1>2 DEF Ahead, Following
  <1>7. Taken'
    <2>1. ASSUME NEW s \in acc
          PROVE  Visited(s.at[1], s.at[2])'
      <3>1. s.at[1] \in 1..Len(tiers) /\ s.at[2] \in Plain
        BY <1>0 DEF TypeOK
      <3> QED BY <1>0, <1>3, <3>1 DEF Taken
    <2> QED BY <1>0, <1>1, <1>4, <2>1 DEF Taken
  <1>8. NothingMissed'
    <2> SUFFICES ASSUME alive, NEW i \in 1..Len(tiers), NEW k \in Plain,
                        Visited(i, k)', <<tiers[i], k>> \notin touched,
                        NEW c \in Offered(i, k), ValidName(c.name)
                 PROVE  \E s \in acc : Covers(s, c)
      BY <1>1, <1>4 DEF NothingMissed
    <2>1. Visited(i, k)
      BY <1>3 DEF Offered
    <2> QED BY <1>0, <1>1, <2>1 DEF NothingMissed
  <1> QED BY <1>5, <1>6, <1>7, <1>8 DEF SweepInv

\* A pointer is read and then followed: nothing is taken yet.
LEMMA ReadsPointer ==
    ASSUME SweepInv, ReadPointer
    PROVE  SweepInv'
  <1>1. /\ UNCHANGED <<store, rights, alive, touched, held, writes, tiers>>
        /\ UNCHANGED <<tier, todo, acc, leasesCreated>>
        /\ pc = "entry" /\ pc' = "deref"
    BY DEF ReadPointer, vault
  <1>2. \A i, k : Visited(i, k)' <=> Visited(i, k)
    BY <1>1 DEF Visited
  <1>3. \A i, k : Offered(i, k)' = Offered(i, k)
    BY <1>1, SameOffer
  <1>4. TypeOK' /\ Progress' /\ Ahead'
    BY <1>1 DEF SweepInv, TypeOK, Progress, Ahead, ReadPointer, Key
  <1>5. Following'
    BY <1>1 DEF Following, ReadPointer, Found, Readable, Place, Key
  <1>6. Taken'
    BY <1>1, <1>2, <1>3 DEF SweepInv, Taken
  <1>7. NothingMissed'
    BY <1>1, <1>2, <1>3 DEF SweepInv, NothingMissed
  <1> QED BY <1>4, <1>5, <1>6, <1>7 DEF SweepInv

\* The other answers: each takes what the entry offers, if it was not written.
LEMMA Answers ==
    ASSUME SweepInv, ReadEntry \/ SkipEntry \/ Deref \/ SkipDeref
    PROVE  \E C : /\ At(C, tier, Key) /\ Add(C) /\ Advance(todo \ {Key})
                  /\ pc \in {"entry", "deref"}
                  /\ Place \notin touched => C \subseteq Offered(tier, Key)
                  /\ alive /\ Place \notin touched => Offered(tier, Key) \subseteq C
                  /\ UNCHANGED <<vault, tiers>> /\ DOMAIN pending' = {"path", "pin"}
                  /\ leasesCreated' \in BOOLEAN
  <1>0. /\ TypeOK /\ Progress /\ Following
    BY DEF SweepInv
  <1>1. /\ DOMAIN pending = {"path", "pin"} /\ DOMAIN Nowhere = {"path", "pin"}
        /\ leasesCreated \in BOOLEAN
        /\ \A p \in DOMAIN store : store[p] \in Entries
    BY <1>0 DEF TypeOK, Nowhere
  <1>2. At({}, tier, Key) /\ (acc' = acc => Add({}))
    BY DEF At, Add, Firsts
  <1>3. CASE ReadEntry
    <2> DEFINE C == EntrySecrets(tier, Key, store[Place])
    <2>1. At(C, tier, Key)
      BY <1>1, <1>3, EntryAt DEF ReadEntry, Found
    <2>2. Offered(tier, Key) = C
      BY <1>0, <1>3, OffersMeans
         DEF ReadEntry, Found, Readable, Offered, Walked, Place, Progress
    <2> QED BY <1>1, <1>3, <2>1, <2>2 DEF ReadEntry
  <1>4. CASE SkipEntry
    <2>1. alive => Offered(tier, Key) = {}
      BY <1>4 DEF SkipEntry, Found, Readable, Offered, Place
    <2> QED BY <1>1, <1>2, <1>4, <2>1 DEF SkipEntry
  <1>5. CASE Deref
    <2> DEFINE C == TargetSecrets(tier, Key, pending.pin, Reply[pending.path])
    <2>1. At(C, tier, Key)
      BY <1>5, TargetAt DEF Deref, Resolves
    <2>2. Place \notin touched => Offered(tier, Key) = C
      BY <1>0, <1>5, OffersMeans
         DEF Deref, Resolves, Readable, Offered, Walked, Aims, Aim, Points, IsPointer,
             IsString, Place, Progress, Following
    <2>3. leasesCreated' \in BOOLEAN
      BY <1>5 DEF Deref, NoteLease
    <2> QED BY <1>1, <1>5, <2>1, <2>2, <2>3 DEF Deref
  <1>6. CASE SkipDeref
    <2>1. alive /\ Place \notin touched => Offered(tier, Key) = {}
      BY <1>0, <1>6, OffersMeans
         DEF SkipDeref, Resolves, Readable, Offered, Walked, Aims, Place, Following
    <2> QED BY <1>1, <1>2, <1>6, <2>1 DEF SkipDeref
  <1> QED BY <1>3, <1>4, <1>5, <1>6

\* Writes by others and the death of the token: what is promised of entries
\* nobody wrote stays true of those still unwritten.
LEMMA OthersStep ==
    ASSUME SweepInv, UNCHANGED <<sweeper, tiers, rights>>,
           DOMAIN store' \subseteq Places,
           \A p \in DOMAIN store' : store'[p] \in Entries,
           touched \subseteq touched', touched' \subseteq Places, writes' \in Nat,
           alive' \in BOOLEAN, alive' => alive, held' \subseteq Places \X Entries,
           \A p : p \notin touched' =>
                     /\ p \in DOMAIN store <=> p \in DOMAIN store'
                     /\ p \in DOMAIN store => store[p] = store'[p]
    PROVE  SweepInv'
  <1>1. UNCHANGED <<pc, tier, todo, pending, acc, leasesCreated, tiers, rights>>
    BY DEF sweeper
  <1>2. \A i, k : Visited(i, k)' <=> Visited(i, k)
    BY <1>1 DEF Visited
  <1>3. \A i, k : <<tiers[i], k>> \notin touched' =>
                     Offered(i, k)' = Offered(i, k) /\ <<tiers[i], k>> \notin touched
    BY <1>1, SameOffer
  <1>4. TypeOK'
    BY <1>1 DEF SweepInv, TypeOK
  <1>5. Progress'
    BY <1>1 DEF SweepInv, Progress
  <1>6. Ahead'
    BY <1>1 DEF SweepInv, Ahead, Key
  <1>7. Following'
    BY <1>1 DEF SweepInv, Following, Place, Key
  <1>8. Taken'
    BY <1>1, <1>2, <1>3 DEF SweepInv, Taken
  <1>9. NothingMissed'
    BY <1>1, <1>2, <1>3 DEF SweepInv, NothingMissed
  <1> QED BY <1>4, <1>5, <1>6, <1>7, <1>8, <1>9 DEF SweepInv

\* Writes, deletions and the death of the token are steps of that kind.
LEMMA EnvironmentKeeps ==
    ASSUME SweepInv, Environment
    PROVE  SweepInv'
  <1>1. /\ DOMAIN store \subseteq Places /\ \A p \in DOMAIN store : store[p] \in Entries
        /\ touched \subseteq Places /\ writes \in Nat /\ alive \in BOOLEAN
        /\ held \subseteq Places \X Entries
    BY DEF SweepInv, TypeOK
  <1>2. CASE TokenDies
    BY <1>1, <1>2, OthersStep DEF TokenDies
  <1>3. ASSUME NEW p \in TierNames \X Plain, Delete(p)
        PROVE  SweepInv'
    <2>1. p \in Places
      BY KeysAssumption DEF Places
    <2>2. /\ DOMAIN store' = DOMAIN store \ {p}
          /\ \A q \in DOMAIN store' : store'[q] = store[q]
      BY <1>3 DEF Delete
    <2>3. /\ touched' = touched \cup {p} /\ writes' \in Nat
          /\ UNCHANGED <<rights, alive, held, sweeper, tiers>>
      BY <1>1, <1>3 DEF Delete, Touch
    <2> QED BY <1>1, <2>1, <2>2, <2>3, OthersStep
  <1>4. ASSUME NEW p \in TierNames \X Plain, NEW e \in Rewrites, Write(p, e)
        PROVE  SweepInv'
    <2>1. p \in Places /\ e \in Entries
      BY KeysAssumption, EntriesAssumption DEF Places
    <2>2. /\ DOMAIN store' = DOMAIN store \cup {p}
          /\ \A q \in DOMAIN store' : store'[q] = IF q = p THEN e ELSE store[q]
      BY <1>4 DEF Write
    <2>3. /\ touched' = touched \cup {p} /\ writes' \in Nat
          /\ UNCHANGED <<rights, alive, sweeper, tiers>>
      BY <1>1, <1>4 DEF Write, Touch
    <2>4. held' \subseteq Places \X Entries
      BY <1>1, <1>4, <2>1 DEF Write
    <2> QED BY <1>1, <2>1, <2>2, <2>3, <2>4, OthersStep
  <1> QED BY <1>2, <1>3, <1>4 DEF Environment

\* A sweep that fails has nothing left to promise.
LEMMA FailsKeeps ==
    ASSUME SweepInv, Fails
    PROVE  SweepInv'
  <1>1. /\ UNCHANGED <<tier, todo, pending, leasesCreated, tiers>>
        /\ UNCHANGED <<store, rights, alive, touched, held, writes>>
        /\ pc' = "failed" /\ acc' = {}
    BY DEF Fails, vault
  <1>2. TypeOK'
    BY <1>1 DEF SweepInv, TypeOK
  <1>3. Progress' /\ Ahead' /\ Following' /\ Taken' /\ NothingMissed'
    BY <1>1 DEF Progress, Ahead, Following, Taken, NothingMissed
  <1> QED BY <1>2, <1>3 DEF SweepInv

\* Every step of a sweep keeps the invariant.
LEMMA SweepStep ==
    ASSUME SweepInv, [Next]_vars
    PROVE  SweepInv'
  <1>1. CASE List
    BY <1>1, Lists
  <1>2. CASE ReadPointer
    BY <1>2, ReadsPointer
  <1>3. CASE ReadEntry \/ SkipEntry \/ Deref \/ SkipDeref
    BY <1>3, Answers, Passes
  <1>4. CASE Fails
    BY <1>4, FailsKeeps
  <1>5. CASE Environment
    BY <1>5, EnvironmentKeeps
  <1>6. CASE UNCHANGED vars
    <2>1. UNCHANGED <<sweeper, vault, tiers>>
      BY <1>6 DEF vars
    <2>2. UNCHANGED <<store, rights, alive, touched, held, writes>>
      BY <2>1 DEF vault
    <2>3. /\ DOMAIN store \subseteq Places /\ \A p \in DOMAIN store : store[p] \in Entries
          /\ touched \subseteq Places /\ writes \in Nat /\ alive \in BOOLEAN
          /\ held \subseteq Places \X Entries
      BY DEF SweepInv, TypeOK
    <2> QED BY <2>1, <2>2, <2>3, OthersStep
  <1> QED BY <1>1, <1>2, <1>3, <1>4, <1>5, <1>6 DEF Next, Sweeping

\* A sweep begins with nothing taken and everything ahead.
LEMMA SweepBegins ==
    ASSUME Init
    PROVE  SweepInv
  <1>1. DOMAIN store \subseteq Places /\ \A p \in DOMAIN store : store[p] \in Entries
    BY StoresAssumption DEF Init
  <1>2. pc = "list" /\ tier = 1 /\ todo = {} /\ acc = {} /\ DOMAIN pending = {"path", "pin"}
    BY DEF Init, Nowhere
  <1>3. Len(tiers) \in Nat /\ 1 <= Len(tiers) /\ tier \in 1..(Len(tiers) + 1)
    BY <1>2 DEF Init, AllTiers
  <1>4. /\ rights \in Grants /\ alive \in BOOLEAN /\ tiers \in {AllTiers, Tail(AllTiers)}
        /\ leasesCreated \in BOOLEAN
        /\ touched \subseteq Places /\ writes \in Nat
    BY DEF Init
  <1>5. held \subseteq Places \X Entries
    BY <1>1 DEF Init
  <1>6. TypeOK
    BY <1>1, <1>2, <1>3, <1>4, <1>5 DEF TypeOK
  <1>7. Progress /\ Ahead /\ Following /\ Taken
    BY <1>2, <1>3 DEF Progress, Ahead, Following, Taken
  <1>8. NothingMissed
    <2>1. \A i \in 1..Len(tiers), k \in Plain : ~Visited(i, k)
      BY <1>2, <1>3 DEF Visited
    <2> QED BY <2>1 DEF NothingMissed
  <1> QED BY <1>6, <1>7, <1>8 DEF SweepInv

\* The invariant of the walk: SweepInv holds in every state of every sweep.
THEOREM SweepInvariant == Spec => []SweepInv
  <1>1. Init => SweepInv
    BY SweepBegins
  <1>2. SweepInv /\ [Next]_vars => SweepInv'
    BY SweepStep
  <1> QED BY <1>1, <1>2, PTL DEF Spec

-----------------------------------------------------------------------------
(***************************************************************************)
(* What a sweep delivers.                                                  *)
(***************************************************************************)
\* A sweep that is done has been past every entry.
LEMMA DoneMeans ==
    ASSUME SweepInv, pc = "done"
    PROVE  \A i \in 1..Len(tiers), k \in Plain : Visited(i, k)
  <1>1. tier = Len(tiers) + 1 /\ Len(tiers) \in Nat
    BY DEF SweepInv, TypeOK, Progress, AllTiers
  <1> QED BY <1>1 DEF Visited

\* UntouchedIsServed: whoever writes meanwhile, an entry nobody wrote is served
\* or overruled by a more specific one, unless the token died.
THEOREM UntouchedAreServed == Spec => []UntouchedIsServed
  <1>1. SweepInv => UntouchedIsServed
    BY DoneMeans DEF UntouchedIsServed, SweepInv, NothingMissed
  <1> QED BY <1>1, SweepInvariant, PTL

\* PrecedenceIsFinal: first writer wins, over keys, fields and tiers, also when
\* the store changes under the sweep.
THEOREM PrecedenceHolds == Spec => PrecedenceIsFinal
  <1>1. ASSUME SweepInv, Next, pc' # "failed"
        PROVE  acc \subseteq acc' /\ \A s \in acc, t \in acc' \ acc : Before(s.at, t.at)
    <2>1. CASE ReadEntry \/ SkipEntry \/ Deref \/ SkipDeref
      <3>1. PICK C : At(C, tier, Key) /\ Add(C) /\ pc \in {"entry", "deref"}
        BY <1>1, <2>1, Answers
      <3> QED BY <1>1, <3>1, AddMeans DEF SweepInv
    <2>2. CASE List \/ ReadPointer \/ Environment
      BY <2>2 DEF List, ReadPointer, Environment, TokenDies, Write, Delete, Touch, sweeper
    <2>3. CASE Fails
      BY <1>1, <2>3 DEF Fails
    <2> QED BY <1>1, <2>1, <2>2, <2>3 DEF Next, Sweeping
  <1>2. SweepInv /\ [Next]_vars =>
           [pc' # "failed" =>
              /\ acc \subseteq acc'
              /\ \A s \in acc, t \in acc' \ acc : Before(s.at, t.at)]_vars
    BY <1>1
  <1> QED BY <1>2, SweepInvariant, PTL DEF Spec, PrecedenceIsFinal

-----------------------------------------------------------------------------
(***************************************************************************)
(* Secrets of one version.                                                 *)
(***************************************************************************)
\* One version of the entry, held during the sweep, offers the secret.
Origin(s) == <<tiers[s.at[1]], s.at[2]>>

Whole(s) ==
    /\ {<<tiers[s.at[1]]>>, Origin(s)} \subseteq rights
    /\ \E e \in Entries : <<Origin(s), e>> \in held /\ s \in Offers(s.at[1], s.at[2], e)

\* What the store has now was recorded, and the pointer being followed, with
\* the pins to put on what it leads to, was read from one entry.
Recorded ==
    /\ \A p \in DOMAIN store : <<p, store[p]>> \in held
    /\ pc = "deref" =>
          \E e \in Entries :
             /\ <<Place, e>> \in held /\ Points(e)
             /\ pending = [path |-> Decoded(e.data[RefField]), pin |-> e.pin]

VersionsInv == Recorded /\ SecretsAreOfOneVersion

\* What is recorded stays recorded, and what is readable stays readable.
LEMMA RecordGrows ==
    ASSUME [Next]_vars
    PROVE  /\ held \subseteq held' /\ UNCHANGED <<tiers, rights>>
           /\ \A i, k, e : Offers(i, k, e)' = Offers(i, k, e)
  <1>1. held \subseteq held' /\ UNCHANGED <<tiers, rights>>
    BY DEF Next, Sweeping, List, ReadPointer, ReadEntry, SkipEntry, Deref, SkipDeref, Fails,
           Environment, TokenDies, Delete, Write, Touch, vault, vars
  <1> QED BY <1>1, OffersFrame

\* The store is recorded as it changes.
LEMMA StoreRecorded ==
    ASSUME Recorded, [Next]_vars
    PROVE  \A p \in DOMAIN store' : <<p, store'[p]>> \in held'
  <1>1. CASE \E p \in TierNames \X Plain : Delete(p) \/ \E e \in Rewrites : Write(p, e)
    <2>1. PICK p \in TierNames \X Plain : Delete(p) \/ \E e \in Rewrites : Write(p, e)
      BY <1>1
    <2>2. CASE Delete(p)
      BY <2>2 DEF Delete, Recorded
    <2>3. ASSUME NEW e \in Rewrites, Write(p, e)
          PROVE  \A q \in DOMAIN store' : <<q, store'[q]>> \in held'
      BY <2>3 DEF Write, Recorded
    <2> QED BY <2>1, <2>2, <2>3
  <1>2. CASE UNCHANGED <<store, held>>
    BY <1>2 DEF Recorded
  <1> QED BY <1>1, <1>2 DEF Next, Sweeping, List, ReadPointer, ReadEntry, SkipEntry, Deref,
           SkipDeref, Fails, Environment, TokenDies, vault, vars

\* The pointer is recorded with the entry it was read from.
LEMMA PointerRecorded ==
    ASSUME SweepInv, Recorded, [Next]_vars, pc' = "deref"
    PROVE  \E e \in Entries :
             /\ <<Place, e>>' \in held' /\ Points(e)
             /\ pending' = [path |-> Decoded(e.data[RefField]), pin |-> e.pin]
  <1>1. CASE ReadPointer
    <2>1. /\ Place \in DOMAIN store /\ store[Place] \in Entries /\ Points(store[Place])
          /\ <<Place, store[Place]>> \in held
      BY <1>1 DEF ReadPointer, Found, Recorded, SweepInv, TypeOK
    <2>2. UNCHANGED <<tiers, tier, todo, held>>
      BY <1>1 DEF ReadPointer, vault
    <2>3. pending' = [path |-> Decoded(store[Place].data[RefField]), pin |-> store[Place].pin]
      BY <1>1 DEF ReadPointer
    <2>4. Place' = Place
      BY <2>2 DEF Place, Key
    <2> QED BY <2>1, <2>2, <2>3, <2>4
  <1>2. CASE pc = "deref" /\ UNCHANGED <<tiers, tier, todo, pending>>
    <2>1. Place' = Place
      BY <1>2 DEF Place, Key
    <2> QED BY <1>2, <2>1, RecordGrows DEF Recorded
  <1>3. CASE Environment \/ UNCHANGED vars
    <2>1. UNCHANGED <<pc, tiers, tier, todo, pending>>
      BY <1>3 DEF Environment, TokenDies, Delete, Write, Touch, sweeper, vars
    <2> QED BY <1>2, <2>1
  <1> QED BY <1>1, <1>3 DEF Next, Sweeping, List, ReadEntry, SkipEntry, Deref, SkipDeref,
           Fails, Advance

\* What an answer adds is whole: it is offered by the entry read last.
LEMMA AddedIsWhole ==
    ASSUME SweepInv, VersionsInv, ReadEntry \/ SkipEntry \/ Deref \/ SkipDeref
    PROVE  \A s \in acc' : Whole(s)
  <1>0. /\ TypeOK /\ Progress /\ Following /\ Taken
        /\ \A p \in DOMAIN store : store[p] \in Entries
    BY DEF SweepInv, TypeOK
  <1>1. \A s \in acc : Whole(s)
    BY DEF VersionsInv, SecretsAreOfOneVersion, Whole, Origin
  <1>2. ASSUME NEW e \in Entries, <<Place, e>> \in held, pc \in {"entry", "deref"},
               Place \in rights, At(Offers(tier, Key, e), tier, Key), Add(Offers(tier, Key, e))
        PROVE  \A s \in acc' : Whole(s)
    <2> SUFFICES ASSUME NEW s \in acc' \ acc PROVE Whole(s)
      BY <1>1
    <2>1. s \in Offers(tier, Key, e) /\ s.at[1] = tier /\ s.at[2] = Key
      BY <1>0, <1>2, AddMeans
    <2>2. <<tiers[tier]>> \in rights
      BY <1>0, <1>2 DEF Progress
    <2> QED BY <1>2, <2>1, <2>2 DEF Whole, Origin, Place
  <1>3. CASE ReadEntry
    <2> DEFINE e == store[Place]
    <2>1. e \in Entries /\ <<Place, e>> \in held /\ Place \in rights /\ pc = "entry"
      BY <1>0, <1>3 DEF ReadEntry, Found, Readable, VersionsInv, Recorded
    <2>2. Offers(tier, Key, e) = EntrySecrets(tier, Key, e)
      BY <1>3, OffersMeans DEF ReadEntry, Walked
    <2>3. At(Offers(tier, Key, e), tier, Key) /\ Add(Offers(tier, Key, e))
      BY <1>3, <2>1, <2>2, EntryAt DEF ReadEntry
    <2> QED BY <1>2, <2>1, <2>3
  <1>4. CASE Deref
    <2>1. PICK e \in Entries :
             /\ <<Place, e>> \in held /\ Points(e)
             /\ pending = [path |-> Decoded(e.data[RefField]), pin |-> e.pin]
      BY <1>4 DEF Deref, VersionsInv, Recorded
    <2>2. pending.path \in DOMAIN Reply /\ <<pending.path>> \in rights /\ pc = "deref"
      BY <1>4 DEF Deref, Resolves, Readable
    <2>3. Offers(tier, Key, e) = TargetSecrets(tier, Key, pending.pin, Reply[pending.path])
      BY <2>1, <2>2, OffersMeans DEF Walked, Aims, Aim, Points, IsPointer, IsString
    <2>4. At(Offers(tier, Key, e), tier, Key) /\ Add(Offers(tier, Key, e))
      BY <1>4, <2>2, <2>3, TargetAt DEF Deref
    <2>5. Place \in rights
      BY <1>0, <2>2 DEF Following
    <2> QED BY <1>2, <2>1, <2>2, <2>4, <2>5
  <1>5. CASE SkipEntry \/ SkipDeref
    BY <1>1, <1>5 DEF SkipEntry, SkipDeref
  <1> QED BY <1>3, <1>4, <1>5

\* SecretsAreOfOneVersion: the pins a secret goes out under are those of the
\* version of its entry that named it, for any number of writes meanwhile.
THEOREM SecretsAreWhole == Spec => []SecretsAreOfOneVersion
  <1>1. Init => VersionsInv
    BY DEF Init, VersionsInv, Recorded, SecretsAreOfOneVersion
  <1>2. ASSUME SweepInv, VersionsInv, [Next]_vars PROVE VersionsInv'
    <2>1. Recorded'
      BY <1>2, StoreRecorded, PointerRecorded DEF Recorded, VersionsInv
    <2>2. \A s \in acc' : Whole(s)
      <3>1. CASE ReadEntry \/ SkipEntry \/ Deref \/ SkipDeref
        BY <1>2, <3>1, AddedIsWhole
      <3>2. CASE acc' \subseteq acc
        BY <1>2, <3>2 DEF VersionsInv, SecretsAreOfOneVersion, Whole, Origin
      <3> QED BY <1>2, <3>1, <3>2 DEF Next, Sweeping, List, ReadPointer, Fails, Environment,
               TokenDies, Delete, Write, Touch, sweeper, vars
    <2>3. \A s : Whole(s) => Whole(s)'
      BY <1>2, RecordGrows DEF Whole, Origin
    <2>4. SecretsAreOfOneVersion'
      BY <2>2, <2>3 DEF SecretsAreOfOneVersion, Whole, Origin
    <2> QED BY <2>1, <2>4 DEF VersionsInv
  <1>3. VersionsInv => SecretsAreOfOneVersion
    BY DEF VersionsInv
  <1> QED BY <1>1, <1>2, <1>3, SweepInvariant, PTL DEF Spec

\* What a JSON value may go out as.
StringOrEmpty == Strings \cup {Decoded(Null)}

\* A field goes out as its string, or empty if it is null.
LEMMA CandidateValues ==
    ASSUME NEW v \in Value, IsString(v), NEW name, NEW pin, NEW at
    PROVE  Candidate(name, v, pin, at).value \in StringOrEmpty
  BY DEF Candidate, Decoded, IsString, Value, StringOrEmpty

\* Whatever form an entry or a reply has.
LEMMA DataValues ==
    ASSUME NEW d \in Data, NEW i, NEW k, NEW pin
    PROVE  /\ \A s \in Flattened(i, k, d, pin) : s.value \in StringOrEmpty
           /\ ValueField \in DOMAIN d =>
                 \A s \in Single(i, k, d[ValueField], pin) : s.value \in StringOrEmpty
  <1>1. \A f \in DOMAIN d : d[f] \in Value
    BY DEF Data
  <1>2. ASSUME NEW s \in Flattened(i, k, d, pin) PROVE s.value \in StringOrEmpty
    <2>1. PICK f \in DOMAIN d :
             /\ IsString(d[f])
             /\ s = Candidate(KeyName[k] \o FieldName[f], d[f], pin, <<i, k, f>>)
      BY <1>2 DEF Flattened
    <2> QED BY <1>1, <2>1, CandidateValues
  <1>3. ASSUME ValueField \in DOMAIN d, NEW s \in Single(i, k, d[ValueField], pin)
        PROVE  s.value \in StringOrEmpty
    <2>1. /\ IsString(d[ValueField])
          /\ s = Candidate(KeyName[k], d[ValueField], pin, <<i, k, ValueField>>)
      BY <1>3 DEF Single
    <2> QED BY <1>1, <1>3, <2>1, CandidateValues
  <1> QED BY <1>2, <1>3

\* "values must be JSON strings": null is the only value that is no string and
\* goes out all the same, and it goes out empty (stringField).
THEOREM OnlyNullIsNoString == Spec => [](\A s \in acc : s.value \in StringOrEmpty)
  <1>1. ASSUME NEW e \in Entries, NEW i, NEW k, NEW s \in Offers(i, k, e)
        PROVE  s.value \in StringOrEmpty
    <2>1. e.data \in Data /\ \A p \in DOMAIN Reply : Reply[p].data \in Data
      BY EntriesAssumption, ReplyAssumption
    <2>2. \A t \in EntrySecrets(i, k, e) : t.value \in StringOrEmpty
      BY <2>1, DataValues DEF EntrySecrets, IsShorthand
    <2>3. \A p \in DOMAIN Reply : \A t \in TargetSecrets(i, k, e.pin, Reply[p]) :
             t.value \in StringOrEmpty
      BY <2>1, DataValues DEF TargetSecrets
    <2> QED BY <1>1, <2>2, <2>3, OffersMeans DEF Walked, Aims, Aim
  <1>2. SecretsAreOfOneVersion => \A s \in acc : s.value \in StringOrEmpty
    BY <1>1 DEF SecretsAreOfOneVersion
  <1> QED BY <1>2, SecretsAreWhole, PTL

\* Of a store that holds still: the leases noticed are those of the pointers
\* the sweep has been past.
LeasesFound ==
    alive /\ touched = {} /\ pc # "failed" =>
        (leasesCreated <=>
            \E i \in 1..Len(tiers) : \E k \in Plain : Visited(i, k) /\ Leasing(i, k))

\* Going on from a key notes its lease, if it has one.
LEMMA LeasesPass ==
    ASSUME SweepInv, LeasesFound, pc \in {"entry", "deref"},
           Advance(todo \ {Key}), UNCHANGED <<vault, tiers>>,
           alive /\ touched = {} => (leasesCreated' <=> leasesCreated \/ Leasing(tier, Key))
    PROVE  LeasesFound'
  <1>1. UNCHANGED <<store, rights, alive, touched, tiers>>
    BY DEF vault
  <1>2. \A i, k : Leasing(i, k)' <=> Leasing(i, k)
    BY <1>1 DEF Leasing, Aims, Aim
  <1>3. /\ tier \in 1..Len(tiers) /\ Key \in Plain
        /\ \A i \in 1..Len(tiers), k \in Plain :
              /\ Visited(i, k) \/ (i = tier /\ k = Key) => Visited(i, k)'
              /\ Visited(i, k)' =>
                    Visited(i, k) \/ (i = tier /\ (k = Key \/ (k \notin todo /\ Key < k)))
    BY Walking, AdvanceMeans DEF SweepInv
  <1>4. ASSUME touched = {}, NEW k \in Plain, k \notin todo, Key < k
        PROVE  ~Leasing(tier, k)
    <2>1. k \in Nat /\ Key \in Nat
      BY Walking DEF SweepInv
    <2>2. <<tiers[tier], k>> \notin DOMAIN store
      BY <1>4, <2>1 DEF SweepInv, Ahead
    <2> QED BY <2>2 DEF Leasing
  <1>5. SUFFICES ASSUME alive, touched = {}
                 PROVE  leasesCreated' <=>
                          \E i \in 1..Len(tiers) : \E k \in Plain : Visited(i, k)' /\ Leasing(i, k)
    BY <1>1, <1>2 DEF LeasesFound
  <1>6. leasesCreated <=>
          \E i \in 1..Len(tiers) : \E k \in Plain : Visited(i, k) /\ Leasing(i, k)
    BY <1>5 DEF LeasesFound
  <1>7. leasesCreated' <=> leasesCreated \/ Leasing(tier, Key)
    BY <1>5
  <1>8. ASSUME leasesCreated'
        PROVE  \E i \in 1..Len(tiers) : \E k \in Plain : Visited(i, k)' /\ Leasing(i, k)
    BY <1>3, <1>6, <1>7, <1>8
  <1>9. ASSUME NEW i \in 1..Len(tiers), NEW k \in Plain, Visited(i, k)', Leasing(i, k)
        PROVE  leasesCreated'
    BY <1>3, <1>4, <1>5, <1>6, <1>7, <1>9
  <1> QED BY <1>8, <1>9

\* Every step keeps the account of the leases.
LEMMA LeasesStep ==
    ASSUME SweepInv, LeasesFound, [Next]_vars
    PROVE  LeasesFound'
  <1>0. TypeOK /\ Progress /\ Following
    BY DEF SweepInv
  <1>1. CASE List
    <2>1. UNCHANGED <<store, rights, alive, touched, tiers, leasesCreated>> /\ pc = "list"
      BY <1>1 DEF List, vault
    <2>2. \A i, k : Leasing(i, k)' <=> Leasing(i, k)
      BY <2>1 DEF Leasing, Aims, Aim
    <2>3. ASSUME alive, NEW i \in 1..Len(tiers), NEW k \in Plain, Leasing(i, k)
          PROVE  Visited(i, k)' <=> Visited(i, k)
      BY <1>0, <1>1, <2>3, ListMeans DEF Leasing
    <2> QED BY <2>1, <2>2, <2>3 DEF LeasesFound
  <1>2. CASE ReadPointer
    <2>1. /\ UNCHANGED <<store, rights, alive, touched, tiers, leasesCreated, tier, todo>>
          /\ pc = "entry" /\ pc' = "deref"
      BY <1>2 DEF ReadPointer, vault
    <2>2. \A i, k : (Visited(i, k)' <=> Visited(i, k)) /\ (Leasing(i, k)' <=> Leasing(i, k))
      BY <2>1 DEF Visited, Leasing, Aims, Aim
    <2> QED BY <2>1, <2>2 DEF LeasesFound
  <1>3. CASE ReadEntry
    <2>1. ~Leasing(tier, Key)
      BY <1>3 DEF ReadEntry, Leasing, Aims, Points, IsPointer, IsString, Place
    <2> QED BY <1>3, <2>1, LeasesPass DEF ReadEntry
  <1>4. CASE SkipEntry
    <2>1. alive => ~Leasing(tier, Key)
      BY <1>4 DEF SkipEntry, Found, Readable, Leasing, Place
    <2> QED BY <1>4, <2>1, LeasesPass DEF SkipEntry
  <1>5. CASE Deref
    <2>1. touched = {} => (Leasing(tier, Key) <=> Reply[pending.path].lease)
      BY <1>0, <1>5 DEF Deref, Resolves, Readable, Leasing, Aims, Aim, Points, IsPointer,
                       IsString, Place, Progress, Following
    <2>2. leasesCreated' <=> leasesCreated \/ Reply[pending.path].lease
      BY <1>5 DEF Deref, NoteLease
    <2>3. pc \in {"entry", "deref"} /\ Advance(todo \ {Key}) /\ UNCHANGED <<vault, tiers>>
      BY <1>5 DEF Deref
    <2> QED BY <2>1, <2>2, <2>3, LeasesPass
  <1>6. CASE SkipDeref
    <2>1. alive /\ touched = {} => ~Leasing(tier, Key)
      BY <1>0, <1>6 DEF SkipDeref, Resolves, Readable, Leasing, Aims, Aim, Place, Following
    <2> QED BY <1>6, <2>1, LeasesPass DEF SkipDeref
  <1>7. CASE Fails
    BY <1>7 DEF Fails, LeasesFound
  <1>8. CASE Environment
    BY <1>8 DEF Environment, TokenDies, Write, Delete, Touch, LeasesFound
  <1>9. CASE UNCHANGED vars
    BY <1>9 DEF vars, vault, sweeper, LeasesFound, Visited, Leasing, Aims, Aim
  <1> QED BY <1>1, <1>2, <1>3, <1>4, <1>5, <1>6, <1>7, <1>8, <1>9 DEF Next, Sweeping

\* QuietSweepIsExact: of a store that holds still, a sweep serves exactly what
\* it offers, each name from its most specific writer, and knows of its leases.
THEOREM QuietSweepsAreExact == Spec => []QuietSweepIsExact
  <1>1. Init => LeasesFound
    <2>1. ASSUME Init PROVE ~leasesCreated /\ \A i \in 1..Len(tiers), k \in Plain : ~Visited(i, k)
      BY <2>1 DEF Init, Visited, AllTiers
    <2> QED BY <2>1 DEF LeasesFound
  <1>2. SweepInv /\ LeasesFound /\ [Next]_vars => LeasesFound'
    BY LeasesStep
  <1>3. ASSUME SweepInv, LeasesFound PROVE QuietSweepIsExact
    <2> SUFFICES ASSUME pc = "done", alive, touched = {}
                 PROVE  /\ acc = Firsts(AllOffered)
                        /\ leasesCreated <=>
                              \E i \in 1..Len(tiers) : \E k \in Plain : Leasing(i, k)
      BY DEF QuietSweepIsExact
    <2>1. \A i \in 1..Len(tiers), k \in Plain : Visited(i, k)
      BY <1>3, DoneMeans
    <2>2. leasesCreated <=> \E i \in 1..Len(tiers) : \E k \in Plain : Leasing(i, k)
      BY <1>3, <2>1 DEF LeasesFound
    <2>3. TypeOK /\ Taken /\ NothingMissed
      BY <1>3 DEF SweepInv
    <2>4. \A c \in AllOffered : ValidName(c.name) => \E s \in acc : Covers(s, c)
      BY <2>1, <2>3 DEF AllOffered, NothingMissed
    <2>5. \A s \in acc : /\ s.at[1] \in 1..Len(tiers) /\ s.at[2] \in Plain
                         /\ s \in Offered(s.at[1], s.at[2]) /\ ValidName(s.name)
      BY <2>3 DEF TypeOK, Taken
    <2>6. ASSUME NEW s \in acc PROVE s \in Firsts(AllOffered)
      <3>1. s \in AllOffered /\ ValidName(s.name)
        BY <2>5 DEF AllOffered
      <3>2. \A d \in AllOffered : d.name = s.name => ~Before(d.at, s.at)
        BY <2>3, <2>4, <3>1 DEF Covers, Taken
      <3> QED BY <3>1, <3>2 DEF Firsts
    <2>7. ASSUME NEW c \in Firsts(AllOffered) PROVE c \in acc
      <3>1. PICK i \in 1..Len(tiers), k \in Plain : c \in Offered(i, k)
        BY DEF Firsts, AllOffered
      <3>2. PICK s \in acc : s.name = c.name /\ ~Before(c.at, s.at)
        BY <2>4 DEF Firsts, Covers
      <3>3. ~Before(s.at, c.at)
        BY <2>5, <3>2 DEF Firsts, AllOffered
      <3>4. PICK f \in Fields : c.at = <<i, k, f>>
        BY <2>3, <3>1, OfferedAt DEF At
      <3>5. PICK g \in Fields : s.at = <<s.at[1], s.at[2], g>>
        BY <2>3, <2>5, OfferedAt DEF At
      <3>6. /\ f \in Nat /\ g \in Nat /\ k \in Nat /\ s.at[2] \in Nat
            /\ i \in Nat /\ s.at[1] \in Nat
        <4>1. Len(tiers) \in Nat
          BY <2>3 DEF TypeOK, AllTiers
        <4>2. \A n \in 1..Len(tiers) : n \in Nat
          BY <4>1
        <4>3. \A n \in Fields \cup Plain : n \in Nat
          BY FieldsAssumption, KeysAssumption
        <4> QED BY <2>5, <4>2, <4>3
      <3>7. s.at[1] = i /\ s.at[2] = k /\ g = f
        <4>1. c.at[1] = i /\ c.at[2] = k /\ c.at[3] = f /\ s.at[3] = g
          BY <3>4, <3>5
        <4>2. /\ ~(s.at[1] < i) /\ ~(i < s.at[1])
              /\ s.at[1] = i => ~(s.at[2] < k) /\ ~(k < s.at[2])
              /\ s.at[1] = i /\ s.at[2] = k => ~(g < f) /\ ~(f < g)
          BY <3>2, <3>3, <4>1 DEF Before
        <4> QED BY <3>6, <4>2
      <3>8. s \in Offered(i, k) /\ s.at = c.at
        BY <2>5, <3>4, <3>5, <3>7
      <3> QED BY <2>3, <3>1, <3>8, OfferedAt DEF At
    <2> QED BY <2>2, <2>6, <2>7
  <1> QED BY <1>1, <1>2, <1>3, SweepInvariant, PTL DEF Spec
=============================================================================
