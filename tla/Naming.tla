------------------------------- MODULE Naming --------------------------------
(***************************************************************************)
(* internal/identity and internal/policy: what a payload says of its       *)
(* pipeline, and the Vault policies that follow from it.  Pure operators.  *)
(*                                                                         *)
(* Organisations, repositories and events are names, which only their case *)
(* tells apart from their normal form; a branch is the sequence of its     *)
(* bytes.  A policy is the sequence of its segments: joined with "/" they  *)
(* stay apart, because organisation and repository come from a split at    *)
(* "/" and the event from Woodpecker's own list.                           *)
(***************************************************************************)
EXTENDS Naturals, Sequences

CONSTANT Lower   \* strings.ToLower on names

BranchfulEvents == {"push", "pull_request", "pull_request_closed", "release", "cron"}

Branchful(event) == event \in BranchfulEvents

-----------------------------------------------------------------------------
\* splitFullName and Parse.  The payload's full name is split at "/"; shape
\* tells a body that is no JSON or lacks one of the two objects.
MalformedName(full) == Len(full) # 2 \/ \E i \in DOMAIN full : full[i] = ""

Malformed(p) == p.shape # "ok" \/ MalformedName(p.full) \/ p.event = ""

\* Parse of a payload that is not malformed: the branch is kept verbatim.
Identity(p) ==
    [org |-> Lower[p.full[1]], repo |-> Lower[p.full[2]],
     event |-> Lower[p.event], branch |-> p.branch]

-----------------------------------------------------------------------------
\* Esc, byte by byte.
Bytes   == 0..255
Dot     == 46
Slash   == 47
Percent == 37

IsUnescaped(c) == c \in 97..122 \/ c \in 48..57 \/ c \in {Dot, 95, 45}

HexDigit(n) == IF n < 10 THEN 48 + n ELSE 87 + n

Escaped(c) == <<Percent, HexDigit(c \div 16), HexDigit(c % 16)>>

\* Mutant: "%" itself is left alone.
EscByteBarePercent(s, i) ==
    IF (IsUnescaped(s[i]) \/ s[i] = Percent) /\ ~(i = 1 /\ s[i] = Dot)
    THEN <<s[i]>> ELSE Escaped(s[i])

\* A leading "." is escaped although a "." elsewhere is not.
EscByte(s, i) ==
    IF IsUnescaped(s[i]) /\ ~(i = 1 /\ s[i] = Dot) THEN <<s[i]>> ELSE Escaped(s[i])

\* What the builder holds after each number of bytes.
Built(s) ==
    LET built[i \in 0..Len(s)] == IF i = 0 THEN <<>> ELSE built[i - 1] \o EscByte(s, i)
    IN  built

Esc(s) == Built(s)[Len(s)]

-----------------------------------------------------------------------------
\* Derive, under the one policy prefix of a deployment: P1 always, P2 only for
\* a branchful event with a branch.
P1(id) == <<id.org, id.repo, id.event>>

HasBranchPolicy(id) == Branchful(id.event) /\ id.branch # <<>>

P2(id) == Append(P1(id), Esc(id.branch))

Derive(id) == IF HasBranchPolicy(id) THEN {P1(id), P2(id)} ELSE {P1(id)}
=============================================================================
