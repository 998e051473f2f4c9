---------------------------- MODULE Naming_proofs -----------------------------
(***************************************************************************)
(* Escaping a branch keeps branches apart, for branches of every length.   *)
(* The loop of Esc is followed byte by byte: what the builder holds only   *)
(* grows, each byte's code is where the builder ended before it, and no    *)
(* code begins another.                                                    *)
(***************************************************************************)
EXTENDS Naming, WellFoundedInduction, TLAPS

-----------------------------------------------------------------------------
\* Counting up from zero reaches every number of an interval: the induction
\* the lemmas about the loop use, over a set of numbers.
LEMMA Counting ==
    ASSUME NEW n \in Nat, NEW T \in SUBSET (0..n),
           0 \in T, \A i \in 0..(n - 1) : i \in T => i + 1 \in T
    PROVE  \A i \in 0..n : i \in T
  <1> DEFINE S == (0..n) \ T
             Less == OpToRel(<, Nat)
  <1>1. SUFFICES ASSUME S # {} PROVE FALSE
    OBVIOUS
  <1>2. PICK k \in S : \A m \in S : ~(m < k)
    <2>1. IsWellFoundedOn(Less, Nat)
      BY NatLessThanWellFounded
    <2>2. S \in SUBSET Nat
      OBVIOUS
    <2> HIDE DEF Less, S
    <2>3. PICK k \in S : \A m \in S : <<m, k>> \notin Less
      BY <1>1, <2>1, <2>2, WFMin
    <2>4. \A m \in S : m < k => <<m, k>> \in Less
      BY <2>2 DEF OpToRel, Less
    <2> QED BY <2>3, <2>4
  <1>3. k # 0 /\ k \in 0..n
    BY <1>2
  <1>4. k - 1 \in 0..(n - 1) /\ k - 1 \notin S
    BY <1>2, <1>3
  <1> QED BY <1>2, <1>3, <1>4

-----------------------------------------------------------------------------
(***************************************************************************)
(* The code of one byte.                                                   *)
(***************************************************************************)
\* A hexadecimal digit is no slash, and tells its value.
LEMMA HexDigitMeans ==
    /\ \A n \in 0..15 : HexDigit(n) \in Bytes /\ HexDigit(n) # Slash
    /\ \A n, m \in 0..15 : HexDigit(n) = HexDigit(m) => n = m
  BY DEF HexDigit, Bytes, Slash

\* The two digits of an escaped byte.
LEMMA EscapedMeans ==
    ASSUME NEW c \in Bytes
    PROVE  /\ c \div 16 \in 0..15 /\ c % 16 \in 0..15 /\ c = (16 * (c \div 16)) + (c % 16)
           /\ Escaped(c) \in Seq(Bytes) /\ Len(Escaped(c)) = 3
           /\ Escaped(c)[1] = Percent
           /\ Escaped(c)[2] = HexDigit(c \div 16) /\ Escaped(c)[3] = HexDigit(c % 16)
  <1>1. c \div 16 \in 0..15 /\ c % 16 \in 0..15 /\ c = (16 * (c \div 16)) + (c % 16)
    BY DEF Bytes
  <1>2. HexDigit(c \div 16) \in Bytes /\ HexDigit(c % 16) \in Bytes /\ Percent \in Bytes
    BY <1>1, HexDigitMeans DEF Bytes, Percent
  <1> QED BY <1>1, <1>2 DEF Escaped

\* Two bytes with the same escape are the same.
LEMMA EscapedInjective ==
    ASSUME NEW c \in Bytes, NEW d \in Bytes,
           Escaped(c)[2] = Escaped(d)[2], Escaped(c)[3] = Escaped(d)[3]
    PROVE  c = d
  <1> DEFINE hi(b) == b \div 16
             lo(b) == b % 16
  <1>1. \A b \in Bytes : /\ hi(b) \in 0..15 /\ lo(b) \in 0..15 /\ b = (16 * hi(b)) + lo(b)
                        /\ Escaped(b)[2] = HexDigit(hi(b)) /\ Escaped(b)[3] = HexDigit(lo(b))
    BY EscapedMeans
  <1> HIDE DEF hi, lo
  <1>2. hi(c) = hi(d) /\ lo(c) = lo(d)
    BY <1>1, HexDigitMeans
  <1> QED BY <1>1, <1>2

\* A byte's code: it has one byte or three, none of them a slash, and at the
\* front of a branch it does not begin with a dot.
LEMMA EscByteMeans ==
    ASSUME NEW s \in Seq(Bytes), NEW i \in 1..Len(s)
    PROVE  /\ EscByte(s, i) \in Seq(Bytes) /\ Len(EscByte(s, i)) \in {1, 3}
           /\ \A p \in 1..Len(EscByte(s, i)) : EscByte(s, i)[p] # Slash
           /\ i = 1 => EscByte(s, i)[1] # Dot
  <1>1. s[i] \in Bytes
    OBVIOUS
  <1>2. CASE IsUnescaped(s[i]) /\ ~(i = 1 /\ s[i] = Dot)
    <2>1. EscByte(s, i) = <<s[i]>>
      BY <1>2 DEF EscByte
    <2>2. \A c \in Bytes : IsUnescaped(c) => c # Slash
      BY DEF IsUnescaped, Slash, Dot, Bytes
    <2> QED BY <1>1, <1>2, <2>1, <2>2
  <1>3. CASE ~(IsUnescaped(s[i]) /\ ~(i = 1 /\ s[i] = Dot))
    <2>1. EscByte(s, i) = Escaped(s[i])
      BY <1>3 DEF EscByte
    <2> DEFINE e == Escaped(s[i])
    <2>2. e \in Seq(Bytes) /\ Len(e) = 3 /\ e[1] = Percent
      BY <1>1, EscapedMeans
    <2>3. e[1] # Slash /\ e[1] # Dot
      BY <2>2 DEF Slash, Percent, Dot
    <2>4. e[2] # Slash /\ e[3] # Slash
      <3>1. PICK hi \in 0..15, lo \in 0..15 : e[2] = HexDigit(hi) /\ e[3] = HexDigit(lo)
        BY <1>1, EscapedMeans
      <3> QED BY <3>1, HexDigitMeans
    <2> HIDE DEF e
    <2>5. \A p \in 1..3 : e[p] # Slash
      BY <2>3, <2>4
    <2> QED BY <2>1, <2>2, <2>3, <2>5 DEF e
  <1> QED BY <1>2, <1>3

\* No code begins another: the first byte tells whether there are more, and
\* the code tells the byte.
LEMMA CodesArePrefixFree ==
    ASSUME NEW s \in Seq(Bytes), NEW t \in Seq(Bytes),
           NEW i \in 1..Len(s), i \in 1..Len(t),
           EscByte(s, i)[1] = EscByte(t, i)[1],
           Len(EscByte(s, i)) = 3 /\ Len(EscByte(t, i)) = 3 =>
               EscByte(s, i)[2] = EscByte(t, i)[2] /\ EscByte(s, i)[3] = EscByte(t, i)[3]
    PROVE  s[i] = t[i]
  <1>1. s[i] \in Bytes /\ t[i] \in Bytes
    OBVIOUS
  <1> DEFINE Bare(u) == IsUnescaped(u[i]) /\ ~(i = 1 /\ u[i] = Dot)
  <1>2. \A u : /\ Bare(u) => EscByte(u, i) = <<u[i]>>
               /\ ~Bare(u) => EscByte(u, i) = Escaped(u[i])
    BY DEF EscByte
  <1>3. /\ Bare(s) => s[i] # Percent
        /\ Bare(t) => t[i] # Percent
    <2>1. \A c \in Bytes : IsUnescaped(c) => c # Percent
      BY DEF IsUnescaped, Percent, Dot, Bytes
    <2> QED BY <1>1, <2>1
  <1>4. Escaped(s[i])[1] = Percent /\ Escaped(t[i])[1] = Percent
    BY <1>1, EscapedMeans
  <1> HIDE DEF Bare
  <1>5. CASE Bare(s) /\ Bare(t)
    BY <1>2, <1>5
  <1>6. CASE ~Bare(s) /\ ~Bare(t)
    <2>1. EscByte(s, i) = Escaped(s[i]) /\ EscByte(t, i) = Escaped(t[i])
      BY <1>2, <1>6
    <2>2. Len(Escaped(s[i])) = 3 /\ Len(Escaped(t[i])) = 3
      BY <1>1, EscapedMeans
    <2> QED BY <1>1, <2>1, <2>2, EscapedInjective
  <1>7. CASE Bare(s) /\ ~Bare(t)
    BY <1>2, <1>3, <1>4, <1>7
  <1>8. CASE ~Bare(s) /\ Bare(t)
    BY <1>2, <1>3, <1>4, <1>8
  <1> QED BY <1>5, <1>6, <1>7, <1>8

-----------------------------------------------------------------------------
(***************************************************************************)
(* The builder.                                                            *)
(***************************************************************************)
\* f is what a builder holds after each of the first n bytes of s.
Builds(f, s, n) ==
    /\ f \in [0..n -> Seq(Bytes)] /\ f[0] = <<>>
    /\ \A i \in 1..n : f[i] = f[i - 1] \o EscByte(s, i)

\* One more byte can always be written.
LEMMA OneMoreByte ==
    ASSUME NEW s \in Seq(Bytes), NEW n \in 0..(Len(s) - 1), NEW f, Builds(f, s, n)
    PROVE  \E g : Builds(g, s, n + 1)
  <1> DEFINE w == f[n] \o EscByte(s, n + 1)
             g == [i \in 0..(n + 1) |-> IF i = n + 1 THEN w ELSE f[i]]
  <1>1. Len(s) \in Nat
    OBVIOUS
  <1>2. n \in Nat /\ n + 1 \in 1..Len(s)
    BY <1>1
  <1>3. f[n] \in Seq(Bytes) /\ EscByte(s, n + 1) \in Seq(Bytes)
    BY <1>2, EscByteMeans DEF Builds
  <1>4. w \in Seq(Bytes)
    BY <1>3
  <1> HIDE DEF w
  <1>5. \A i \in 0..n : g[i] = f[i] /\ f[i] \in Seq(Bytes)
    BY <1>2 DEF Builds
  <1>6. g[n + 1] = w
    BY <1>2
  <1>7. g \in [0..(n + 1) -> Seq(Bytes)]
    <2>1. \A i \in 0..(n + 1) : i = n + 1 \/ i \in 0..n
      BY <1>2
    <2>2. \A i \in 0..(n + 1) : (IF i = n + 1 THEN w ELSE f[i]) \in Seq(Bytes)
      BY <1>4, <1>5, <2>1
    <2> QED BY <2>2
  <1>8. g[0] = <<>>
    BY <1>2, <1>5 DEF Builds
  <1>9. ASSUME NEW i \in 1..(n + 1) PROVE g[i] = g[i - 1] \o EscByte(s, i)
    <2>1. CASE i = n + 1
      <3>1. i - 1 = n /\ n \in 0..n
        BY <1>2, <2>1
      <3> QED BY <1>5, <1>6, <2>1, <3>1 DEF w
    <2>2. CASE i # n + 1
      <3>1. i \in 1..n /\ i \in 0..n /\ i - 1 \in 0..n
        BY <1>2, <2>2
      <3> HIDE DEF g
      <3> QED BY <1>5, <3>1 DEF Builds
    <2> QED BY <2>1, <2>2
  <1> HIDE DEF g
  <1> QED BY <1>7, <1>8, <1>9 DEF Builds

\* The loop has a builder after any number of bytes.
LEMMA BuilderExists ==
    ASSUME NEW s \in Seq(Bytes)
    PROVE  \E f : Builds(f, s, Len(s))
  <1> DEFINE T == {n \in 0..Len(s) : \E f : Builds(f, s, n)}
  <1>1. Len(s) \in Nat /\ T \in SUBSET (0..Len(s))
    OBVIOUS
  <1>2. 0 \in T
    <2> DEFINE f == [i \in 0..0 |-> <<>>]
    <2>1. f \in [0..0 -> Seq(Bytes)] /\ f[0] = <<>>
      OBVIOUS
    <2> HIDE DEF f
    <2>2. Builds(f, s, 0)
      BY <2>1 DEF Builds
    <2> QED BY <1>1, <2>2
  <1>3. ASSUME NEW i \in 0..(Len(s) - 1), i \in T PROVE i + 1 \in T
    <2>1. i + 1 \in 0..Len(s)
      BY <1>1
    <2> QED BY <1>3, <2>1, OneMoreByte
  <1> HIDE DEF T
  <1>4. Len(s) \in T
    <2>1. \A i \in 0..Len(s) : i \in T
      BY <1>1, <1>2, <1>3, Counting
    <2> QED BY <1>1, <2>1
  <1> QED BY <1>4 DEF T

\* Built is such a builder.
LEMMA BuiltBuilds ==
    ASSUME NEW s \in Seq(Bytes)
    PROVE  Builds(Built(s), s, Len(s))
  <1> DEFINE n == Len(s)
             E(f) == f = [i \in 0..n |-> IF i = 0 THEN <<>> ELSE f[i - 1] \o EscByte(s, i)]
             b == Built(s)
  <1>1. n \in Nat
    OBVIOUS
  <1>2. b = CHOOSE f : E(f)
    BY Zenon DEF Built
  <1>3. PICK f : Builds(f, s, n)
    BY BuilderExists
  <1> HIDE DEF n, b
  <1>4. E(f)
    <2>1. \A i \in 0..n : i # 0 => i \in 1..n
      BY <1>1
    <2>2. \A i \in 0..n : f[i] = IF i = 0 THEN <<>> ELSE f[i - 1] \o EscByte(s, i)
      BY <1>3, <2>1 DEF Builds
    <2>3. f = [i \in 0..n |-> f[i]]
      BY <1>3 DEF Builds
    <2> QED BY <2>2, <2>3
  <1>5. E(b)
    <2> HIDE DEF E
    <2> QED BY <1>2, <1>4, Zenon
  <1>6. \A i \in 0..n : b[i] = IF i = 0 THEN <<>> ELSE b[i - 1] \o EscByte(s, i)
    BY <1>5
  <1>7. b[0] = <<>> /\ \A i \in 1..n : b[i] = b[i - 1] \o EscByte(s, i)
    <2>1. 0 \in 0..n /\ \A i \in 1..n : i \in 0..n /\ i # 0
      BY <1>1
    <2> QED BY <1>6, <2>1
  <1>8. \A i \in 0..n : b[i] \in Seq(Bytes)
    <2> HIDE DEF E
    <2> DEFINE T == {i \in 0..n : b[i] \in Seq(Bytes)}
    <2>1. T \in SUBSET (0..n) /\ 0 \in T
      <3>1. 0 \in 0..n /\ <<>> \in Seq(Bytes)
        BY <1>1
      <3>2. b[0] \in Seq(Bytes)
        BY <1>7, <3>1
      <3> QED BY <3>1, <3>2
    <2>2. ASSUME NEW i \in 0..(n - 1), i \in T PROVE i + 1 \in T
      <3>1. i + 1 \in 1..n /\ i + 1 \in 0..n /\ (i + 1) - 1 = i
        BY <1>1
      <3>2. EscByte(s, i + 1) \in Seq(Bytes)
        BY <3>1, EscByteMeans DEF n
      <3>3. b[i + 1] = b[i] \o EscByte(s, i + 1)
        BY <1>7, <3>1
      <3>4. b[i] \in Seq(Bytes)
        BY <2>2
      <3>5. b[i + 1] \in Seq(Bytes)
        BY <3>2, <3>3, <3>4
      <3> QED BY <3>1, <3>5
    <2> HIDE DEF T
    <2>3. \A i \in 0..n : i \in T
      BY <1>1, <2>1, <2>2, Counting
    <2> QED BY <2>3 DEF T
  <1>9. b = [i \in 0..n |-> b[i]]
    BY <1>5
  <1> QED BY <1>7, <1>8, <1>9 DEF Builds, n, b

\* u is what v begins with.
Begins(u, v) == Len(u) <= Len(v) /\ \A p \in 1..Len(u) : v[p] = u[p]

\* Writing on leaves the beginning as it was.
LEMMA WritingOn ==
    ASSUME NEW u \in Seq(Bytes), NEW v \in Seq(Bytes), NEW c \in Seq(Bytes), Begins(u, v)
    PROVE  Begins(u, v \o c)
  <1>1. Len(u) \in Nat /\ Len(v) \in Nat /\ Len(c) \in Nat /\ Len(v \o c) = Len(v) + Len(c)
    OBVIOUS
  <1>2. Len(u) <= Len(v)
    BY DEF Begins
  <1>3. \A p \in 1..Len(u) : p \in 1..Len(v)
    BY <1>1, <1>2
  <1>4. \A p \in 1..Len(v) : (v \o c)[p] = v[p]
    OBVIOUS
  <1>5. \A p \in 1..Len(u) : (v \o c)[p] = u[p]
    BY <1>3, <1>4 DEF Begins
  <1>6. Len(u) <= Len(v \o c)
    BY <1>1, <1>2
  <1> QED BY <1>5, <1>6 DEF Begins

\* What is in the builder stays there.
LEMMA BuilderGrows ==
    ASSUME NEW s \in Seq(Bytes), NEW i \in 0..Len(s)
    PROVE  \A j \in i..Len(s) : Begins(Built(s)[i], Built(s)[j])
  <1> DEFINE n == Len(s)
             b == Built(s)
             T == {j \in 0..n : i <= j => Begins(b[i], b[j])}
  <1>1. n \in Nat /\ i \in 0..n /\ i \in Nat
    OBVIOUS
  <1>2. /\ \A k \in 0..n : b[k] \in Seq(Bytes)
        /\ \A k \in 1..n : b[k] = b[k - 1] \o EscByte(s, k)
    BY BuiltBuilds DEF Builds
  <1>3. \A k \in 1..n : EscByte(s, k) \in Seq(Bytes)
    BY EscByteMeans
  <1> HIDE DEF n, b
  <1>4. Begins(b[i], b[i])
    <2>1. Len(b[i]) \in Nat
      BY <1>1, <1>2
    <2> QED BY <2>1 DEF Begins
  <1>5. 0 \in T
    BY <1>1, <1>4
  <1>6. ASSUME NEW j \in 0..(n - 1), j \in T PROVE j + 1 \in T
    <2>1. j \in 0..n /\ j + 1 \in 0..n /\ j + 1 \in 1..n /\ (j + 1) - 1 = j
      BY <1>1
    <2>2. CASE i <= j
      <3>1. Begins(b[i], b[j])
        BY <1>6, <2>2
      <3>2. b[j + 1] = b[j] \o EscByte(s, j + 1)
        BY <1>2, <2>1
      <3>3. b[i] \in Seq(Bytes) /\ b[j] \in Seq(Bytes) /\ EscByte(s, j + 1) \in Seq(Bytes)
        BY <1>1, <1>2, <1>3, <2>1
      <3>4. Begins(b[i], b[j + 1])
        BY <3>1, <3>2, <3>3, WritingOn
      <3> QED BY <2>1, <3>4
    <2>3. CASE ~(i <= j)
      <3>1. i <= j + 1 => i = j + 1
        BY <1>1, <2>1, <2>3
      <3> QED BY <1>4, <2>1, <3>1
    <2> QED BY <2>2, <2>3
  <1> HIDE DEF T
  <1>7. \A j \in 0..n : j \in T
    <2>1. T \in SUBSET (0..n)
      BY DEF T
    <2> QED BY <1>1, <1>5, <1>6, <2>1, Counting
  <1>8. \A j \in i..n : j \in 0..n /\ i <= j
    BY <1>1
  <1> QED BY <1>7, <1>8 DEF T, n, b

\* An escape is a sequence of bytes.
LEMMA EscIsBytes ==
    ASSUME NEW s \in Seq(Bytes)
    PROVE  Esc(s) \in Seq(Bytes)
  <1>1. Len(s) \in 0..Len(s)
    OBVIOUS
  <1> QED BY <1>1, BuiltBuilds DEF Builds, Esc

\* The code of each byte is in the escape where the builder ended before it.
LEMMA CodeInPlace ==
    ASSUME NEW s \in Seq(Bytes), NEW k \in 1..Len(s)
    PROVE  LET o == Len(Built(s)[k - 1])
               c == EscByte(s, k)
           IN  /\ o \in Nat /\ o + Len(c) <= Len(Esc(s))
               /\ \A p \in 1..Len(c) : Esc(s)[o + p] = c[p]
  <1> DEFINE b == Built(s)
             o == Len(b[k - 1])
             c == EscByte(s, k)
  <1>1. k - 1 \in 0..Len(s) /\ k \in 0..Len(s) /\ Len(s) \in k..Len(s)
    OBVIOUS
  <1>2. b[k - 1] \in Seq(Bytes) /\ c \in Seq(Bytes) /\ b[k] = b[k - 1] \o c
    BY <1>1, BuiltBuilds, EscByteMeans DEF Builds
  <1>3. Begins(b[k], Esc(s))
    BY <1>1, BuilderGrows DEF Esc
  <1> HIDE DEF b, c
  <1>4. /\ o \in Nat /\ Len(c) \in Nat /\ Len(b[k]) = o + Len(c)
        /\ \A p \in 1..Len(c) : b[k][o + p] = c[p]
    BY <1>2
  <1>5. \A p \in 1..Len(c) : o + p \in 1..Len(b[k])
    BY <1>4
  <1>6. \A p \in 1..Len(c) : Esc(s)[o + p] = c[p]
    BY <1>3, <1>4, <1>5 DEF Begins
  <1> QED BY <1>3, <1>4, <1>6 DEF Begins, b, c

-----------------------------------------------------------------------------
(***************************************************************************)
(* The escape.                                                             *)
(***************************************************************************)
\* Two branches with one escape that agree so far agree on the next byte.
LEMMA NextByteAgrees ==
    ASSUME NEW s \in Seq(Bytes), NEW t \in Seq(Bytes), Esc(s) = Esc(t),
           NEW k \in 0..(Len(s) - 1), k <= Len(t), Built(s)[k] = Built(t)[k]
    PROVE  /\ k + 1 <= Len(t) /\ s[k + 1] = t[k + 1]
           /\ Built(s)[k + 1] = Built(t)[k + 1]
  <1> DEFINE i == k + 1
             c == EscByte(s, i)
             d == EscByte(t, i)
             o == Len(Built(s)[k])
             e == Esc(s)
  <1>1. /\ Len(s) \in Nat /\ Len(t) \in Nat /\ k \in Nat
        /\ i \in 1..Len(s) /\ i \in Nat /\ i - 1 = k
    OBVIOUS
  <1>2. Len(c) \in {1, 3}
    BY <1>1, EscByteMeans
  <1>3. o \in Nat /\ o + Len(c) <= Len(e) /\ \A p \in 1..Len(c) : e[o + p] = c[p]
    BY <1>1, CodeInPlace
  <1>4. i \in 1..Len(t)
    <2>1. Len(e) \in Nat
      BY EscIsBytes
    <2>2. k = Len(t) => Len(e) = o
      BY DEF Esc
    <2> HIDE DEF c, o, e
    <2>3. Len(e) # o
      BY <1>2, <1>3, <2>1
    <2>4. k # Len(t)
      BY <2>2, <2>3
    <2> QED BY <1>1, <2>4
  <1>5. Len(d) \in {1, 3}
    BY <1>4, EscByteMeans
  <1>6. \A p \in 1..Len(d) : e[o + p] = d[p]
    BY <1>1, <1>4, CodeInPlace
  <1> HIDE DEF c, d, o, e
  <1>7. c[1] = d[1]
    BY <1>2, <1>3, <1>5, <1>6
  <1>8. Len(c) = 3 /\ Len(d) = 3 => c[2] = d[2] /\ c[3] = d[3]
    BY <1>3, <1>6
  <1>9. s[i] = t[i]
    BY <1>1, <1>4, <1>7, <1>8, CodesArePrefixFree DEF c, d
  <1>10. c = d
    BY <1>9 DEF c, d, EscByte
  <1>11. Built(s)[i] = Built(s)[k] \o c /\ Built(t)[i] = Built(t)[k] \o d
    BY <1>1, <1>4, BuiltBuilds DEF Builds, c, d
  <1> QED BY <1>1, <1>4, <1>9, <1>10, <1>11

\* So they agree as far as the shorter one goes, and it is not the shorter.
LEMMA AgreeThroughout ==
    ASSUME NEW s \in Seq(Bytes), NEW t \in Seq(Bytes), Esc(s) = Esc(t)
    PROVE  Len(s) <= Len(t) /\ \A i \in 1..Len(s) : s[i] = t[i]
  <1> DEFINE n == Len(s)
             Agree(k) == /\ k <= Len(t) /\ Built(s)[k] = Built(t)[k]
                         /\ k # 0 => s[k] = t[k]
             T == {k \in 0..n : Agree(k)}
  <1>1. n \in Nat /\ Len(t) \in Nat /\ T \in SUBSET (0..n)
    OBVIOUS
  <1>2. 0 \in T
    BY <1>1, BuiltBuilds DEF Builds
  <1>3. ASSUME NEW k \in 0..(n - 1), k \in T PROVE k + 1 \in T
    <2>1. k + 1 \in 0..n
      BY <1>1
    <2>2. Agree(k)
      BY <1>3
    <2>3. Agree(k + 1)
      BY <2>2, NextByteAgrees
    <2> HIDE DEF Agree
    <2> QED BY <2>1, <2>3
  <1> HIDE DEF T
  <1>4. \A k \in 0..n : k \in T
    BY <1>1, <1>2, <1>3, Counting
  <1>5. \A k \in 0..n : Agree(k)
    BY <1>4 DEF T
  <1>6. n \in 0..n /\ \A i \in 1..n : i \in 0..n /\ i # 0
    BY <1>1
  <1> QED BY <1>5, <1>6

\* Esc is injective: no two branches, of any length, have the same escape.
THEOREM EscInjective ==
    ASSUME NEW s \in Seq(Bytes), NEW t \in Seq(Bytes), Esc(s) = Esc(t)
    PROVE  s = t
  <1>1. Len(s) = Len(t) /\ Len(s) \in Nat
    <2>1. Len(s) <= Len(t) /\ Len(t) <= Len(s)
      BY AgreeThroughout
    <2>2. Len(s) \in Nat /\ Len(t) \in Nat
      OBVIOUS
    <2> QED BY <2>1, <2>2
  <1>2. \A i \in 1..Len(s) : s[i] = t[i]
    BY AgreeThroughout
  <1> QED BY <1>1, <1>2

\* The escape of a branch is one path segment that LIST does not hide: no
\* slash in it, no dot in front, and it is not empty when the branch is not.
THEOREM EscIsOneSegment ==
    ASSUME NEW s \in Seq(Bytes), s # <<>>
    PROVE  /\ Esc(s) # <<>> /\ Esc(s)[1] # Dot
           /\ \A p \in DOMAIN Esc(s) : Esc(s)[p] # Slash
  <1> DEFINE n == Len(s)
             b == Built(s)
             T == {j \in 0..n : \A p \in 1..Len(b[j]) : b[j][p] # Slash}
  <1>1. n \in Nat /\ 1 \in 1..n /\ T \in SUBSET (0..n)
    OBVIOUS
  <1>2. /\ b[0] = <<>> /\ \A k \in 0..n : b[k] \in Seq(Bytes)
        /\ \A k \in 1..n : b[k] = b[k - 1] \o EscByte(s, k)
    BY BuiltBuilds DEF Builds
  <1>3. Esc(s) # <<>> /\ Esc(s)[1] # Dot
    <2> DEFINE c == EscByte(s, 1)
    <2>1. Len(c) \in {1, 3} /\ c[1] # Dot
      BY <1>1, EscByteMeans
    <2>2. 0 + Len(c) <= Len(Esc(s)) /\ \A p \in 1..Len(c) : Esc(s)[0 + p] = c[p]
      BY <1>1, <1>2, CodeInPlace
    <2>3. Esc(s) \in Seq(Bytes)
      BY EscIsBytes
    <2> HIDE DEF c
    <2>4. Len(Esc(s)) # 0 /\ Esc(s)[1] = c[1]
      BY <2>1, <2>2
    <2> QED BY <2>1, <2>3, <2>4
  <1>4. 0 \in T
    BY <1>1, <1>2
  <1>5. ASSUME NEW j \in 0..(n - 1), j \in T PROVE j + 1 \in T
    <2>1. j \in 0..n /\ j + 1 \in 1..n /\ j + 1 \in 0..n /\ (j + 1) - 1 = j
      BY <1>1
    <2> DEFINE c == EscByte(s, j + 1)
               u == b[j]
    <2>2. c \in Seq(Bytes) /\ \A p \in 1..Len(c) : c[p] # Slash
      BY <2>1, EscByteMeans
    <2>3. u \in Seq(Bytes) /\ \A p \in 1..Len(u) : u[p] # Slash
      BY <1>2, <1>5, <2>1
    <2>4. b[j + 1] = u \o c
      BY <1>2, <2>1
    <2> HIDE DEF c, u
    <2>5. \A p \in 1..Len(u \o c) : (u \o c)[p] # Slash
      <3>1. Len(u) \in Nat /\ Len(c) \in Nat /\ Len(u \o c) = Len(u) + Len(c)
        BY <2>2, <2>3
      <3>2. /\ \A p \in 1..Len(u) : (u \o c)[p] = u[p]
            /\ \A p \in (Len(u) + 1)..(Len(u) + Len(c)) : (u \o c)[p] = c[p - Len(u)]
        BY <2>2, <2>3
      <3>3. \A p \in 1..(Len(u) + Len(c)) :
               \/ p \in 1..Len(u)
               \/ p \in (Len(u) + 1)..(Len(u) + Len(c)) /\ p - Len(u) \in 1..Len(c)
        BY <3>1
      <3> QED BY <2>2, <2>3, <3>1, <3>2, <3>3
    <2> QED BY <2>1, <2>4, <2>5
  <1> HIDE DEF T
  <1>6. n \in T
    <2>1. \A j \in 0..n : j \in T
      BY <1>1, <1>4, <1>5, Counting
    <2> QED BY <1>1, <2>1
  <1>7. \A p \in 1..Len(Esc(s)) : Esc(s)[p] # Slash
    BY <1>6 DEF T, Esc
  <1>8. DOMAIN Esc(s) = 1..Len(Esc(s))
    BY EscIsBytes
  <1> QED BY <1>3, <1>7, <1>8

-----------------------------------------------------------------------------
(***************************************************************************)
(* The policies.                                                           *)
(***************************************************************************)
\* A branch policy is the repository's policy and one more segment.
LEMMA BranchPolicyMeans ==
    ASSUME NEW id
    PROVE  /\ Len(P1(id)) = 3 /\ Len(P2(id)) = 4
           /\ P2(id)[4] = Esc(id.branch)
           /\ P1(id) = <<P2(id)[1], P2(id)[2], P2(id)[3]>>
  <1> DEFINE e == Esc(id.branch)
             U == {id.org, id.repo, id.event, e}
  <1>1. P1(id) \in Seq(U) /\ e \in U /\ Len(P1(id)) = 3
    BY DEF P1
  <1> HIDE DEF U, e
  <1>2. P2(id) = Append(P1(id), e)
    BY DEF P2, e
  <1>3. Len(P2(id)) = 4 /\ P2(id)[4] = e
    BY <1>1, <1>2
  <1>4. \A i \in 1..3 : P2(id)[i] = P1(id)[i]
    BY <1>1, <1>2
  <1>5. P1(id) = <<P1(id)[1], P1(id)[2], P1(id)[3]>>
    BY DEF P1
  <1> QED BY <1>1, <1>3, <1>4, <1>5 DEF e

\* Two identities share a policy only within one repository and event, and a
\* branch policy only on the same branch.
THEOREM SharedPolicies ==
    ASSUME NEW a, NEW b, a.branch \in Seq(Bytes), b.branch \in Seq(Bytes),
           NEW shared \in Derive(a) \cap Derive(b)
    PROVE  P1(a) = P1(b) /\ (shared # P1(a) => a.branch = b.branch)
  <1>1. shared \in {P1(a), P2(a)} /\ shared \in {P1(b), P2(b)}
    BY DEF Derive
  <1>2. P1(a) # P2(b) /\ P2(a) # P1(b)
    <2>1. Len(P1(a)) = 3 /\ Len(P2(b)) = 4 /\ Len(P2(a)) = 4 /\ Len(P1(b)) = 3
      BY BranchPolicyMeans
    <2>2. Len(P1(a)) # Len(P2(b)) /\ Len(P2(a)) # Len(P1(b))
      BY <2>1
    <2> QED BY <2>2, Zenon
  <1>3. CASE shared = P1(a)
    BY <1>1, <1>2, <1>3
  <1>4. CASE shared # P1(a)
    <2>1. shared = P2(a) /\ shared = P2(b)
      BY <1>1, <1>2, <1>4
    <2>2. P1(a) = P1(b) /\ Esc(a.branch) = Esc(b.branch)
      BY <2>1, BranchPolicyMeans
    <2> QED BY <2>2, EscInjective
  <1> QED BY <1>3, <1>4
=============================================================================
