-------------------------- MODULE MountPath_proofs --------------------------
(***************************************************************************)
(* unescape_mount_path gives back what the kernel escaped, for paths of    *)
(* any length.  The inductions are by least counterexample: of a nonempty  *)
(* set of numbers at which a statement fails, the least one is looked at.  *)
(***************************************************************************)
EXTENDS MountPath, FiniteSetTheorems, SequenceTheorems, WellFoundedInduction, TLAPS

-----------------------------------------------------------------------------
\* Sets of naturals have a least element: the intervals up to its elements
\* are finite sets, of which inclusion is well founded.
LEMMA LeastExists ==
  ASSUME NEW S, S \subseteq Nat, S # {}
  PROVE  \E x \in S : \A y \in S : x <= y
<1> DEFINE Below == {0 .. x : x \in S}
<1>1. Below \subseteq FiniteSubsetsOf(Nat)
  <2>1. \A x \in S : IsFiniteSet(0 .. x)
    BY FS_Interval
  <2> QED
    BY <2>1 DEF FiniteSubsetsOf
<1>2. Below # {}
  OBVIOUS
<1>3. PICK t \in Below : \A u \in Below : <<u, t>> \notin StrictSubsetOrdering(Nat)
  <2> HIDE DEF Below
  <2> QED
    BY <1>1, <1>2, FS_StrictSubsetOrderingWellFounded, WFMin
<1>4. PICK x \in S : t = 0 .. x
  BY <1>3
<1>5. ASSUME NEW y \in S, y < x PROVE FALSE
  <2>1. /\ 0 .. y \in SUBSET Nat /\ 0 .. x \in SUBSET Nat
        /\ 0 .. y \subseteq 0 .. x
        /\ x \in 0 .. x /\ x \notin 0 .. y
    BY <1>5
  <2>2. <<0 .. y, t>> \in StrictSubsetOrdering(Nat)
    BY <2>1, <1>4 DEF StrictSubsetOrdering
  <2>3. 0 .. y \in Below
    OBVIOUS
  <2> QED
    BY <2>2, <2>3, <1>3
<1>6. \A y \in S : x <= y
  BY <1>5
<1> QED
  BY <1>6

-----------------------------------------------------------------------------
(***************************************************************************)
(* The escaped path                                                        *)
(***************************************************************************)

\* Every character is written as a sequence of them.
LEMMA EscapedTyped ==
  ASSUME NEW c \in Nat
  PROVE  /\ Escaped(c) \in Seq(Nat)
         /\ c \notin Special => Escaped(c) = <<c>>
         /\ c \in Special => Escaped(c) = Octal(c) /\ Len(Octal(c)) = 4
<1>1. c \in Special => Octal(c) \in Seq(Nat) /\ Len(Octal(c)) = 4
  BY DEF Octal, Special, Backslash, Digit0
<1> QED
  BY <1>1 DEF Escaped

\* The function that the concatenation of n sequences is defined by.
IsFlatten(f, seqs, n) ==
  f = [i \in 1 .. n |-> IF i = 1 THEN seqs[i] ELSE f[i - 1] \o seqs[i]]

\* There is such a function: one for n - 1 sequences has one more argument.
LEMMA FlattenExists ==
  ASSUME NEW seqs, NEW n \in Nat
  PROVE  \E f : IsFlatten(f, seqs, n)
<1> DEFINE Missing == {k \in Nat : ~ \E f : IsFlatten(f, seqs, k)}
<1> SUFFICES ASSUME Missing # {} PROVE FALSE
  OBVIOUS
<1>1. PICK k \in Missing : \A l \in Missing : k <= l
  <2>1. Missing \subseteq Nat
    OBVIOUS
  <2> HIDE DEF Missing
  <2> QED
    BY <2>1, LeastExists
<1>2. k \in Nat
  OBVIOUS
<1>3. CASE k = 0
  <2> DEFINE f == [i \in 1 .. 0 |-> seqs[i]]
  <2>1. f = [i \in 1 .. 0 |-> IF i = 1 THEN seqs[i] ELSE f[i - 1] \o seqs[i]]
    OBVIOUS
  <2>2. IsFlatten(f, seqs, 0)
    BY <2>1 DEF IsFlatten
  <2> QED
    BY <1>3, <2>2
<1>4. CASE k # 0
  <2>1. k - 1 \in Nat /\ k - 1 \notin Missing
    BY <1>1, <1>2, <1>4
  <2>2. PICK f : IsFlatten(f, seqs, k - 1)
    BY <2>1
  <2> DEFINE g == [i \in 1 .. k |->
                     IF i < k THEN f[i]
                     ELSE IF i = 1 THEN seqs[i] ELSE f[i - 1] \o seqs[i]]
             h == [i \in 1 .. k |-> IF i = 1 THEN seqs[i] ELSE g[i - 1] \o seqs[i]]
  <2>3. ASSUME NEW i \in 1 .. k PROVE g[i] = h[i]
    <3>1. i > 1 => g[i - 1] = f[i - 1]
      BY <1>2
    <3>2. i < k => f[i] = IF i = 1 THEN seqs[i] ELSE f[i - 1] \o seqs[i]
      <4>1. f = [j \in 1 .. k - 1 |-> IF j = 1 THEN seqs[j] ELSE f[j - 1] \o seqs[j]]
        BY <2>2 DEF IsFlatten
      <4>2. i < k => i \in 1 .. k - 1
        BY <1>2
      <4> QED
        BY <4>1, <4>2
    <3> QED
      BY <3>1, <3>2, <1>2
  <2>4. g = h
    <3>1. g = [i \in 1 .. k |-> g[i]] /\ h = [i \in 1 .. k |-> h[i]]
      OBVIOUS
    <3> HIDE DEF g, h
    <3> QED
      BY <3>1, <2>3
  <2>5. IsFlatten(g, seqs, k)
    BY <2>4 DEF IsFlatten
  <2> QED
    BY <2>5
<1> QED
  BY <1>3, <1>4

\* What is written grows by a character at a time.
LEMMA EscapePrefixes ==
  ASSUME NEW path \in Seq(Nat)
  PROVE  \E E \in [0 .. Len(path) -> Seq(Nat)] :
           /\ E[0] = <<>>
           /\ E[Len(path)] = escape(path)
           /\ \A i \in 1 .. Len(path) : E[i] = E[i - 1] \o Escaped(path[i])
<1> DEFINE n == Len(path)
           seqs == [i \in DOMAIN path |-> Escaped(path[i])]
<1>1. n \in Nat /\ DOMAIN path = 1 .. n /\ \A i \in 1 .. n : path[i] \in Nat
  BY LenProperties, ElementOfSeq
<1>2. /\ DOMAIN seqs = 1 .. n /\ Len(seqs) = n
      /\ \A i \in 1 .. n : seqs[i] = Escaped(path[i]) /\ seqs[i] \in Seq(Nat)
  BY <1>1, EscapedTyped
<1>3. escape(path) = FlattenSeq(seqs)
  BY DEF escape
<1> HIDE DEF seqs
<1>4. CASE n = 0
  <2>1. seqs = <<>>
    BY <1>2, <1>4
  <2>2. escape(path) = <<>>
    BY <1>2, <1>3, <1>4, <2>1 DEF FlattenSeq
  <2> DEFINE E == [i \in 0 .. n |-> <<>>]
  <2>3. /\ E \in [0 .. n -> Seq(Nat)] /\ E[0] = <<>> /\ E[n] = <<>>
        /\ \A i \in 1 .. n : E[i] = E[i - 1] \o Escaped(path[i])
    BY <1>4, EmptySeq
  <2> QED
    BY <2>2, <2>3
<1>5. CASE n # 0
  <2> DEFINE F == CHOOSE f : IsFlatten(f, seqs, n)
  <2>1. escape(path) = F[n]
    BY <1>2, <1>3, <1>5 DEF FlattenSeq, IsFlatten
  <2>2. IsFlatten(F, seqs, n)
    BY <1>1, FlattenExists
  <2> HIDE DEF F
  <2>3. \A i \in 1 .. n : F[i] = IF i = 1 THEN seqs[i] ELSE F[i - 1] \o seqs[i]
    BY <2>2 DEF IsFlatten
  <2> DEFINE E == [i \in 0 .. n |-> IF i = 0 THEN <<>> ELSE F[i]]
             Bad == {i \in 0 .. n : E[i] \notin Seq(Nat)}
  <2>4. ASSUME NEW i \in 1 .. n PROVE E[i] = E[i - 1] \o Escaped(path[i])
    <3>1. CASE i = 1
      <4>1. E[i] = seqs[1] /\ E[i - 1] = <<>>
        BY <1>1, <2>3, <3>1
      <4> QED
        BY <4>1, <1>2, <3>1, ConcatEmptySeq
    <3>2. CASE i # 1
      <4>1. E[i] = F[i] /\ E[i - 1] = F[i - 1]
        BY <1>1, <3>2
      <4> QED
        BY <4>1, <3>2, <2>3, <1>2
    <3> QED
      BY <3>1, <3>2
  <2>5. E[0] = <<>> /\ E[n] = F[n]
    BY <1>1, <1>5
  <2>6. Bad = {}
    <3> SUFFICES ASSUME Bad # {} PROVE FALSE
      OBVIOUS
    <3>1. PICK i \in Bad : \A j \in Bad : i <= j
      <4>1. Bad \subseteq Nat
        BY <1>1
      <4> HIDE DEF Bad
      <4> QED
        BY <4>1, LeastExists
    <3>2. i \in 0 .. n /\ E[i] \notin Seq(Nat)
      OBVIOUS
    <3>3. i # 0
      BY <3>2, <2>5, EmptySeq
    <3>4. i - 1 \in 0 .. n /\ i - 1 \notin Bad /\ i \in 1 .. n
      BY <3>1, <3>2, <3>3, <1>1
    <3> HIDE DEF E
    <3>5. E[i - 1] \in Seq(Nat)
      BY <3>4
    <3>6. E[i] \in Seq(Nat)
      <4>1. Escaped(path[i]) \in Seq(Nat)
        BY <3>4, <1>1, EscapedTyped
      <4>2. E[i - 1] \o Escaped(path[i]) \in Seq(Nat)
        BY <3>5, <4>1, ConcatProperties
      <4> QED
        BY <4>2, <3>4, <2>4
    <3> QED
      BY <3>2, <3>6
  <2>7. E \in [0 .. n -> Seq(Nat)]
    <3>1. \A i \in 0 .. n : E[i] \in Seq(Nat)
      BY <2>6
    <3> QED
      BY <3>1
  <2> HIDE DEF E
  <2> QED
    BY <2>1, <2>4, <2>5, <2>7
<1> QED
  BY <1>4, <1>5

\* What is written after a sequence leaves it where it is.
LEMMA FirstPartStays ==
  ASSUME NEW first \in Seq(Nat), NEW more \in Seq(Nat)
  PROVE  /\ Len(first) <= Len(first \o more)
         /\ \A j \in 1 .. Len(first) : (first \o more)[j] = first[j]
<1>1. Len(first) \in Nat /\ Len(more) \in Nat
  BY LenProperties
<1>2. /\ Len(first \o more) = Len(first) + Len(more)
      /\ \A j \in 1 .. Len(first) + Len(more) :
           (first \o more)[j] = IF j <= Len(first) THEN first[j]
                                                  ELSE more[j - Len(first)]
  BY ConcatProperties
<1>3. \A a, b \in Nat : a <= a + b /\ \A j \in 1 .. a : j \in 1 .. a + b /\ j <= a
  OBVIOUS
<1> QED
  BY <1>1, <1>2, <1>3, Zenon

\* What was written first stays where it is.
LEMMA PrefixesStay ==
  ASSUME NEW path \in Seq(Nat),
         NEW E \in [0 .. Len(path) -> Seq(Nat)],
         \A i \in 1 .. Len(path) : E[i] = E[i - 1] \o Escaped(path[i])
  PROVE  \A i \in 0 .. Len(path) :
           /\ Len(E[i]) <= Len(E[Len(path)])
           /\ \A j \in 1 .. Len(E[i]) : E[Len(path)][j] = E[i][j]
<1> DEFINE n == Len(path)
           Stays(i) == /\ Len(E[i]) <= Len(E[n])
                       /\ \A j \in 1 .. Len(E[i]) : E[n][j] = E[i][j]
           Bad == {d \in 0 .. n : ~ Stays(n - d)}
<1>1. /\ n \in Nat /\ \A i \in 1 .. n : path[i] \in Nat
      /\ \A i \in 0 .. n : E[i] \in Seq(Nat) /\ Len(E[i]) \in Nat
  BY LenProperties, ElementOfSeq
<1>2. Bad = {}
  <2> SUFFICES ASSUME Bad # {} PROVE FALSE
    OBVIOUS
  <2>1. PICK d \in Bad : \A e \in Bad : d <= e
    <3>1. Bad \subseteq Nat
      BY <1>1
    <3> HIDE DEF Bad
    <3> QED
      BY <3>1, LeastExists
  <2>2. d \in 0 .. n /\ ~ Stays(n - d)
    OBVIOUS
  <2>3. d # 0
    <3>1. Stays(n)
      BY <1>1
    <3> QED
      BY <3>1, <2>2, <1>1
  <2> DEFINE i == n - d
  <2>4. i \in 0 .. n /\ i + 1 \in 1 .. n /\ d - 1 \in 0 .. n /\ n - (d - 1) = i + 1
    BY <1>1, <2>2, <2>3
  <2>5. Stays(i + 1)
    <3>1. d - 1 \notin Bad
      <4>1. ~ (d <= d - 1)
        BY <1>1, <2>2
      <4> HIDE DEF Bad
      <4> QED
        BY <4>1, <2>1
    <3> HIDE DEF Stays, i
    <3> QED
      BY <3>1, <2>4
  <2> HIDE DEF i
  <2>6. E[i] \in Seq(Nat) /\ Escaped(path[i + 1]) \in Seq(Nat)
    BY <1>1, <2>4, EscapedTyped
  <2>7. E[i + 1] = E[i] \o Escaped(path[i + 1])
    <3>1. (i + 1) - 1 = i
      BY <2>4
    <3> QED
      BY <3>1, <2>4
  <2>8. /\ Len(E[i]) <= Len(E[i + 1])
        /\ \A j \in 1 .. Len(E[i]) : E[i + 1][j] = E[i][j]
    <3> DEFINE more == Escaped(path[i + 1])
    <3>1. /\ Len(E[i]) <= Len(E[i] \o more)
          /\ \A j \in 1 .. Len(E[i]) : (E[i] \o more)[j] = E[i][j]
      BY <2>6, FirstPartStays
    <3>2. E[i + 1] = E[i] \o more
      BY <2>7
    <3> HIDE DEF more
    <3> QED
      BY <3>1, <3>2
  <2>9. Len(E[i]) \in Nat /\ Len(E[i + 1]) \in Nat /\ Len(E[n]) \in Nat
    BY <1>1, <2>4
  <2>10. Stays(i)
    <3>1. Len(E[i]) <= Len(E[n])
      <4>1. \A a, b, c \in Nat : a <= b /\ b <= c => a <= c
        OBVIOUS
      <4>2. Len(E[i]) <= Len(E[i + 1]) /\ Len(E[i + 1]) <= Len(E[n])
        BY <2>5, <2>8
      <4> QED
        BY <4>1, <4>2, <2>9, Zenon
    <3>2. ASSUME NEW j \in 1 .. Len(E[i]) PROVE E[n][j] = E[i][j]
      <4>1. j \in 1 .. Len(E[i + 1])
        BY <2>8, <2>9
      <4>2. E[n][j] = E[i + 1][j]
        BY <4>1, <2>5
      <4> QED
        BY <4>2, <2>8
    <3> QED
      BY <3>1, <3>2
  <2> QED
    BY <2>2, <2>10 DEF i
<1>3. \A i \in 0 .. n : Stays(i)
  <2> TAKE i \in 0 .. n
  <2>1. n - i \in 0 .. n /\ n - (n - i) = i
    BY <1>1
  <2>2. Stays(n - (n - i))
    <3> HIDE DEF Stays
    <3> QED
      BY <2>1, <1>2
  <2> QED
    BY <2>1, <2>2
<1> QED
  BY <1>3

-----------------------------------------------------------------------------
(***************************************************************************)
(* The path that comes out                                                 *)
(***************************************************************************)

\* What comes out from i on, given what comes out further on.
FromHere(f, in, i) ==
  IF i > Len(in) THEN <<>>
  ELSE IF EscapeAt(in, i) THEN <<OctalChar(in, i)>> \o f[i + 4]
  ELSE <<in[i]>> \o f[i + 1]

\* The function of unescape_mount_path, from m on.
IsUnescape(f, in, m) == f = [i \in m .. Len(in) + 1 |-> FromHere(f, in, i)]

\* There is such a function: one from m + 1 on gets an argument before.
LEMMA UnescapeExists ==
  ASSUME NEW in \in Seq(Nat)
  PROVE  \E f : IsUnescape(f, in, 1)
<1> DEFINE last == Len(in) + 1
           Missing == {d \in 0 .. Len(in) : ~ \E f : IsUnescape(f, in, last - d)}
<1>1. Len(in) \in Nat /\ last \in Nat
  BY LenProperties
<1> SUFFICES Missing = {}
  <2>1. Len(in) \notin Missing /\ Len(in) \in 0 .. Len(in) /\ last - Len(in) = 1
    BY <1>1
  <2> QED
    BY <2>1
<1> SUFFICES ASSUME Missing # {} PROVE FALSE
  OBVIOUS
<1>2. PICK d \in Missing : \A e \in Missing : d <= e
  <2>1. Missing \subseteq Nat
    BY <1>1
  <2> HIDE DEF Missing
  <2> QED
    BY <2>1, LeastExists
<1>3. d \in 0 .. Len(in) /\ ~ \E f : IsUnescape(f, in, last - d)
  OBVIOUS
<1>4. CASE d = 0
  <2> DEFINE f == [i \in last .. last |-> <<>>]
  <2>1. \A i \in last .. last : FromHere(f, in, i) = <<>>
    BY <1>1 DEF FromHere
  <2>2. f = [i \in last .. last |-> FromHere(f, in, i)]
    BY <2>1
  <2>3. IsUnescape(f, in, last)
    BY <2>2 DEF IsUnescape
  <2> QED
    BY <1>1, <1>3, <1>4, <2>3
<1>5. CASE d # 0
  <2> DEFINE m == last - d
  <2>1. /\ m \in 1 .. Len(in) /\ m + 1 \in 1 .. last
        /\ d - 1 \in 0 .. Len(in) /\ last - (d - 1) = m + 1
    BY <1>1, <1>3, <1>5
  <2>2. PICK f : IsUnescape(f, in, m + 1)
    <3>1. d - 1 \notin Missing
      <4>1. ~ (d <= d - 1)
        BY <1>1, <1>3
      <4> HIDE DEF Missing
      <4> QED
        BY <4>1, <1>2
    <3> HIDE DEF m
    <3> QED
      BY <3>1, <2>1
  <2>3. f = [i \in m + 1 .. last |-> FromHere(f, in, i)]
    BY <2>2 DEF IsUnescape
  <2> HIDE DEF m
  <2> DEFINE g == [i \in m .. last |-> IF i > m THEN f[i] ELSE FromHere(f, in, i)]
             h == [i \in m .. last |-> FromHere(g, in, i)]
  <2>4. ASSUME NEW i \in m .. last PROVE g[i] = h[i]
    <3>1. g[i] = FromHere(f, in, i)
      <4>1. i > m => f[i] = FromHere(f, in, i)
        <5>1. i > m => i \in m + 1 .. last
          BY <2>1, <1>1
        <5> QED
          BY <5>1, <2>3
      <4> QED
        BY <4>1
    <3>2. FromHere(g, in, i) = FromHere(f, in, i)
      <4>1. i <= Len(in) => g[i + 1] = f[i + 1]
        BY <2>1, <1>1
      <4>2. EscapeAt(in, i) => g[i + 4] = f[i + 4]
        <5>1. EscapeAt(in, i) => i + 3 <= Len(in)
          BY DEF EscapeAt
        <5>2. EscapeAt(in, i) => i + 4 \in m .. last /\ i + 4 > m
          BY <5>1, <2>1, <1>1
        <5> QED
          BY <5>2
      <4> HIDE DEF g
      <4> QED
        BY <4>1, <4>2, <2>1, <1>1 DEF FromHere
    <3> QED
      BY <3>1, <3>2
  <2>5. g = h
    BY <2>4
  <2>6. IsUnescape(g, in, m)
    BY <2>5 DEF IsUnescape
  <2> QED
    BY <2>6, <1>3 DEF m
<1> QED
  BY <1>4, <1>5

\* What comes out from every position on.
LEMMA UnescapeSteps ==
  ASSUME NEW in \in Seq(Nat)
  PROVE  \E f : /\ unescape_mount_path(in) = f[1]
                /\ \A i \in 1 .. Len(in) + 1 : f[i] = FromHere(f, in, i)
<1> DEFINE f == CHOOSE g : IsUnescape(g, in, 1)
<1>1. unescape_mount_path(in) = f[1]
  BY DEF unescape_mount_path, IsUnescape, FromHere
<1>2. IsUnescape(f, in, 1)
  BY UnescapeExists
<1> HIDE DEF f
<1>3. \A i \in 1 .. Len(in) + 1 : f[i] = FromHere(f, in, i)
  BY <1>2 DEF IsUnescape
<1> QED
  BY <1>1, <1>3

\* The three digits of an escape are those of its character.
LEMMA OctalDigitsOf ==
  ASSUME NEW c \in Special
  PROVE  /\ c \in Nat
         /\ Octal(c)[1] = Backslash
         /\ \A j \in 1 .. 3 : Octal(c)[j + 1] \in OctalDigits
         /\ ((Octal(c)[2] - Digit0) * 64 + (Octal(c)[3] - Digit0) * 8
               + (Octal(c)[4] - Digit0)) % 256 = c
<1>1. c \in Nat /\ c < 256
  BY DEF Special, Backslash
<1> DEFINE high == c \div 64
           middle == (c \div 8) % 8
           low == c % 8
<1>2. /\ Octal(c)[1] = Backslash /\ Octal(c)[2] = Digit0 + high
      /\ Octal(c)[3] = Digit0 + middle /\ Octal(c)[4] = Digit0 + low
  BY DEF Octal
<1>3. high \in 0 .. 7 /\ middle \in 0 .. 7 /\ low \in 0 .. 7
  BY <1>1
<1>4. high * 64 + middle * 8 + low = c
  BY DEF Special, Backslash
<1> HIDE DEF high, middle, low
<1>5. \A j \in 1 .. 3 : Octal(c)[j + 1] \in OctalDigits
  <2>1. Octal(c)[2] \in OctalDigits /\ Octal(c)[3] \in OctalDigits /\ Octal(c)[4] \in OctalDigits
    BY <1>2, <1>3 DEF OctalDigits, Digit0
  <2>2. \A j \in 1 .. 3 : j + 1 = 2 \/ j + 1 = 3 \/ j + 1 = 4
    OBVIOUS
  <2> QED
    BY <2>1, <2>2
<1>6. (Octal(c)[2] - Digit0) * 64 + (Octal(c)[3] - Digit0) * 8 + (Octal(c)[4] - Digit0) = c
  BY <1>2, <1>3, <1>4 DEF Digit0
<1> QED
  BY <1>1, <1>2, <1>5, <1>6

\* Where a character was written, it comes out, and what follows after it: it
\* was escaped, or it does not begin an escape.
LEMMA CharacterComesOut ==
  ASSUME NEW in \in Seq(Nat), NEW f, NEW c \in Nat, NEW s \in Nat \ {0},
         s + Len(Escaped(c)) - 1 <= Len(in),
         \A j \in 1 .. Len(Escaped(c)) : in[s - 1 + j] = Escaped(c)[j]
  PROVE  FromHere(f, in, s) = <<c>> \o f[s + Len(Escaped(c))]
<1>1. Len(in) \in Nat
  BY LenProperties
<1>2. CASE c \in Special
  <2>1. Escaped(c) = Octal(c) /\ Len(Escaped(c)) = 4
    BY <1>2, EscapedTyped
  <2>2. /\ in[s] = Octal(c)[1] /\ in[s + 1] = Octal(c)[2]
        /\ in[s + 2] = Octal(c)[3] /\ in[s + 3] = Octal(c)[4]
    <3>1. \A j \in 1 .. 4 : in[s - 1 + j] = Octal(c)[j]
      BY <2>1
    <3>2. s - 1 + 1 = s /\ s - 1 + 2 = s + 1 /\ s - 1 + 3 = s + 2 /\ s - 1 + 4 = s + 3
      OBVIOUS
    <3> QED
      BY <3>1, <3>2
  <2>3. \A j \in 1 .. 3 : in[s + j] = Octal(c)[j + 1]
    <3> TAKE j \in 1 .. 3
    <3>1. CASE j = 1
      BY <2>2, <3>1
    <3>2. CASE j = 2
      BY <2>2, <3>2
    <3>3. CASE j = 3
      BY <2>2, <3>3
    <3> QED
      BY <3>1, <3>2, <3>3
  <2>4. s + 3 <= Len(in)
    BY <2>1, <1>1
  <2>5. EscapeAt(in, s)
    BY <1>2, <2>2, <2>3, <2>4, OctalDigitsOf DEF EscapeAt
  <2>6. OctalChar(in, s) = c
    BY <1>2, <2>2, OctalDigitsOf DEF OctalChar
  <2>7. ~ (s > Len(in))
    BY <2>4, <1>1
  <2> QED
    BY <2>1, <2>5, <2>6, <2>7 DEF FromHere
<1>3. CASE c \notin Special
  <2>1. Escaped(c) = <<c>> /\ Len(Escaped(c)) = 1
    BY <1>3, EscapedTyped
  <2>2. in[s] = c
    <3>1. in[s - 1 + 1] = c
      BY <2>1
    <3>2. s - 1 + 1 = s
      OBVIOUS
    <3> QED
      BY <3>1, <3>2
  <2>3. ~ EscapeAt(in, s)
    BY <1>3, <2>2 DEF EscapeAt, Special
  <2>4. ~ (s > Len(in))
    BY <2>1, <1>1
  <2> QED
    BY <2>1, <2>2, <2>3, <2>4 DEF FromHere
<1> QED
  BY <1>2, <1>3

\* Every path comes out of /proc/self/mounts as it is, whatever its length and
\* its characters: unescape_mount_path undoes the escaping of the kernel
\* (Platform.cpp:104-124).
THEOREM UnescapeIsInverse ==
  \A path \in Seq(Nat) : unescape_mount_path(escape(path)) = path
<1> TAKE path \in Seq(Nat)
<1> DEFINE n == Len(path)
           in == escape(path)
<1>1. n \in Nat /\ \A i \in 1 .. n : path[i] \in Nat
  BY LenProperties, ElementOfSeq
<1>2. PICK E \in [0 .. n -> Seq(Nat)] :
        /\ E[0] = <<>>
        /\ E[n] = in
        /\ \A i \in 1 .. n : E[i] = E[i - 1] \o Escaped(path[i])
  BY EscapePrefixes
<1> HIDE DEF in
<1>3. in \in Seq(Nat) /\ Len(in) \in Nat
  BY <1>1, <1>2, LenProperties
<1>4. \A i \in 0 .. n :
        /\ E[i] \in Seq(Nat) /\ Len(E[i]) \in Nat /\ Len(E[i]) <= Len(in)
        /\ \A j \in 1 .. Len(E[i]) : in[j] = E[i][j]
  <2>1. \A i \in 0 .. n :
          /\ Len(E[i]) <= Len(E[n])
          /\ \A j \in 1 .. Len(E[i]) : E[n][j] = E[i][j]
    BY <1>2, PrefixesStay
  <2> QED
    BY <1>2, <2>1, LenProperties
<1>5. PICK f : /\ unescape_mount_path(in) = f[1]
               /\ \A i \in 1 .. Len(in) + 1 : f[i] = FromHere(f, in, i)
  BY <1>3, UnescapeSteps
<1> DEFINE ComesOut(i) == f[Len(E[i]) + 1] = SubSeq(path, i + 1, n)
           Bad == {d \in 0 .. n : ~ ComesOut(n - d)}
<1>6. ASSUME NEW i \in 0 .. n - 1, ComesOut(i + 1) PROVE ComesOut(i)
  <2> DEFINE c == path[i + 1]
             s == Len(E[i]) + 1
  <2>1. /\ i \in 0 .. n /\ i + 1 \in 1 .. n /\ i + 1 \in 0 .. n /\ (i + 1) - 1 = i
        /\ c \in Nat /\ s \in Nat \ {0}
    BY <1>1, <1>4
  <2>2. Escaped(c) \in Seq(Nat) /\ Len(Escaped(c)) \in Nat
    BY <2>1, EscapedTyped, LenProperties
  <2>3. E[i + 1] = E[i] \o Escaped(c)
    BY <1>2, <2>1
  <2>4. /\ Len(E[i + 1]) = Len(E[i]) + Len(Escaped(c))
        /\ \A j \in 1 .. Len(E[i]) + Len(Escaped(c)) :
             E[i + 1][j] = IF j <= Len(E[i]) THEN E[i][j]
                           ELSE Escaped(c)[j - Len(E[i])]
    BY <2>1, <2>2, <2>3, <1>4, ConcatProperties
  <2>5. Len(E[i]) \in Nat /\ Len(E[i + 1]) \in Nat /\ Len(E[i + 1]) <= Len(in)
    BY <1>4, <2>1
  <2> DEFINE w == Escaped(c)
             t == Len(E[i])
             u == E[i + 1]
  <2>w. /\ t \in Nat /\ Len(w) \in Nat /\ Len(u) = t + Len(w) /\ s = t + 1
        /\ Len(u) <= Len(in)
    BY <2>2, <2>4, <2>5
  <2>6. \A j \in 1 .. Len(w) : in[s - 1 + j] = w[j]
    <3> TAKE j \in 1 .. Len(w)
    <3>1. /\ t + j \in 1 .. t + Len(w) /\ ~ (t + j <= t) /\ (t + j) - t = j
          /\ s - 1 + j = t + j
      <4> HIDE DEF t, w, s
      <4> QED
        BY <2>w
    <3>2. u[t + j] = w[j]
      BY <3>1, <2>4
    <3>3. t + j \in 1 .. Len(u)
      BY <3>1, <2>4
    <3>4. in[t + j] = u[t + j]
      BY <3>3, <1>4, <2>1
    <3> QED
      BY <3>1, <3>2, <3>4
  <2>7. s + Len(w) - 1 <= Len(in) /\ s \in 1 .. Len(in) + 1 /\ s + Len(w) = Len(u) + 1
    <3> HIDE DEF t, w, u, s
    <3> QED
      BY <2>w, <1>3
  <2>8. f[s] = <<c>> \o f[Len(u) + 1]
    <3>1. f[s] = FromHere(f, in, s)
      BY <2>7, <1>5
    <3>2. FromHere(f, in, s) = <<c>> \o f[s + Len(w)]
      <4> HIDE DEF c, s
      <4> QED
        BY <1>3, <2>1, <2>6, <2>7, CharacterComesOut
    <3> QED
      BY <3>1, <3>2, <2>7, Zenon
  <2>9. SubSeq(path, i + 1, n) = <<c>> \o SubSeq(path, i + 2, n)
    <3>1. i + 1 \in 1 .. Len(path) /\ n \in i + 1 .. Len(path) /\ (i + 1) + 1 = i + 2
      BY <1>1, <2>1
    <3> QED
      BY <3>1, SubSeqRecursiveFirst
  <2>10. f[Len(u) + 1] = SubSeq(path, i + 2, n)
    <3>1. (i + 1) + 1 = i + 2
      BY <2>1
    <3> QED
      BY <1>6, <3>1
  <2> QED
    BY <2>8, <2>9, <2>10
<1>7. ComesOut(n)
  <2>1. f[Len(in) + 1] = <<>>
    <3>1. Len(in) + 1 \in 1 .. Len(in) + 1 /\ Len(in) + 1 > Len(in)
      BY <1>3
    <3> QED
      BY <3>1, <1>5 DEF FromHere
  <2>2. SubSeq(path, n + 1, n) = <<>>
    BY <1>1, SubSeqEmpty
  <2> QED
    BY <1>2, <2>1, <2>2
<1>8. Bad = {}
  <2> SUFFICES ASSUME Bad # {} PROVE FALSE
    OBVIOUS
  <2>1. PICK d \in Bad : \A e \in Bad : d <= e
    <3>1. Bad \subseteq Nat
      BY <1>1
    <3> HIDE DEF Bad
    <3> QED
      BY <3>1, LeastExists
  <2>2. d \in 0 .. n /\ ~ ComesOut(n - d)
    OBVIOUS
  <2>3. d # 0
    <3>1. n - 0 = n
      BY <1>1
    <3> HIDE DEF ComesOut
    <3> QED
      BY <3>1, <1>7, <2>2
  <2>4. d - 1 \notin Bad
    <3>1. ~ (d <= d - 1)
      BY <1>1, <2>2
    <3> HIDE DEF Bad
    <3> QED
      BY <3>1, <2>1
  <2>5. d - 1 \in 0 .. n /\ n - d \in 0 .. n - 1 /\ n - (d - 1) = (n - d) + 1
    BY <1>1, <2>2, <2>3
  <2> HIDE DEF ComesOut
  <2>6. ComesOut((n - d) + 1)
    BY <2>4, <2>5
  <2> QED
    BY <2>2, <2>5, <2>6, <1>6
<1>9. ComesOut(0)
  <2>1. n \in 0 .. n /\ n - n = 0
    BY <1>1
  <2> HIDE DEF ComesOut
  <2>2. ComesOut(n - n)
    BY <2>1, <1>8
  <2> QED
    BY <2>1, <2>2
<1>10. f[1] = path
  <2>1. Len(E[0]) + 1 = 1
    BY <1>2, EmptySeq
  <2>2. SubSeq(path, 0 + 1, n) = path
    BY SubSeqFull
  <2> QED
    BY <1>9, <2>1, <2>2
<1> QED
  BY <1>5, <1>10 DEF in
=============================================================================
