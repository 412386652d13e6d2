--------------------------- MODULE SequenceLemmas ---------------------------
(***************************************************************************)
(* What the proofs about sequences rest on: induction over the naturals,   *)
(* by way of the sets that contain 0 and the successor of each of their    *)
(* elements, the existence of what is defined by recursion over a range,   *)
(* and from these what Max and FlattenSeq of the community modules yield;  *)
(* prefixes of sequences; and the linked lists of Dll.                     *)
(***************************************************************************)
EXTENDS Dll, SequencesExt, FiniteSetsExt, WellFoundedInduction, SequenceTheorems, TLAPS

Less == {p \in Nat \X Nat : p[1] < p[2]}

LEMMA LessDef == \A p, q \in Nat : <<p, q>> \in Less <=> p < q
BY DEF Less

LEMMA NoInfiniteDescent == IsWellFoundedOn(Less, Nat)
<1>1. IsWellFoundedOn(OpToRel(<, Nat), Nat)
  BY NatLessThanWellFounded
<1>2. OpToRel(<, Nat) = Less
  BY DEF OpToRel, Less
<1> QED BY <1>1, <1>2

\* The least of a set of naturals.
LEMMA LeastNatural ==
    ASSUME NEW B \in SUBSET Nat, B # {}
    PROVE  \E x \in B : \A y \in B : x <= y
<1>1. PICK x \in B : \A y \in B : ~(<<y, x>> \in Less)
  BY NoInfiniteDescent, WFMin
<1>2. \A y \in B : ~(y < x)
  <2> TAKE y \in B
  <2>1. x \in Nat /\ y \in Nat
    OBVIOUS
  <2> QED
    BY <1>1, <2>1, LessDef
<1> QED
  BY <1>2

LEMMA SetInduction ==
  ASSUME NEW T, 0 \in T, \A n \in Nat : n \in T => n + 1 \in T
  PROVE Nat \subseteq T
<1> DEFINE B == Nat \ T
<1> SUFFICES ASSUME B # {} PROVE FALSE
  OBVIOUS
<1>1. PICK x \in B : \A y \in B : ~(<<y, x>> \in Less)
  <2>1. B \subseteq Nat
    OBVIOUS
  <2> HIDE DEF B
  <2> QED
  BY <2>1, NoInfiniteDescent, WFMin
<1>2. x # 0 /\ x \in Nat
  OBVIOUS
<1>3. x - 1 \in Nat
  BY <1>2
<1>4. x - 1 \in B
  BY <1>1, <1>3
<1>5. <<x - 1, x>> \in Less
  BY <1>2, <1>3, LessDef
<1> QED BY <1>1, <1>4, <1>5

Steps(N, S) == [(1..N) \X S -> S]

\* What comes of N steps from init, at each of them.
Iterates(N, S, init, step) ==
    {f \in [0..N -> S] : f[0] = init /\ \A i \in 1..N : f[i] = step[<<i, f[i - 1]>>]}

LEMMA Iteration ==
    ASSUME NEW N \in Nat, NEW S, NEW init \in S, NEW step \in Steps(N, S)
    PROVE  \E f : f \in Iterates(N, S, init, step)
<1> USE DEF Steps, Iterates
<1> DEFINE Upto(n, f) == f[0] = init /\ \A i \in 1..n : f[i] = step[<<i, f[i - 1]>>]
           T == {n \in Nat : n <= N => \E f \in [0..n -> S] : Upto(n, f)}
<1>1. 0 \in T
  <2>1. [i \in 0..0 |-> init] \in [0..0 -> S] /\ Upto(0, [i \in 0..0 |-> init])
    OBVIOUS
  <2> QED
    BY <2>1
<1>2. ASSUME NEW n \in Nat, n \in T PROVE n + 1 \in T
  <2> SUFFICES ASSUME n + 1 <= N PROVE \E f \in [0..n + 1 -> S] : Upto(n + 1, f)
    OBVIOUS
  <2>1. PICK f \in [0..n -> S] : Upto(n, f)
    BY <1>2
  <2> DEFINE g == [i \in 0..n + 1 |-> IF i = n + 1 THEN step[<<n + 1, f[n]>>] ELSE f[i]]
  <2>2. step[<<n + 1, f[n]>>] \in S
    <3>1. <<n + 1, f[n]>> \in (1..N) \X S
      OBVIOUS
    <3> QED
      BY <3>1
  <2>3. g \in [0..n + 1 -> S]
    BY <2>2
  <2>4. Upto(n + 1, g)
    <3>1. g[0] = init
      BY <2>1
    <3>2. ASSUME NEW i \in 1..n + 1 PROVE g[i] = step[<<i, g[i - 1]>>]
      <4>1. CASE i = n + 1
        <5>1. i - 1 = n /\ n \in 0..n + 1 /\ n # n + 1 /\ n + 1 \in 0..n + 1
          BY <4>1
        <5>2. g[i] = step[<<n + 1, f[n]>>] /\ g[i - 1] = f[n]
          BY <4>1, <5>1
        <5> QED
          BY <4>1, <5>1, <5>2
      <4>2. CASE i # n + 1
        <5>1. i \in 1..n /\ i - 1 \in 0..n /\ i - 1 # n + 1
          BY <4>2
        <5>2. g[i] = f[i] /\ g[i - 1] = f[i - 1]
          BY <5>1, <4>2
        <5> QED
          BY <2>1, <5>1, <5>2
      <4> QED
        BY <4>1, <4>2
    <3> QED
      BY <3>1, <3>2
  <2> QED
    BY <2>3, <2>4
<1>3. N \in T
  <2> HIDE DEF T
  <2> QED
    BY <1>1, <1>2, SetInduction
<1> QED
  BY <1>3

-----------------------------------------------------------------------------
\* A set of naturals with a bound has a greatest element.
LEMMA MaxIsGreatest ==
    ASSUME NEW n \in Nat, NEW S \in SUBSET (0..n), S # {}
    PROVE  Max(S) \in S /\ \A x \in S : x <= Max(S)
<1> DEFINE B == {m \in Nat : \A x \in S : x <= m}
<1>1. n \in B
  OBVIOUS
<1>2. PICK m \in B : \A k \in B : m <= k
  <2>1. B \subseteq Nat /\ B # {}
    BY <1>1
  <2> HIDE DEF B
  <2> QED
    BY <2>1, LeastNatural
<1>3. m \in S
  <2> SUFFICES ASSUME m \notin S PROVE FALSE
    OBVIOUS
  <2>1. m # 0
    <3>1. PICK x \in S : TRUE
      OBVIOUS
    <3> QED
      BY <3>1
  <2>2. m - 1 \in B
    BY <2>1
  <2> QED
    BY <1>2, <2>2
<1>4. \E x \in S : \A y \in S : x >= y
  BY <1>2, <1>3
<1>5. Max(S) \in S /\ \A y \in S : Max(S) >= y
  BY <1>4 DEF Max
<1> QED
  BY <1>5
-----------------------------------------------------------------------------
\* The beginnings of a sequence of sequences, flattened.
Flattenings(S, seqs) ==
    {f \in [0..Len(seqs) -> Seq(S)] :
        f[0] = <<>> /\ \A i \in 1..Len(seqs) : f[i] = f[i - 1] \o seqs[i]}

LEMMA FlattenSteps ==
    ASSUME NEW S, NEW seqs \in Seq(Seq(S))
    PROVE  \E f \in Flattenings(S, seqs) : FlattenSeq(seqs) = f[Len(seqs)]
<1> DEFINE N == Len(seqs)
           step == [p \in (1..N) \X Seq(S) |-> p[2] \o seqs[p[1]]]
           Body(g) == [i \in 1..N |-> IF i = 1 THEN seqs[i] ELSE g[i - 1] \o seqs[i]]
<1>1. N \in Nat /\ \A i \in 1..N : seqs[i] \in Seq(S)
  OBVIOUS
<1>2. step \in Steps(N, Seq(S))
  BY <1>1, ConcatProperties DEF Steps
<1>3. PICK f : f \in Iterates(N, Seq(S), <<>>, step)
  <2>1. <<>> \in Seq(S)
    OBVIOUS
  <2> HIDE DEF N, step
  <2> QED
    BY <1>1, <1>2, <2>1, Iteration
<1>4. /\ f \in [0..N -> Seq(S)] /\ f[0] = <<>>
      /\ \A i \in 1..N : f[i] = f[i - 1] \o seqs[i]
  <2>1. f \in [0..N -> Seq(S)] /\ f[0] = <<>> /\ \A i \in 1..N : f[i] = step[<<i, f[i - 1]>>]
    BY <1>3 DEF Iterates
  <2>2. ASSUME NEW i \in 1..N PROVE f[i] = f[i - 1] \o seqs[i]
    <3>1. i - 1 \in 0..N
      OBVIOUS
    <3>2. <<i, f[i - 1]>> \in (1..N) \X Seq(S)
      BY <2>1, <3>1
    <3> QED
      BY <2>1, <3>2
  <2> QED
    BY <2>1, <2>2
<1>5. CASE N = 0
  <2>1. FlattenSeq(seqs) = <<>>
    BY <1>5 DEF FlattenSeq
  <2> QED
    BY <1>4, <1>5, <2>1 DEF Flattenings
<1>6. CASE N # 0
  <2> DEFINE g == [i \in 1..N |-> f[i]]
             flatten == CHOOSE h : h = Body(h)
  <2>1. g = Body(g)
    <3>1. ASSUME NEW i \in 1..N
          PROVE  g[i] = IF i = 1 THEN seqs[i] ELSE g[i - 1] \o seqs[i]
      <4>1. CASE i = 1
        <5>1. f[i] = f[i - 1] \o seqs[i] /\ seqs[i] \in Seq(S)
          BY <1>1, <1>4
        <5>2. i - 1 = 0 /\ f[0] = <<>>
          BY <1>4, <4>1
        <5> QED
          BY <4>1, <5>1, <5>2, ConcatEmptySeq
      <4>2. CASE i # 1
        <5>1. i - 1 \in 1..N
          BY <4>2
        <5>2. g[i] = f[i] /\ g[i - 1] = f[i - 1]
          BY <5>1
        <5>3. f[i] = f[i - 1] \o seqs[i]
          BY <1>4
        <5> QED
          BY <4>2, <5>2, <5>3
      <4> QED
        BY <4>1, <4>2
    <3> QED
      BY <3>1
  <2>2. flatten = Body(flatten)
    BY <2>1
  <2>3. FlattenSeq(seqs) = flatten[N]
    BY <1>6 DEF FlattenSeq
  <2> DEFINE T == {n \in Nat : n \in 1..N => flatten[n] = f[n]}
  <2>4. 0 \in T
    OBVIOUS
  <2>5. ASSUME NEW n \in Nat, n \in T PROVE n + 1 \in T
    <3> SUFFICES ASSUME n + 1 \in 1..N PROVE flatten[n + 1] = f[n + 1]
      OBVIOUS
    <3>0. (n + 1) - 1 = n
      OBVIOUS
    <3>1. flatten[n + 1] = IF n + 1 = 1 THEN seqs[n + 1] ELSE flatten[n] \o seqs[n + 1]
      <4> HIDE DEF flatten
      <4>1. flatten[n + 1] = IF n + 1 = 1 THEN seqs[n + 1]
                             ELSE flatten[(n + 1) - 1] \o seqs[n + 1]
        BY <2>2
      <4> QED
        BY <3>0, <4>1
    <3>2. f[n + 1] = f[n] \o seqs[n + 1]
      <4>1. f[n + 1] = f[(n + 1) - 1] \o seqs[n + 1]
        BY <1>4
      <4> QED
        BY <3>0, <4>1
    <3> HIDE DEF flatten
    <3>3. CASE n = 0
      <4>0. 0 + 1 = 1
        OBVIOUS
      <4>1. f[1] = <<>> \o seqs[1] /\ flatten[1] = seqs[1]
        BY <1>4, <3>1, <3>2, <3>3, <4>0
      <4>2. seqs[1] \in Seq(S)
        BY <1>1, <3>3
      <4> QED
        BY <3>3, <4>0, <4>1, <4>2, ConcatEmptySeq
    <3>4. CASE n # 0
      <4>1. n \in 1..N /\ n + 1 # 1
        BY <3>4
      <4>2. flatten[n] = f[n]
        BY <2>5, <4>1
      <4> QED
        BY <3>1, <3>2, <4>1, <4>2
    <3> QED
      BY <3>3, <3>4
  <2>6. N \in T
    <3> HIDE DEF T, N
    <3> QED
      BY <1>1, <2>4, <2>5, SetInduction
  <2>7. flatten[N] = f[N]
    BY <1>6, <2>6
  <2> QED
    BY <1>4, <2>3, <2>7 DEF Flattenings
<1> QED
  BY <1>5, <1>6

LEMMA FlattenType ==
    ASSUME NEW S, NEW seqs \in Seq(Seq(S))
    PROVE  FlattenSeq(seqs) \in Seq(S)
<1>1. PICK f \in Flattenings(S, seqs) : FlattenSeq(seqs) = f[Len(seqs)]
  BY FlattenSteps
<1>2. Len(seqs) \in 0..Len(seqs)
  OBVIOUS
<1> QED
  BY <1>1, <1>2 DEF Flattenings

\* There is one way only to flatten what two sequences have in common.
LEMMA FlattenUnique ==
    ASSUME NEW S, NEW one \in Seq(Seq(S)), NEW other \in Seq(Seq(S)),
           NEW n \in 0..Len(one), n <= Len(other), \A i \in 1..n : one[i] = other[i],
           NEW f \in Flattenings(S, one), NEW g \in Flattenings(S, other)
    PROVE  f[n] = g[n]
<1> DEFINE T == {m \in Nat : m <= n => f[m] = g[m]}
<1>1. 0 \in T
  BY DEF Flattenings
<1>2. ASSUME NEW m \in Nat, m \in T PROVE m + 1 \in T
  <2> SUFFICES ASSUME m + 1 <= n PROVE f[m + 1] = g[m + 1]
    OBVIOUS
  <2>1. m + 1 \in 1..Len(one) /\ m + 1 \in 1..Len(other) /\ m + 1 \in 1..n
    OBVIOUS
  <2>2. f[m + 1] = f[(m + 1) - 1] \o one[m + 1] /\ g[m + 1] = g[(m + 1) - 1] \o other[m + 1]
    BY <2>1 DEF Flattenings
  <2>3. (m + 1) - 1 = m /\ m <= n
    OBVIOUS
  <2>4. one[m + 1] = other[m + 1]
    BY <2>1
  <2>5. f[m] = g[m]
    BY <1>2, <2>3
  <2> QED
    BY <2>2, <2>3, <2>4, <2>5
<1>3. n \in T
  <2>1. n \in Nat
    OBVIOUS
  <2> HIDE DEF T
  <2> QED
    BY <1>1, <1>2, <2>1, SetInduction
<1> QED
  BY <1>3

\* One more at the end.
LEMMA FlattenAppend ==
    ASSUME NEW S, NEW seqs \in Seq(Seq(S)), NEW s \in Seq(S)
    PROVE  FlattenSeq(Append(seqs, s)) = FlattenSeq(seqs) \o s
<1>1. /\ Append(seqs, s) \in Seq(Seq(S)) /\ Len(Append(seqs, s)) = Len(seqs) + 1
      /\ Append(seqs, s)[Len(seqs) + 1] = s
      /\ \A i \in 1..Len(seqs) : Append(seqs, s)[i] = seqs[i]
  OBVIOUS
<1>2. PICK f \in Flattenings(S, seqs) : FlattenSeq(seqs) = f[Len(seqs)]
  BY FlattenSteps
<1>3. PICK g \in Flattenings(S, Append(seqs, s)) :
          FlattenSeq(Append(seqs, s)) = g[Len(seqs) + 1]
  BY <1>1, FlattenSteps
<1>4. f[Len(seqs)] = g[Len(seqs)]
  <2> DEFINE more == Append(seqs, s)
             n == Len(seqs)
  <2>1. n \in 0..Len(seqs) /\ n <= Len(more) /\ more \in Seq(Seq(S))
    BY <1>1
  <2>2. \A i \in 1..n : seqs[i] = more[i]
    BY <1>1
  <2>3. f \in Flattenings(S, seqs) /\ g \in Flattenings(S, more)
    OBVIOUS
  <2> HIDE DEF more, n
  <2>4. f[n] = g[n]
    BY <2>1, <2>2, <2>3, FlattenUnique
  <2> QED
    BY <2>4 DEF n
<1>5. g[Len(seqs) + 1] = g[Len(seqs)] \o s
  <2>1. Len(seqs) + 1 \in 1..Len(Append(seqs, s)) /\ (Len(seqs) + 1) - 1 = Len(seqs)
    BY <1>1
  <2>2. g[Len(seqs) + 1] = g[(Len(seqs) + 1) - 1] \o Append(seqs, s)[Len(seqs) + 1]
    BY <2>1 DEF Flattenings
  <2> QED
    BY <1>1, <2>1, <2>2
<1> QED
  BY <1>2, <1>3, <1>4, <1>5

Associative(S) == \A x, y, z \in Seq(S) : (x \o y) \o z = x \o (y \o z)

LEMMA IsAssociative == ASSUME NEW S PROVE Associative(S)
BY ConcatAssociative, SMTT(30) DEF Associative

\* One less at the beginning.
LEMMA FlattenTail ==
    ASSUME NEW S, NEW seqs \in Seq(Seq(S)), seqs # <<>>
    PROVE  FlattenSeq(seqs) = seqs[1] \o FlattenSeq(Tail(seqs))
<1> DEFINE n == Len(seqs)
           rest == Tail(seqs)
<1>1. /\ n \in Nat \ {0} /\ seqs[1] \in Seq(S)
      /\ rest \in Seq(Seq(S)) /\ Len(rest) = n - 1
      /\ \A i \in 1..n - 1 : rest[i] = seqs[i + 1] /\ rest[i] \in Seq(S)
  OBVIOUS
<1>2. PICK f \in Flattenings(S, seqs) : FlattenSeq(seqs) = f[n]
  BY FlattenSteps
<1> HIDE DEF rest, n
<1>3. PICK g \in Flattenings(S, rest) : FlattenSeq(rest) = g[n - 1]
  BY <1>1, FlattenSteps
<1>4. /\ f[0] = <<>> /\ \A i \in 1..n : f[i] = f[i - 1] \o seqs[i]
      /\ g[0] = <<>> /\ \A i \in 1..n - 1 : g[i] = g[i - 1] \o rest[i]
      /\ \A i \in 0..n - 1 : g[i] \in Seq(S)
  BY <1>1 DEF Flattenings, n
<1> DEFINE T == {m \in Nat : m <= n - 1 => f[m + 1] = seqs[1] \o g[m]}
<1>5. 0 \in T
  <2>1. f[1] = f[0] \o seqs[1]
    <3>1. 1 \in 1..n /\ 1 - 1 = 0
      BY <1>1
    <3> QED
      BY <1>4, <3>1
  <2>2. <<>> \o seqs[1] = seqs[1] \o <<>>
    BY <1>1, ConcatEmptySeq
  <2>3. f[0 + 1] = seqs[1] \o g[0]
    <3>1. 0 + 1 = 1 /\ f[0] = <<>> /\ g[0] = <<>>
      BY <1>4
    <3> QED
      BY <2>1, <2>2, <3>1
  <2> QED
    BY <2>3
<1>6. ASSUME NEW m \in Nat, m \in T PROVE m + 1 \in T
  <2>0. m + 1 \in Nat
    OBVIOUS
  <2> SUFFICES ASSUME m + 1 <= n - 1 PROVE f[(m + 1) + 1] = seqs[1] \o g[m + 1]
    BY <2>0
  <2>1. /\ (m + 1) + 1 \in 1..n /\ m + 1 \in 1..n - 1 /\ m \in 0..n - 1
        /\ ((m + 1) + 1) - 1 = m + 1 /\ (m + 1) - 1 = m
    BY <1>1
  <2>2. f[(m + 1) + 1] = f[m + 1] \o seqs[(m + 1) + 1]
    BY <1>4, <2>1
  <2>3. f[m + 1] = seqs[1] \o g[m]
    <3>1. m <= n - 1
      BY <1>1
    <3> QED
      BY <1>6, <3>1
  <2>4. rest[m + 1] = seqs[(m + 1) + 1] /\ rest[m + 1] \in Seq(S)
    BY <1>1, <2>1
  <2>5. g[m + 1] = g[m] \o rest[m + 1] /\ g[m] \in Seq(S)
    BY <1>4, <2>1
  <2>6. (seqs[1] \o g[m]) \o rest[m + 1] = seqs[1] \o (g[m] \o rest[m + 1])
    <3> DEFINE a == seqs[1]
               b == g[m]
               c == rest[m + 1]
    <3>1. a \in Seq(S) /\ b \in Seq(S) /\ c \in Seq(S)
      BY <1>1, <2>4, <2>5
    <3> HIDE DEF a, b, c
    <3>2. (a \o b) \o c = a \o (b \o c)
      <4>1. Associative(S)
        BY IsAssociative
      <4> QED
        BY <3>1, <4>1, ZenonT(40) DEF Associative
    <3> QED
      BY <3>2 DEF a, b, c
  <2> QED
    BY <2>2, <2>3, <2>4, <2>5, <2>6
<1>7. n - 1 \in T
  <2>1. n - 1 \in Nat
    BY <1>1
  <2> HIDE DEF T
  <2> QED
    BY <1>5, <1>6, <2>1, SetInduction
<1>8. (n - 1) + 1 = n
  BY <1>1
<1>9. f[(n - 1) + 1] = seqs[1] \o g[n - 1]
  <2>1. n - 1 <= n - 1 => f[(n - 1) + 1] = seqs[1] \o g[n - 1]
    BY <1>7
  <2>2. n - 1 <= n - 1
    BY <1>1
  <2> QED
    BY <2>1, <2>2
<1> QED
  BY <1>2, <1>3, <1>8, <1>9 DEF rest

-----------------------------------------------------------------------------
\* Sequences that begin alike.

Drop(s, n) == SubSeq(s, n + 1, Len(s))

LEMMA DropIs ==
    ASSUME NEW S, NEW s \in Seq(S), NEW n \in 0..Len(s)
    PROVE  /\ Drop(s, n) \in Seq(S) /\ Len(Drop(s, n)) = Len(s) - n
           /\ \A j \in 1..Len(s) - n : Drop(s, n)[j] = s[n + j]
<1>1. /\ n + 1 \in Int /\ Len(s) \in Int
      /\ \A j \in n + 1..Len(s) : s[j] \in S
  OBVIOUS
<1>2. /\ Drop(s, n) \in Seq(S)
      /\ Len(Drop(s, n)) = IF n + 1 <= Len(s) THEN Len(s) - (n + 1) + 1 ELSE 0
      /\ \A j \in 1..Len(s) - (n + 1) + 1 : Drop(s, n)[j] = s[(n + 1) + j - 1]
  BY <1>1, SubSeqProperties DEF Drop
<1>3. Len(s) - (n + 1) + 1 = Len(s) - n /\ Len(s) \in Nat /\ n \in Nat /\ n <= Len(s)
  OBVIOUS
<1>4. Len(Drop(s, n)) = Len(s) - n
  <2>1. Len(Drop(s, n)) = IF n + 1 <= Len(s) THEN Len(s) - (n + 1) + 1 ELSE 0
    BY <1>2
  <2> DEFINE m == Len(s)
             d == Len(Drop(s, n))
  <2>2. d = (IF n + 1 <= m THEN m - (n + 1) + 1 ELSE 0) /\ m \in Nat /\ n \in Nat /\ n <= m
    BY <1>3, <2>1
  <2> HIDE DEF m, d
  <2>3. d = m - n
    BY <2>2
  <2> QED
    BY <2>3 DEF m, d
<1>5. ASSUME NEW j \in 1..Len(s) - n PROVE Drop(s, n)[j] = s[n + j]
  <2>1. j \in 1..Len(s) - (n + 1) + 1 /\ (n + 1) + j - 1 = n + j
    BY <1>3
  <2>2. Drop(s, n)[j] = s[(n + 1) + j - 1]
    BY <1>2, <2>1
  <2> QED
    BY <2>1, <2>2
<1> QED
  BY <1>2, <1>4, <1>5

LEMMA DropOfConcat ==
    ASSUME NEW S, NEW s \in Seq(S), NEW t \in Seq(S), NEW n \in 0..Len(s)
    PROVE  Drop(s \o t, n) = Drop(s, n) \o t
<1>1. /\ s \o t \in Seq(S) /\ Len(s \o t) = Len(s) + Len(t)
      /\ \A j \in 1..Len(s) + Len(t) :
             (s \o t)[j] = IF j <= Len(s) THEN s[j] ELSE t[j - Len(s)]
  BY ConcatProperties
<1>2. /\ Drop(s, n) \in Seq(S) /\ Len(Drop(s, n)) = Len(s) - n
      /\ \A j \in 1..Len(s) - n : Drop(s, n)[j] = s[n + j]
  BY DropIs
<1> DEFINE a == Drop(s \o t, n)
           b == Drop(s, n) \o t
<1>3. /\ a \in Seq(S) /\ Len(a) = Len(s) + Len(t) - n
      /\ \A j \in 1..Len(s) + Len(t) - n : a[j] = (s \o t)[n + j]
  <2>1. n \in 0..Len(s \o t)
    BY <1>1
  <2> DEFINE g == s \o t
  <2>2. g \in Seq(S) /\ n \in 0..Len(g) /\ Len(g) = Len(s) + Len(t)
    BY <1>1, <2>1
  <2> HIDE DEF g
  <2>3. /\ Drop(g, n) \in Seq(S) /\ Len(Drop(g, n)) = Len(g) - n
        /\ \A j \in 1..Len(g) - n : Drop(g, n)[j] = g[n + j]
    BY <2>2, DropIs
  <2> QED
    BY <2>2, <2>3 DEF g
<1>4. /\ b \in Seq(S) /\ Len(b) = Len(s) - n + Len(t)
      /\ \A j \in 1..Len(s) - n + Len(t) :
             b[j] = IF j <= Len(s) - n THEN Drop(s, n)[j] ELSE t[j - (Len(s) - n)]
  <2> DEFINE d == Drop(s, n)
  <2>1. d \in Seq(S) /\ Len(d) = Len(s) - n
    BY <1>2
  <2> HIDE DEF d
  <2>2. /\ d \o t \in Seq(S) /\ Len(d \o t) = Len(d) + Len(t)
        /\ \A j \in 1..Len(d) + Len(t) :
               (d \o t)[j] = IF j <= Len(d) THEN d[j] ELSE t[j - Len(d)]
    BY <2>1, ConcatProperties
  <2> QED
    BY <2>1, <2>2 DEF d
<1>5. Len(s) \in Nat /\ Len(t) \in Nat /\ n \in Nat /\ n <= Len(s)
  OBVIOUS
<1>6. ASSUME NEW j \in 1..Len(a) PROVE a[j] = b[j]
  <2>1. j \in 1..Len(s) + Len(t) - n /\ j \in 1..Len(s) - n + Len(t)
        /\ n + j \in 1..Len(s) + Len(t)
    BY <1>3, <1>5
  <2>2. CASE j <= Len(s) - n
    <3>1. n + j <= Len(s) /\ j \in 1..Len(s) - n
      BY <1>5, <2>1, <2>2
    <3> QED
      BY <1>1, <1>2, <1>3, <1>4, <2>1, <2>2, <3>1
  <2>3. CASE ~(j <= Len(s) - n)
    <3>1. ~(n + j <= Len(s)) /\ n + j - Len(s) = j - (Len(s) - n)
      BY <1>5, <2>1, <2>3
    <3> QED
      BY <1>1, <1>3, <1>4, <2>1, <2>3, <3>1
  <2> QED
    BY <2>2, <2>3
<1>7. Len(a) = Len(b)
  BY <1>3, <1>4, <1>5
<1> HIDE DEF a, b
<1>8. a = b
  BY <1>3, <1>4, <1>6, <1>7, SeqEqual
<1> QED
  BY <1>8 DEF a, b

LEMMA DropAll ==
    ASSUME NEW S, NEW s \in Seq(S), NEW t \in Seq(S)
    PROVE  Drop(s \o t, Len(s)) = t
<1>1. Len(s) \in 0..Len(s) /\ Len(s) + 1 \in Int /\ Len(s) \in Int /\ Len(s) < Len(s) + 1
  OBVIOUS
<1>2. Drop(s, Len(s)) = <<>>
  BY <1>1, SubSeqEmpty DEF Drop
<1>3. Drop(s \o t, Len(s)) = Drop(s, Len(s)) \o t
  BY <1>1, DropOfConcat
<1>4. <<>> \o t = t
  BY ConcatEmptySeq
<1> QED
  BY <1>2, <1>3, <1>4

LEMMA PrefixIs ==
    ASSUME NEW S, NEW s \in Seq(S), NEW t \in Seq(S)
    PROVE  IsPrefix(s, t) <=> Len(s) <= Len(t) /\ \A j \in 1..Len(s) : s[j] = t[j]
<1>1. SubSeq(s, 1, Len(s)) = s
  BY SubSeqFull
<1>2. ASSUME Len(s) <= Len(t)
      PROVE  /\ SubSeq(t, 1, Len(s)) \in Seq(S) /\ Len(SubSeq(t, 1, Len(s))) = Len(s)
             /\ \A j \in 1..Len(s) : SubSeq(t, 1, Len(s))[j] = t[j]
  <2>1. Len(s) \in Nat /\ Len(t) \in Nat /\ \A j \in 1..Len(s) : j \in 1..Len(t)
    BY <1>2
  <2> QED
    BY <2>1
<1>3. ASSUME Len(s) <= Len(t), SubSeq(t, 1, Len(s)) = s
      PROVE  \A j \in 1..Len(s) : s[j] = t[j]
  BY <1>2, <1>3
<1>4. ASSUME Len(s) <= Len(t), \A j \in 1..Len(s) : s[j] = t[j]
      PROVE  SubSeq(t, 1, Len(s)) = s
  BY <1>2, <1>4, SeqEqual
<1> QED
  BY <1>1, <1>3, <1>4 DEF IsPrefix

LEMMA DropPrefix ==
    ASSUME NEW S, NEW s \in Seq(S), NEW t \in Seq(S), IsPrefix(s, t), NEW n \in 0..Len(s)
    PROVE  IsPrefix(Drop(s, n), Drop(t, n))
<1>1. Len(s) <= Len(t) /\ \A j \in 1..Len(s) : s[j] = t[j]
  BY PrefixIs
<1>2. Len(s) \in Nat /\ Len(t) \in Nat /\ n \in 0..Len(t)
  BY <1>1
<1>3. /\ Drop(s, n) \in Seq(S) /\ Len(Drop(s, n)) = Len(s) - n
      /\ \A j \in 1..Len(s) - n : Drop(s, n)[j] = s[n + j]
  BY DropIs
<1>4. /\ Drop(t, n) \in Seq(S) /\ Len(Drop(t, n)) = Len(t) - n
      /\ \A j \in 1..Len(t) - n : Drop(t, n)[j] = t[n + j]
  BY <1>2, DropIs
<1>5. \A j \in 1..Len(s) - n : Drop(s, n)[j] = Drop(t, n)[j]
  <2> TAKE j \in 1..Len(s) - n
  <2>1. j \in 1..Len(t) - n /\ n + j \in 1..Len(s)
    BY <1>1, <1>2
  <2> QED
    BY <1>1, <1>3, <1>4, <2>1
<1>6. Len(Drop(s, n)) <= Len(Drop(t, n))
  BY <1>1, <1>2, <1>3, <1>4
<1> HIDE DEF Drop
<1> QED
  BY <1>3, <1>4, <1>5, <1>6, PrefixIs

\* Moving what comes first of b to the end of a.
LEMMA MovedOver ==
    ASSUME NEW S, NEW a \in Seq(S), NEW b \in Seq(S), NEW n \in 0..Len(b)
    PROVE  /\ (a \o SubSeq(b, 1, n)) \o SubSeq(b, n + 1, Len(b)) = a \o b
           /\ SubSeq(b, 1, n) \in Seq(S) /\ SubSeq(b, n + 1, Len(b)) \in Seq(S)
           /\ Len(SubSeq(b, 1, n)) = n
<1>1. 1 \in 1..Len(b) + 1 /\ n \in 1 - 1..Len(b) /\ Len(b) \in n..Len(b)
  OBVIOUS
<1>2. SubSeq(b, 1, n) \o SubSeq(b, n + 1, Len(b)) = SubSeq(b, 1, Len(b))
  BY <1>1, ConcatAdjacentSubSeq
<1>3. SubSeq(b, 1, Len(b)) = b
  BY SubSeqFull
<1>4. SubSeq(b, 1, n) \in Seq(S) /\ Len(SubSeq(b, 1, n)) = n
  <2>1. n \in Nat /\ Len(b) \in Nat /\ \A j \in 1..n : j \in 1..Len(b)
    OBVIOUS
  <2> QED
    BY <2>1
<1>5. SubSeq(b, n + 1, Len(b)) \in Seq(S)
  BY DropIs DEF Drop
<1> DEFINE c == SubSeq(b, 1, n)
           d == SubSeq(b, n + 1, Len(b))
<1>6. c \in Seq(S) /\ d \in Seq(S) /\ c \o d = b /\ Len(c) = n
  BY <1>2, <1>3, <1>4, <1>5
<1> HIDE DEF c, d
<1>7. (a \o c) \o d = a \o (c \o d)
  <2>1. Associative(S)
    BY IsAssociative
  <2> QED
    BY <1>6, <2>1, ZenonT(40) DEF Associative
<1> QED
  BY <1>6, <1>7 DEF c, d

\* A stream that is cut short.
LEMMA CutShort ==
    ASSUME NEW S, NEW a \in Seq(S), NEW b \in Seq(S), NEW n \in 0..Len(b),
           NEW t \in Seq(S), IsPrefix(a \o b, t)
    PROVE  IsPrefix(a \o SubSeq(b, 1, n), t) /\ SubSeq(b, 1, n) \in Seq(S)
<1> DEFINE c == SubSeq(b, 1, n)
<1>1. /\ c \in Seq(S) /\ Len(c) = n /\ \A j \in 1..n : c[j] = b[j]
  <2>1. n \in Nat /\ Len(b) \in Nat /\ \A j \in 1..n : j \in 1..Len(b)
    OBVIOUS
  <2> QED
    BY <2>1
<1>2. /\ a \o b \in Seq(S) /\ Len(a \o b) = Len(a) + Len(b)
      /\ \A j \in 1..Len(a) + Len(b) :
             (a \o b)[j] = IF j <= Len(a) THEN a[j] ELSE b[j - Len(a)]
  BY ConcatProperties
<1> HIDE DEF c
<1>3. /\ a \o c \in Seq(S) /\ Len(a \o c) = Len(a) + n
      /\ \A j \in 1..Len(a) + n : (a \o c)[j] = IF j <= Len(a) THEN a[j] ELSE c[j - Len(a)]
  BY <1>1, ConcatProperties
<1>4. Len(a \o b) <= Len(t) /\ \A j \in 1..Len(a \o b) : (a \o b)[j] = t[j]
  BY <1>2, PrefixIs
<1>5. Len(a) \in Nat /\ Len(b) \in Nat /\ n \in Nat /\ n <= Len(b) /\ Len(t) \in Nat
  OBVIOUS
<1>6. ASSUME NEW j \in 1..Len(a \o c) PROVE (a \o c)[j] = t[j]
  <2>1. j \in 1..Len(a) + n /\ j \in 1..Len(a) + Len(b) /\ j \in 1..Len(a \o b)
    BY <1>2, <1>3, <1>5
  <2>2. CASE j <= Len(a)
    BY <1>2, <1>3, <1>4, <2>1, <2>2
  <2>3. CASE ~(j <= Len(a))
    <3>1. j - Len(a) \in 1..n
      BY <1>5, <2>1, <2>3
    <3> QED
      BY <1>1, <1>2, <1>3, <1>4, <2>1, <2>3, <3>1
  <2> QED
    BY <2>2, <2>3
<1>7. Len(a \o c) <= Len(t)
  BY <1>2, <1>3, <1>4, <1>5
<1>8. IsPrefix(a \o c, t)
  BY <1>3, <1>6, <1>7, PrefixIs
<1> QED
  BY <1>1, <1>8 DEF c

LEMMA FirstAndRest ==
    ASSUME NEW S, NEW s \in Seq(S), s # <<>>
    PROVE  s = <<s[1]>> \o Tail(s) /\ s[1] \in S /\ Tail(s) \in Seq(S)
<1>1. 1 \in 1..Len(s) /\ Len(s) \in 1..Len(s)
  BY EmptySeq
<1>2. SubSeq(s, 1, Len(s)) = <<s[1]>> \o SubSeq(s, 1 + 1, Len(s))
  BY <1>1, SubSeqRecursiveFirst
<1>3. SubSeq(s, 1, Len(s)) = s
  BY SubSeqFull
<1>4. SubSeq(s, 1 + 1, Len(s)) = Tail(s)
  <2>1. 1 + 1 = 2
    OBVIOUS
  <2> QED
    BY <2>1 DEF Tail
<1> QED
  BY <1>1, <1>2, <1>3, <1>4, HeadTailProperties

LEMMA ConcatLength ==
    ASSUME NEW S, NEW s \in Seq(S), NEW t \in Seq(S)
    PROVE  /\ s \o t \in Seq(S) /\ Len(s \o t) = Len(s) + Len(t)
           /\ Len(s) \in Nat /\ Len(t) \in Nat
BY ConcatProperties

\* The first elements of a sequence.
Keep(s, n) == SubSeq(s, 1, n)

LEMMA KeepIs ==
    ASSUME NEW S, NEW s \in Seq(S), NEW n \in 0..Len(s)
    PROVE  /\ Keep(s, n) \in Seq(S) /\ Len(Keep(s, n)) = n
           /\ \A j \in 1..n : Keep(s, n)[j] = s[j]
<1>1. n \in Nat /\ Len(s) \in Nat /\ \A j \in 1..n : j \in 1..Len(s)
  OBVIOUS
<1> QED
  BY <1>1 DEF Keep

LEMMA KeepNone ==
    ASSUME NEW S, NEW s \in Seq(S)
    PROVE  Keep(s, 0) = <<>>
<1>1. 0 \in 0..Len(s)
  OBVIOUS
<1> QED
  BY <1>1, KeepIs, EmptySeq

LEMMA KeepAll ==
    ASSUME NEW S, NEW s \in Seq(S)
    PROVE  Keep(s, Len(s)) = s
BY SubSeqFull DEF Keep

LEMMA KeepDrop ==
    ASSUME NEW S, NEW s \in Seq(S), NEW n \in 0..Len(s)
    PROVE  Keep(s, n) \o Drop(s, n) = s
<1>1. 1 \in 1..Len(s) + 1 /\ n \in 1 - 1..Len(s) /\ Len(s) \in n..Len(s)
  OBVIOUS
<1>2. SubSeq(s, 1, n) \o SubSeq(s, n + 1, Len(s)) = SubSeq(s, 1, Len(s))
  BY <1>1, ConcatAdjacentSubSeq
<1> QED
  BY <1>2, SubSeqFull DEF Keep, Drop

LEMMA KeepNext ==
    ASSUME NEW S, NEW s \in Seq(S), NEW n \in 0..Len(s), n + 1 <= Len(s)
    PROVE  Keep(s, n + 1) = Append(Keep(s, n), s[n + 1])
<1>1. /\ n + 1 \in 0..Len(s) /\ n + 1 \in 1..Len(s) /\ s[n + 1] \in S
      /\ \A j \in 1..n + 1 : j \in 1..n \/ j = n + 1
  OBVIOUS
<1> DEFINE t == Keep(s, n + 1)
           u == Keep(s, n)
           e == s[n + 1]
<1>2. /\ t \in Seq(S) /\ Len(t) = n + 1 /\ \A j \in 1..n + 1 : t[j] = s[j]
      /\ u \in Seq(S) /\ Len(u) = n /\ \A j \in 1..n : u[j] = s[j]
  BY <1>1, KeepIs
<1> HIDE DEF t, u
<1>3. /\ Append(u, e) \in Seq(S) /\ Len(Append(u, e)) = n + 1
      /\ Append(u, e)[n + 1] = e /\ \A j \in 1..n : Append(u, e)[j] = u[j]
  BY <1>1, <1>2, AppendProperties
<1> HIDE DEF e
<1>4. ASSUME NEW j \in 1..Len(t) PROVE t[j] = Append(u, e)[j]
  <2>1. j \in 1..n + 1
    BY <1>2
  <2> QED
    BY <1>1, <1>2, <1>3, <2>1 DEF e
<1> QED
  BY <1>2, <1>3, <1>4, SeqEqual DEF t, u, e

LEMMA KeepOfConcat ==
    ASSUME NEW S, NEW a \in Seq(S), NEW b \in Seq(S)
    PROVE  Keep(a \o b, Len(a)) = a
<1> DEFINE c == a \o b
           m == Len(a)
<1>1. /\ c \in Seq(S) /\ Len(c) = m + Len(b) /\ m \in Nat /\ Len(b) \in Nat
      /\ \A j \in 1..m + Len(b) : c[j] = IF j <= m THEN a[j] ELSE b[j - m]
  BY ConcatProperties
<1> HIDE DEF c
<1>2. m \in 0..Len(c) /\ \A j \in 1..m : j \in 1..m + Len(b) /\ j <= m
  BY <1>1
<1>3. \A j \in 1..m : c[j] = a[j]
  BY <1>1, <1>2
<1>4. /\ Keep(c, m) \in Seq(S) /\ Len(Keep(c, m)) = m
      /\ \A j \in 1..m : Keep(c, m)[j] = c[j]
  BY <1>1, <1>2, KeepIs
<1>5. \A j \in 1..Len(Keep(c, m)) : Keep(c, m)[j] = a[j]
  BY <1>3, <1>4
<1> QED
  BY <1>4, <1>5, SeqEqual DEF c, m

\* Sequences of sequences, one after the other.
LEMMA FlattenConcat ==
    ASSUME NEW S, NEW a \in Seq(Seq(S)), NEW b \in Seq(Seq(S))
    PROVE  FlattenSeq(a \o b) = FlattenSeq(a) \o FlattenSeq(b)
<1> DEFINE F(n) == Keep(b, n)
           T == {n \in Nat : n <= Len(b) =>
                     FlattenSeq(a \o F(n)) = FlattenSeq(a) \o FlattenSeq(F(n))}
<1>1. 0 \in T
  <2>1. F(0) = <<>> /\ a \o <<>> = a /\ FlattenSeq(a) \in Seq(S)
    BY KeepNone, ConcatEmptySeq, FlattenType
  <2>2. FlattenSeq(<<>>) = <<>>
    BY DEF FlattenSeq
  <2>3. FlattenSeq(a) \o <<>> = FlattenSeq(a)
    BY <2>1, ConcatEmptySeq
  <2> QED
    BY <2>1, <2>2, <2>3
<1>2. ASSUME NEW n \in Nat, n \in T PROVE n + 1 \in T
  <2> SUFFICES ASSUME n + 1 <= Len(b)
               PROVE  FlattenSeq(a \o F(n + 1)) = FlattenSeq(a) \o FlattenSeq(F(n + 1))
    OBVIOUS
  <2> DEFINE c == F(n)
             e == b[n + 1]
  <2>1. n \in 0..Len(b) /\ n + 1 \in 1..Len(b) /\ n <= Len(b)
    OBVIOUS
  <2>2. F(n + 1) = Append(c, e) /\ c \in Seq(Seq(S)) /\ e \in Seq(S)
    BY <2>1, KeepNext, KeepIs
  <2>3. FlattenSeq(a \o c) = FlattenSeq(a) \o FlattenSeq(c)
    BY <1>2, <2>1
  <2> HIDE DEF c, e, T
  <2>4. Append(c, e) = c \o <<e>> /\ <<e>> \in Seq(Seq(S)) /\ a \o c \in Seq(Seq(S))
    BY <2>2, AppendIsConcat, ConcatProperties
  <2>5. a \o (c \o <<e>>) = (a \o c) \o <<e>>
    <3> DEFINE one == <<e>>
    <3>1. a \in Seq(Seq(S)) /\ c \in Seq(Seq(S)) /\ one \in Seq(Seq(S))
      BY <2>2, <2>4
    <3> HIDE DEF one
    <3>2. (a \o c) \o one = a \o (c \o one)
      <4>1. Associative(Seq(S))
        BY IsAssociative
      <4> QED
        BY <3>1, <4>1, ZenonT(40) DEF Associative
    <3> QED
      BY <3>2 DEF one
  <2>6. (a \o c) \o <<e>> = Append(a \o c, e)
    BY <2>2, <2>4, AppendIsConcat
  <2>7. FlattenSeq(Append(a \o c, e)) = FlattenSeq(a \o c) \o e
    BY <2>2, <2>4, FlattenAppend
  <2>8. FlattenSeq(Append(c, e)) = FlattenSeq(c) \o e
    BY <2>2, FlattenAppend
  <2> DEFINE x == FlattenSeq(a)
             y == FlattenSeq(c)
  <2>9. x \in Seq(S) /\ y \in Seq(S)
    BY <2>2, FlattenType
  <2> HIDE DEF x, y
  <2>10. (x \o y) \o e = x \o (y \o e)
    <3>1. x \in Seq(S) /\ y \in Seq(S) /\ e \in Seq(S)
      BY <2>2, <2>9
    <3> QED
      <4>1. Associative(S)
        BY IsAssociative
      <4> QED
        BY <3>1, <4>1, ZenonT(40) DEF Associative
  <2> QED
    BY <2>2, <2>3, <2>4, <2>5, <2>6, <2>7, <2>8, <2>10 DEF x, y
<1>3. Len(b) \in T
  <2>1. Len(b) \in Nat
    OBVIOUS
  <2> HIDE DEF T
  <2> QED
    BY <1>1, <1>2, <2>1, SetInduction
<1>4. F(Len(b)) = b
  BY KeepAll
<1> QED
  BY <1>3, <1>4

-----------------------------------------------------------------------------
\* What the operations on linked lists return, for lists of any length.

\* PlaceOf is the only place of an element of a list without duplicates.
LEMMA PlaceOfMember ==
    ASSUME NEW S, NEW list \in Seq(S), NEW e \in Members(list)
    PROVE  PlaceOf(list, e) \in 1..Len(list) /\ list[PlaceOf(list, e)] = e
BY DEF PlaceOf, Members

\* dll_remove takes the element out and keeps the others, each still once.
LEMMA RemoveProperties ==
    ASSUME NEW S, NEW list \in Seq(S), NEW e \in Members(list),
           NoDuplicates(list)
    PROVE  /\ DllRemove(list, e) \in Seq(S)
           /\ Len(DllRemove(list, e)) = Len(list) - 1
           /\ Members(DllRemove(list, e)) = Members(list) \ {e}
           /\ NoDuplicates(DllRemove(list, e))
<1> DEFINE p == PlaceOf(list, e)
           n == Len(list) - 1
           rest == [i \in 1..n |-> IF i < p THEN list[i] ELSE list[i + 1]]
<1>1. p \in 1..Len(list) /\ list[p] = e
  BY PlaceOfMember
<1>2. DllRemove(list, e) = rest
  BY DEF DllRemove
<1> HIDE DEF p
<1>3. n \in Nat /\ \A i \in 1..n : i \in 1..Len(list) /\ i + 1 \in 1..Len(list)
  BY <1>1
<1>4. rest \in Seq(S) /\ Len(rest) = n
  BY <1>3
<1>5. Members(rest) = Members(list) \ {e}
  <2>1. ASSUME NEW x \in Members(rest) PROVE x \in Members(list) \ {e}
    <3>1. PICK i \in 1..n : x = rest[i]
      BY <1>4 DEF Members
    <3>2. CASE i < p
      BY <3>1, <3>2, <1>1, <1>3 DEF Members, NoDuplicates
    <3>3. CASE ~(i < p)
      BY <3>1, <3>3, <1>1, <1>3 DEF Members, NoDuplicates
    <3> QED BY <3>2, <3>3
  <2>2. ASSUME NEW x \in Members(list) \ {e} PROVE x \in Members(rest)
    <3>1. PICK j \in 1..Len(list) : x = list[j] /\ j # p
      BY <1>1 DEF Members
    <3>2. CASE j < p
      <4>1. j \in 1..n /\ rest[j] = x
        BY <3>1, <3>2, <1>1, <1>3
      <4> QED BY <4>1, <1>4 DEF Members
    <3>3. CASE j > p
      <4>1. j - 1 \in 1..n /\ ~(j - 1 < p)
        BY <3>1, <3>3, <1>1, <1>3
      <4>2. rest[j - 1] = list[(j - 1) + 1] /\ (j - 1) + 1 = j
        BY <4>1, <3>1
      <4> QED BY <4>1, <4>2, <3>1, <1>4 DEF Members
    <3> QED BY <3>1, <3>2, <3>3, <1>1
  <2> QED BY <2>1, <2>2
<1>6. NoDuplicates(rest)
  <2> SUFFICES ASSUME NEW i \in 1..n, NEW j \in 1..n, rest[i] = rest[j]
               PROVE  i = j
    BY <1>4 DEF NoDuplicates
  <2>1. CASE i < p /\ j < p
    BY <2>1, <1>3 DEF NoDuplicates
  <2>2. CASE i < p /\ ~(j < p)
    <3>1. i = j + 1
      BY <2>2, <1>3 DEF NoDuplicates
    <3> QED BY <3>1, <2>2, <1>1
  <2>3. CASE ~(i < p) /\ j < p
    <3>1. i + 1 = j
      BY <2>3, <1>3 DEF NoDuplicates
    <3> QED BY <3>1, <2>3, <1>1
  <2>4. CASE ~(i < p) /\ ~(j < p)
    <3>1. i + 1 = j + 1
      BY <2>4, <1>3 DEF NoDuplicates
    <3> QED BY <3>1
  <2> QED BY <2>1, <2>2, <2>3, <2>4
<1> QED BY <1>2, <1>4, <1>5, <1>6

\* dll_remove keeps the order of the elements that stay.
LEMMA RemoveKeepsOrder ==
    ASSUME NEW S, NEW list \in Seq(S), NEW e \in Members(list),
           NoDuplicates(list),
           NEW i \in 1..Len(DllRemove(list, e)),
           NEW j \in 1..Len(DllRemove(list, e)), i < j
    PROVE  \E a, b \in 1..Len(list) :
              /\ a < b
              /\ DllRemove(list, e)[i] = list[a]
              /\ DllRemove(list, e)[j] = list[b]
<1> DEFINE p == PlaceOf(list, e)
           a == IF i < p THEN i ELSE i + 1
           b == IF j < p THEN j ELSE j + 1
<1>1. p \in 1..Len(list)
  BY PlaceOfMember
<1>2. Len(DllRemove(list, e)) = Len(list) - 1
  BY RemoveProperties
<1>3. /\ DllRemove(list, e)[i] = list[a]
      /\ DllRemove(list, e)[j] = list[b]
  BY <1>2 DEF DllRemove
<1>4. a \in 1..Len(list) /\ b \in 1..Len(list) /\ a < b
  BY <1>1, <1>2
<1> QED BY <1>3, <1>4

\* dll_make_first puts a new element at the head.
LEMMA MakeFirstProperties ==
    ASSUME NEW S, NEW list \in Seq(S), NEW e \in S
    PROVE  /\ DllMakeFirst(list, e) \in Seq(S)
           /\ Len(DllMakeFirst(list, e)) = Len(list) + 1
           /\ DllMakeFirst(list, e)[1] = e
           /\ \A i \in 1..Len(list) : DllMakeFirst(list, e)[i + 1] = list[i]
           /\ Members(DllMakeFirst(list, e)) = Members(list) \cup {e}
           /\ NoDuplicates(list) /\ e \notin Members(list)
                => NoDuplicates(DllMakeFirst(list, e))
<1> DEFINE more == DllMakeFirst(list, e)
<1>1. more \in Seq(S) /\ Len(more) = Len(list) + 1
  BY DEF DllMakeFirst
<1>2. more[1] = e
  BY DEF DllMakeFirst
<1>3. \A i \in 1..Len(list) : more[i + 1] = list[i]
  BY DEF DllMakeFirst
<1>4. \A k \in 1..(Len(list) + 1) : k = 1 \/ (k - 1 \in 1..Len(list) /\ more[k] = list[k - 1])
  BY <1>3
<1> HIDE DEF more
<1>5. Members(more) = Members(list) \cup {e}
  <2>1. ASSUME NEW x \in Members(more) PROVE x \in Members(list) \cup {e}
    <3>1. PICK k \in 1..(Len(list) + 1) : x = more[k]
      BY <2>1, <1>1 DEF Members
    <3>2. CASE k = 1
      BY <3>1, <3>2, <1>2
    <3>3. CASE k - 1 \in 1..Len(list) /\ more[k] = list[k - 1]
      BY <3>1, <3>3 DEF Members
    <3> QED BY <3>2, <3>3, <1>4
  <2>2. ASSUME NEW x \in Members(list) PROVE x \in Members(more)
    <3>1. PICK i \in 1..Len(list) : x = list[i]
      BY DEF Members
    <3>2. i + 1 \in 1..Len(more) /\ more[i + 1] = x
      BY <3>1, <1>1, <1>3
    <3> QED BY <3>2 DEF Members
  <2>3. e \in Members(more)
    BY <1>1, <1>2 DEF Members
  <2> QED BY <2>1, <2>2, <2>3
<1>6. ASSUME NoDuplicates(list), e \notin Members(list)
      PROVE  NoDuplicates(more)
  <2> SUFFICES ASSUME NEW i \in 1..(Len(list) + 1), NEW j \in 1..(Len(list) + 1),
                      more[i] = more[j]
               PROVE  i = j
    BY <1>1 DEF NoDuplicates
  <2>1. CASE i = 1 \/ j = 1
    BY <2>1, <1>2, <1>4, <1>6 DEF Members
  <2>2. CASE i # 1 /\ j # 1
    <3>1. i - 1 = j - 1
      BY <2>2, <1>4, <1>6 DEF NoDuplicates
    <3> QED BY <3>1
  <2> QED BY <2>1, <2>2
<1> QED BY <1>1, <1>2, <1>3, <1>5, <1>6 DEF more

\* dll_make_last puts a new element at the end.
LEMMA MakeLastProperties ==
    ASSUME NEW S, NEW list \in Seq(S), NEW e \in S
    PROVE  /\ DllMakeLast(list, e) \in Seq(S)
           /\ Len(DllMakeLast(list, e)) = Len(list) + 1
           /\ DllMakeLast(list, e)[Len(list) + 1] = e
           /\ \A i \in 1..Len(list) : DllMakeLast(list, e)[i] = list[i]
           /\ Members(DllMakeLast(list, e)) = Members(list) \cup {e}
           /\ NoDuplicates(list) /\ e \notin Members(list)
                => NoDuplicates(DllMakeLast(list, e))
<1> DEFINE more == DllMakeLast(list, e)
<1>1. /\ more \in Seq(S) /\ Len(more) = Len(list) + 1
      /\ more[Len(list) + 1] = e
      /\ \A i \in 1..Len(list) : more[i] = list[i]
  BY DEF DllMakeLast
<1> HIDE DEF more
<1>2. Members(more) = Members(list) \cup {e}
  BY <1>1 DEF Members
<1>3. NoDuplicates(list) /\ e \notin Members(list) => NoDuplicates(more)
  BY <1>1 DEF NoDuplicates, Members
<1> QED BY <1>1, <1>2, <1>3 DEF more

\* What remains of the two lemmas when the places do not matter.
COROLLARY MakeFirstNew ==
    ASSUME NEW S, NEW list \in Seq(S), NoDuplicates(list),
           NEW e \in S, e \notin Members(list)
    PROVE  /\ DllMakeFirst(list, e) \in Seq(S)
           /\ Len(DllMakeFirst(list, e)) = Len(list) + 1
           /\ Members(DllMakeFirst(list, e)) = Members(list) \cup {e}
           /\ NoDuplicates(DllMakeFirst(list, e))
BY MakeFirstProperties

COROLLARY MakeLastNew ==
    ASSUME NEW S, NEW list \in Seq(S), NoDuplicates(list),
           NEW e \in S, e \notin Members(list)
    PROVE  /\ DllMakeLast(list, e) \in Seq(S)
           /\ Len(DllMakeLast(list, e)) = Len(list) + 1
           /\ Members(DllMakeLast(list, e)) = Members(list) \cup {e}
           /\ NoDuplicates(DllMakeLast(list, e))
BY MakeLastProperties
=============================================================================
