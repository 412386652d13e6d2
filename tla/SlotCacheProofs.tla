--------------------------- MODULE SlotCacheProofs ---------------------------
(***************************************************************************)
(* The history and the KV cache of a slot, for any tokens, images, sizes   *)
(* of the context, of an image and of a batch, and prompts of any length.  *)
(*                                                                         *)
(* The cells for a sequence of pieces that begins at a position are        *)
(* CellsAt; what eval_tokens and eval_image add are the cells right after  *)
(* those of the history and of the image that is being evaluated.  For a   *)
(* model that refuses to erase, the cache must be just these cells while a *)
(* request runs, which is more than the property says: a cell beyond them  *)
(* would be attended to as soon as the history grows over it.              *)
(***************************************************************************)
EXTENDS SlotCache, SequenceLemmas

Piece == Atom \X Nat

\* What one atom puts into the cache.
PiecesIn(atom) == [k \in 1..CtxUsed(atom) |-> <<atom, k>>]

PieceSeqs(atoms) == [i \in 1..Len(atoms) |-> PiecesIn(atoms[i])]

LEMMA Sizes ==
    /\ ImageSize \in Nat \ {0} /\ ContextSize \in Nat \ {0} /\ Batch \in Nat \ {0}
    /\ Token \cap Image = {}
BY CacheAssumption

LEMMA PiecesInOne ==
    ASSUME NEW atom \in Atom
    PROVE  /\ CtxUsed(atom) \in Nat \ {0} /\ PiecesIn(atom) \in Seq(Piece)
           /\ Len(PiecesIn(atom)) = CtxUsed(atom)
           /\ \A k \in 1..CtxUsed(atom) : PiecesIn(atom)[k] = <<atom, k>>
<1>1. CtxUsed(atom) \in Nat \ {0}
  BY Sizes DEF CtxUsed
<1> DEFINE n == CtxUsed(atom)
           s == PiecesIn(atom)
<1>2. /\ s = [k \in 1..n |-> <<atom, k>>]
      /\ \A k \in 1..n : <<atom, k>> \in Piece
  BY <1>1 DEF PiecesIn, Piece
<1> HIDE DEF n, s
<1>3. s \in [1..n -> Piece] /\ n \in Nat
  BY <1>1, <1>2 DEF n
<1>4. s \in Seq(Piece) /\ Len(s) = n
  BY <1>3
<1> QED
  BY <1>1, <1>2, <1>4 DEF n, s

LEMMA PieceSeqsOf ==
    ASSUME NEW s \in Seq(Atom)
    PROVE  /\ PieceSeqs(s) \in Seq(Seq(Piece)) /\ Len(PieceSeqs(s)) = Len(s)
           /\ \A i \in 1..Len(s) : PieceSeqs(s)[i] = PiecesIn(s[i])
<1> DEFINE n == Len(s)
           q == PieceSeqs(s)
<1>1. n \in Nat /\ \A i \in 1..n : s[i] \in Atom
  OBVIOUS
<1>2. \A i \in 1..n : PiecesIn(s[i]) \in Seq(Piece)
  BY <1>1, PiecesInOne
<1>3. q = [i \in 1..n |-> PiecesIn(s[i])]
  BY DEF PieceSeqs
<1> HIDE DEF n, q
<1>4. q \in [1..n -> Seq(Piece)]
  BY <1>2, <1>3
<1>5. q \in Seq(Seq(Piece)) /\ Len(q) = n
  BY <1>1, <1>4
<1> QED
  BY <1>3, <1>5 DEF n, q

LEMMA PiecesFlatten == ASSUME NEW s PROVE Pieces(s) = FlattenSeq(PieceSeqs(s))
BY DEF Pieces, PieceSeqs, PiecesIn

LEMMA PiecesType == ASSUME NEW s \in Seq(Atom) PROVE Pieces(s) \in Seq(Piece)
BY PieceSeqsOf, PiecesFlatten, FlattenType

LEMMA PiecesEmpty == Pieces(<<>>) = <<>>
<1>1. <<>> \in Seq(Atom)
  OBVIOUS
<1>2. PieceSeqs(<<>>) = <<>>
  BY <1>1, PieceSeqsOf, EmptySeq
<1> QED
  BY <1>2, PiecesFlatten DEF FlattenSeq

LEMMA PiecesConcat ==
    ASSUME NEW s \in Seq(Atom), NEW t \in Seq(Atom)
    PROVE  Pieces(s \o t) = Pieces(s) \o Pieces(t)
<1> DEFINE c == s \o t
           m == Len(s)
           n == Len(t)
           p == PieceSeqs(s)
           q == PieceSeqs(t)
           r == PieceSeqs(c)
<1>1. /\ c \in Seq(Atom) /\ Len(c) = m + n /\ m \in Nat /\ n \in Nat
      /\ \A i \in 1..m + n : c[i] = IF i <= m THEN s[i] ELSE t[i - m]
  BY ConcatProperties
<1> HIDE DEF c
<1>2. /\ p \in Seq(Seq(Piece)) /\ Len(p) = m /\ \A i \in 1..m : p[i] = PiecesIn(s[i])
      /\ q \in Seq(Seq(Piece)) /\ Len(q) = n /\ \A i \in 1..n : q[i] = PiecesIn(t[i])
      /\ r \in Seq(Seq(Piece)) /\ Len(r) = m + n /\ \A i \in 1..m + n : r[i] = PiecesIn(c[i])
  BY <1>1, PieceSeqsOf
<1> HIDE DEF p, q, r, m, n
<1>3. /\ p \o q \in Seq(Seq(Piece)) /\ Len(p \o q) = m + n
      /\ \A i \in 1..m + n : (p \o q)[i] = IF i <= m THEN p[i] ELSE q[i - m]
  <2>1. p \in Seq(Seq(Piece)) /\ q \in Seq(Seq(Piece)) /\ Len(p) = m /\ Len(q) = n
    BY <1>2
  <2>2. /\ p \o q \in Seq(Seq(Piece)) /\ Len(p \o q) = Len(p) + Len(q)
        /\ \A i \in 1..Len(p) + Len(q) :
               (p \o q)[i] = IF i <= Len(p) THEN p[i] ELSE q[i - Len(p)]
    BY <2>1, ConcatProperties
  <2> QED
    BY <2>1, <2>2
<1>4. ASSUME NEW i \in 1..m + n PROVE r[i] = (p \o q)[i]
  <2>1. CASE i <= m
    <3>1. i \in 1..m
      BY <1>1, <2>1
    <3>2. r[i] = PiecesIn(c[i]) /\ c[i] = s[i]
      BY <1>1, <1>2, <2>1
    <3>3. (p \o q)[i] = p[i] /\ p[i] = PiecesIn(s[i])
      BY <1>2, <1>3, <2>1, <3>1
    <3> QED
      BY <3>2, <3>3
  <2>2. CASE ~(i <= m)
    <3>1. i - m \in 1..n
      BY <1>1, <2>2
    <3>2. r[i] = PiecesIn(c[i]) /\ c[i] = t[i - m]
      BY <1>1, <1>2, <2>2
    <3>3. (p \o q)[i] = q[i - m] /\ q[i - m] = PiecesIn(t[i - m])
      BY <1>2, <1>3, <2>2, <3>1
    <3> QED
      BY <3>2, <3>3
  <2> QED
    BY <2>1, <2>2
<1>5. r = p \o q
  BY <1>2, <1>3, <1>4, SeqEqual
<1>6. FlattenSeq(p \o q) = FlattenSeq(p) \o FlattenSeq(q)
  BY <1>2, FlattenConcat
<1> QED
  BY <1>5, <1>6, PiecesFlatten DEF c, p, q, r

LEMMA PiecesOne == ASSUME NEW atom \in Atom PROVE Pieces(<<atom>>) = PiecesIn(atom)
<1> DEFINE one == <<atom>>
           q == PieceSeqs(one)
<1>1. one \in Seq(Atom) /\ Len(one) = 1 /\ one[1] = atom
  OBVIOUS
<1> HIDE DEF one
<1>2. q \in Seq(Seq(Piece)) /\ Len(q) = 1 /\ q[1] = PiecesIn(atom) /\ q[1] \in Seq(Piece)
  <2>1. 1 \in 1..Len(one)
    BY <1>1
  <2>2. q \in Seq(Seq(Piece)) /\ Len(q) = Len(one) /\ q[1] = PiecesIn(one[1])
    BY <1>1, <2>1, PieceSeqsOf
  <2> QED
    BY <1>1, <2>2, PiecesInOne
<1> HIDE DEF q
<1>3. q # <<>>
  <2>1. Len(<<>>) = 0 /\ Len(q) # 0
    BY <1>2
  <2> QED
    BY <2>1, Zenon
<1>4. Tail(q) = <<>>
  <2>1. Tail(q) \in Seq(Seq(Piece)) /\ Len(Tail(q)) = 0
    BY <1>2, <1>3, HeadTailProperties
  <2> QED
    BY <2>1, EmptySeq
<1>5. FlattenSeq(q) = q[1] \o FlattenSeq(Tail(q))
  <2>1. \A s \in Seq(Seq(Piece)) : s # <<>> => FlattenSeq(s) = s[1] \o FlattenSeq(Tail(s))
    BY FlattenTail
  <2> QED
    BY <1>2, <1>3, <2>1
<1>6. FlattenSeq(<<>>) = <<>>
  BY DEF FlattenSeq
<1>7. q[1] \o <<>> = q[1]
  BY <1>2, ConcatEmptySeq
<1> QED
  BY <1>2, <1>4, <1>5, <1>6, <1>7, PiecesFlatten DEF q, one

LEMMA PiecesAppend ==
    ASSUME NEW s \in Seq(Atom), NEW atom \in Atom
    PROVE  Pieces(Append(s, atom)) = Pieces(s) \o PiecesIn(atom)
<1>1. Append(s, atom) = s \o <<atom>> /\ <<atom>> \in Seq(Atom)
  BY AppendIsConcat
<1> QED
  BY <1>1, PiecesConcat, PiecesOne

LEMMA PiecesSplit ==
    ASSUME NEW s \in Seq(Atom), NEW n \in 0..Len(s)
    PROVE  Pieces(s) = Pieces(Keep(s, n)) \o Pieces(Drop(s, n))
BY KeepDrop, KeepIs, DropIs, PiecesConcat

\* The first atom puts its pieces first.
LEMMA PiecesHead ==
    ASSUME NEW s \in Seq(Atom), s # <<>>
    PROVE  Pieces(s) = PiecesIn(s[1]) \o Pieces(Tail(s)) /\ s[1] \in Atom /\ Tail(s) \in Seq(Atom)
<1>1. s = <<s[1]>> \o Tail(s) /\ s[1] \in Atom /\ Tail(s) \in Seq(Atom)
  BY FirstAndRest
<1>2. <<s[1]>> \in Seq(Atom)
  BY <1>1
<1> DEFINE a == <<s[1]>>
           t == Tail(s)
<1>3. a \in Seq(Atom) /\ t \in Seq(Atom) /\ s = a \o t /\ Pieces(a) = PiecesIn(s[1])
  BY <1>1, <1>2, PiecesOne
<1> HIDE DEF a, t
<1>4. Pieces(s) = Pieces(a) \o Pieces(t)
  BY <1>3, PiecesConcat
<1> QED
  BY <1>1, <1>3, <1>4 DEF t

\* Every atom has a piece.
LEMMA PiecesNotEmpty ==
    ASSUME NEW s \in Seq(Atom), s # <<>>
    PROVE  Len(Pieces(s)) \in Nat \ {0}
<1>1. /\ Pieces(s) = PiecesIn(s[1]) \o Pieces(Tail(s))
      /\ Pieces(Tail(s)) \in Seq(Piece) /\ PiecesIn(s[1]) \in Seq(Piece)
      /\ Len(PiecesIn(s[1])) \in Nat \ {0}
  BY PiecesHead, PiecesType, PiecesInOne
<1> DEFINE a == PiecesIn(s[1])
           b == Pieces(Tail(s))
<1> HIDE DEF a, b
<1>2. Len(a \o b) = Len(a) + Len(b) /\ Len(a) \in Nat \ {0} /\ Len(b) \in Nat
  BY <1>1, ConcatLength DEF a, b
<1> QED
  BY <1>1, <1>2 DEF a, b

\* A token has one.
LEMMA PiecesAppendToken ==
    ASSUME NEW s \in Seq(Atom), NEW t \in Token
    PROVE  Len(Pieces(Append(s, t))) = Len(Pieces(s)) + 1
<1> DEFINE p == Pieces(s)
           q == PiecesIn(t)
<1>1. t \in Atom /\ CtxUsed(t) = 1
  BY Sizes DEF CtxUsed, Atom
<1>2. p \in Seq(Piece) /\ q \in Seq(Piece) /\ Len(q) = 1
  BY <1>1, PiecesType, PiecesInOne
<1>3. Pieces(Append(s, t)) = p \o q
  BY <1>1, PiecesAppend
<1> HIDE DEF p, q
<1>4. Len(p \o q) = Len(p) + Len(q)
  BY <1>2, ConcatLength
<1> QED
  BY <1>2, <1>3, <1>4 DEF p

LEMMA PiecesOfTokens ==
    ASSUME NEW s \in Seq(Atom), \A i \in 1..Len(s) : s[i] \in Token
    PROVE  Len(Pieces(s)) = Len(s)
<1> DEFINE F(n) == Keep(s, n)
           T == {n \in Nat : n <= Len(s) => Len(Pieces(F(n))) = n}
<1>1. 0 \in T
  <2>1. Pieces(F(0)) = <<>>
    BY KeepNone, PiecesEmpty
  <2> QED
    BY <2>1
<1>2. ASSUME NEW n \in Nat, n \in T PROVE n + 1 \in T
  <2> SUFFICES ASSUME n + 1 <= Len(s) PROVE Len(Pieces(F(n + 1))) = n + 1
    OBVIOUS
  <2>1. n \in 0..Len(s) /\ n + 1 \in 1..Len(s) /\ n <= Len(s)
    OBVIOUS
  <2>2. F(n + 1) = Append(F(n), s[n + 1]) /\ F(n) \in Seq(Atom) /\ s[n + 1] \in Token
    BY <2>1, KeepNext, KeepIs
  <2>3. Len(Pieces(F(n))) = n
    BY <1>2, <2>1
  <2>4. Len(Pieces(F(n + 1))) = Len(Pieces(F(n))) + 1
    BY <2>2, PiecesAppendToken
  <2> QED
    BY <2>3, <2>4
<1>3. Len(s) \in T
  <2>1. Len(s) \in Nat
    OBVIOUS
  <2> HIDE DEF T
  <2> QED
    BY <1>1, <1>2, <2>1, SetInduction
<1>4. F(Len(s)) = s
  BY KeepAll
<1> QED
  BY <1>3, <1>4

-----------------------------------------------------------------------------
\* The cells for a sequence of pieces, from a position on.

CellsAt(n, s) == {<<n + i - 1, s[i]>> : i \in 1..Len(s)}

LEMMA CellsWithin ==
    ASSUME NEW S, NEW s \in Seq(S), NEW n \in Nat
    PROVE  /\ CellsAt(n, s) \subseteq Nat \X S
           /\ \A c \in CellsAt(n, s) : n <= c[1] /\ c[1] < n + Len(s)
<1> SUFFICES ASSUME NEW c \in CellsAt(n, s)
             PROVE  c \in Nat \X S /\ n <= c[1] /\ c[1] < n + Len(s)
  OBVIOUS
<1>1. PICK i \in 1..Len(s) : c = <<n + i - 1, s[i]>>
  BY DEF CellsAt
<1>2. s[i] \in S /\ Len(s) \in Nat
  OBVIOUS
<1>3. n + i - 1 \in Nat /\ n <= n + i - 1 /\ n + i - 1 < n + Len(s)
  BY <1>2
<1> QED
  BY <1>1, <1>2, <1>3

LEMMA CellsEmpty == ASSUME NEW n \in Nat PROVE CellsAt(n, <<>>) = {}
BY DEF CellsAt

LEMMA CellsConcat ==
    ASSUME NEW S, NEW s \in Seq(S), NEW t \in Seq(S), NEW n \in Nat
    PROVE  CellsAt(n, s \o t) = CellsAt(n, s) \cup CellsAt(n + Len(s), t)
<1> DEFINE u == s \o t
           k == Len(s)
           m == Len(t)
<1>1. /\ Len(u) = k + m /\ k \in Nat /\ m \in Nat
      /\ \A i \in 1..k + m : u[i] = IF i <= k THEN s[i] ELSE t[i - k]
  BY ConcatProperties
<1> HIDE DEF u, k, m
<1>2. ASSUME NEW c \in CellsAt(n, u) PROVE c \in CellsAt(n, s) \cup CellsAt(n + k, t)
  <2>1. PICK i \in 1..k + m : c = <<n + i - 1, u[i]>>
    BY <1>1 DEF CellsAt
  <2>2. CASE i <= k
    <3>1. i \in 1..Len(s) /\ c = <<n + i - 1, s[i]>>
      BY <1>1, <2>1, <2>2 DEF k
    <3> QED
      BY <3>1 DEF CellsAt
  <2>3. CASE ~(i <= k)
    <3>1. i - k \in 1..m /\ n + i - 1 = (n + k) + (i - k) - 1
      BY <1>1, <2>3
    <3>2. c = <<(n + k) + (i - k) - 1, t[i - k]>>
      BY <1>1, <2>1, <2>3, <3>1
    <3> QED
      BY <3>1, <3>2 DEF CellsAt, m
  <2> QED
    BY <2>2, <2>3
<1>3. ASSUME NEW c \in CellsAt(n, s) PROVE c \in CellsAt(n, u)
  <2>1. PICK i \in 1..k : c = <<n + i - 1, s[i]>>
    BY DEF CellsAt, k
  <2>2. i \in 1..k + m /\ i <= k
    BY <1>1
  <2>3. c = <<n + i - 1, u[i]>> /\ i \in 1..Len(u)
    BY <1>1, <2>1, <2>2
  <2> QED
    BY <2>3 DEF CellsAt
<1>4. ASSUME NEW c \in CellsAt(n + k, t) PROVE c \in CellsAt(n, u)
  <2>1. PICK i \in 1..m : c = <<(n + k) + i - 1, t[i]>>
    BY DEF CellsAt, m
  <2>2. /\ k + i \in 1..k + m /\ ~(k + i <= k) /\ (k + i) - k = i
        /\ (n + k) + i - 1 = n + (k + i) - 1
    BY <1>1
  <2>3. c = <<n + (k + i) - 1, u[k + i]>> /\ k + i \in 1..Len(u)
    BY <1>1, <2>1, <2>2
  <2> QED
    BY <2>3 DEF CellsAt
<1> QED
  BY <1>2, <1>3, <1>4 DEF u, k

LEMMA CellsOfTwo ==
    ASSUME NEW S, NEW s \in Seq(S), NEW t \in Seq(S)
    PROVE  CellsAt(0, s \o t) = CellsAt(0, s) \cup CellsAt(Len(s), t)
<1>1. 0 + Len(s) = Len(s) /\ 0 \in Nat
  OBVIOUS
<1>2. CellsAt(0, s \o t) = CellsAt(0, s) \cup CellsAt(0 + Len(s), t)
  BY <1>1, CellsConcat
<1> QED
  BY <1>1, <1>2

\* What llama_kv_cache_seq_add does to them.
LEMMA CellsShifted ==
    ASSUME NEW S, NEW s \in Seq(S), NEW n \in Nat, NEW m \in 0..n
    PROVE  Shifted(CellsAt(n, s), n - m) = CellsAt(m, s)
<1>1. ASSUME NEW c \in CellsAt(m, s) PROVE c \in Shifted(CellsAt(n, s), n - m)
  <2>1. PICK i \in 1..Len(s) : c = <<m + i - 1, s[i]>>
    BY DEF CellsAt
  <2> DEFINE d == <<n + i - 1, s[i]>>
  <2>2. d \in CellsAt(n, s)
    BY DEF CellsAt
  <2>3. (n + i - 1) - (n - m) = m + i - 1
    OBVIOUS
  <2>4. c = <<d[1] - (n - m), d[2]>>
    BY <2>1, <2>3
  <2> HIDE DEF d
  <2> QED
    BY <2>2, <2>4 DEF Shifted
<1>2. ASSUME NEW c \in Shifted(CellsAt(n, s), n - m) PROVE c \in CellsAt(m, s)
  <2>1. PICK d \in CellsAt(n, s) : c = <<d[1] - (n - m), d[2]>>
    BY DEF Shifted
  <2>2. PICK i \in 1..Len(s) : d = <<n + i - 1, s[i]>>
    BY DEF CellsAt
  <2>3. (n + i - 1) - (n - m) = m + i - 1
    OBVIOUS
  <2>4. c = <<m + i - 1, s[i]>>
    BY <2>1, <2>2, <2>3
  <2> QED
    BY <2>4 DEF CellsAt
<1> QED
  BY <1>1, <1>2

-----------------------------------------------------------------------------
\* What prefill keeps is the beginning of the prompt.

Part(s, i, k) == SubSeq(s, i + 1, k)

LEMMA PartIs ==
    ASSUME NEW S, NEW s \in Seq(S), NEW k \in 0..Len(s), NEW i \in 0..k
    PROVE  /\ Part(s, i, k) \in Seq(S) /\ Len(Part(s, i, k)) = k - i
           /\ \A j \in 1..k - i : Part(s, i, k)[j] = s[i + j]
<1> DEFINE m == i + 1
           r == Part(s, i, k)
<1>1. /\ m \in Int /\ k \in Int /\ i \in Nat /\ i <= k /\ m = i + 1
      /\ \A j \in m..k : s[j] \in S
  OBVIOUS
<1> HIDE DEF m
<1>2. /\ r \in Seq(S) /\ Len(r) = (IF m <= k THEN k - m + 1 ELSE 0)
      /\ \A j \in 1..k - m + 1 : r[j] = s[m + j - 1]
  BY <1>1, SubSeqProperties DEF Part, m
<1> HIDE DEF r
<1>3. Len(r) = k - i
  BY <1>1, <1>2
<1>4. ASSUME NEW j \in 1..k - i PROVE r[j] = s[i + j]
  <2>1. j \in 1..k - m + 1 /\ m + j - 1 = i + j
    BY <1>1
  <2> QED
    BY <1>2, <2>1
<1> QED
  BY <1>2, <1>3, <1>4 DEF r

LEMMA CommonIs ==
    ASSUME NEW p \in Seq(Atom), NEW h \in Seq(Atom)
    PROVE  /\ CommonLength(p, h) \in 0..Len(h) /\ CommonLength(p, h) <= Len(p)
           /\ Keep(p, CommonLength(p, h)) = Keep(h, CommonLength(p, h))
<1> DEFINE same == {n \in 0..Len(h) : n <= Len(p) /\ SubSeq(p, 1, n) = SubSeq(h, 1, n)}
           k == CommonLength(p, h)
<1>1. 0 \in same
  <2>1. SubSeq(p, 1, 0) = <<>> /\ SubSeq(h, 1, 0) = <<>>
    BY KeepNone DEF Keep
  <2> QED
    BY <2>1
<1>2. Len(h) \in Nat /\ same \in SUBSET (0..Len(h)) /\ same # {}
  BY <1>1
<1>3. k = CHOOSE n \in same : \A m \in same : m <= n
  BY DEF CommonLength
<1>4. \E n \in same : \A m \in same : m <= n
  <2> HIDE DEF same
  <2>1. Max(same) \in same /\ \A m \in same : m <= Max(same)
    BY <1>2, MaxIsGreatest
  <2> QED
    BY <2>1
<1>5. k \in same
  <2> HIDE DEF same, k
  <2> QED
    BY <1>3, <1>4
<1> HIDE DEF k
<1>6. k \in 0..Len(h) /\ k <= Len(p) /\ SubSeq(p, 1, k) = SubSeq(h, 1, k)
  BY <1>5
<1> QED
  BY <1>6 DEF k, Keep

\* An end of the history that goes on with the prompt where the common prefix ends.
LEMMA MatchIs ==
    ASSUME NEW p \in Seq(Atom), NEW h \in Seq(Atom), NEW keep \in Nat,
           NEW i \in Matches(p, h, keep)
    PROVE  /\ i \in Nat /\ keep < i /\ i < Len(h) /\ keep + (Len(h) - i) <= Len(p)
           /\ \A j \in 1..Len(h) - i : h[i + j] = p[keep + j]
<1>1. /\ i \in (keep + 1)..(Len(h) - 1) /\ Len(h) - i <= Len(p) - keep
      /\ SubSeq(h, i + 1, Len(h)) = SubSeq(p, keep + 1, keep + Len(h) - i)
  BY DEF Matches
<1> DEFINE n == Len(h)
           k == keep + n - i
           l == Len(p)
<1>2. n \in Nat /\ l \in Nat /\ n = Len(h) /\ l = Len(p)
  OBVIOUS
<1> HIDE DEF n, l
<1>3. /\ i \in Nat /\ keep < i /\ i < n /\ keep + (n - i) <= l
      /\ i \in 0..n /\ k \in 0..l /\ keep \in 0..k /\ k - keep = n - i /\ n \in 0..n
  BY <1>1, <1>2
<1> HIDE DEF k
<1>4. Part(h, i, n) = Part(p, keep, k)
  BY <1>1, <1>2 DEF Part, n, k
<1>5. \A j \in 1..n - i : Part(h, i, n)[j] = h[i + j]
  BY <1>2, <1>3, PartIs
<1>6. \A j \in 1..k - keep : Part(p, keep, k)[j] = p[keep + j]
  BY <1>2, <1>3, PartIs
<1>7. \A j \in 1..n - i : h[i + j] = p[keep + j]
  BY <1>3, <1>4, <1>5, <1>6
<1> QED
  BY <1>3, <1>7 DEF n, l

PlanRight(plan, p, h) ==
    /\ plan.keep \in 0..Len(h) /\ plan.skipped \in 0..Len(p)
    /\ plan.p0 = -1 => Keep(h, plan.keep) = Keep(p, plan.skipped)
    /\ plan.p0 # -1 => /\ plan.p0 \in 0..Len(h) /\ plan.keep < plan.p0 /\ plan.p0 < Len(h)
                       /\ plan.p1 \in 0..Len(h) /\ plan.p0 <= plan.p1
                       /\ Keep(h, plan.keep) \o Part(h, plan.p0, plan.p1) = Keep(p, plan.skipped)

LEMMA PlanIsRight ==
    ASSUME NEW p \in Seq(Atom), p # <<>>, NEW h \in Seq(Atom)
    PROVE  PlanRight(Plan(p, h), p, h)
<1> DEFINE keep == CommonLength(p, h)
           ends == Matches(p, h, keep)
           p0 == IF ends = {} THEN -1 ELSE CHOOSE i \in ends : \A j \in ends : i <= j
           skipped == keep + (IF p0 = -1 THEN 0 ELSE Len(h) - p0)
           all == IF skipped = Len(p) THEN 1 ELSE 0
           m == Len(h)
           l == Len(p)
<1>1. Plan(p, h) = [keep    |-> IF p0 = -1 THEN keep - all ELSE keep,
                    p0      |-> p0,
                    p1      |-> IF p0 = -1 THEN -1 ELSE Len(h) - all,
                    skipped |-> skipped - all]
  BY DEF Plan
<1>2. /\ keep \in 0..m /\ keep <= l /\ Keep(p, keep) = Keep(h, keep)
      /\ m \in Nat /\ l \in Nat /\ l # 0
  BY CommonIs, EmptySeq
<1>3. CASE ends = {}
  <2>1. p0 = -1 /\ skipped = keep /\ all = IF keep = l THEN 1 ELSE 0
    BY <1>2, <1>3
  <2> DEFINE k == keep - all
  <2>2. /\ Plan(p, h).keep = k /\ Plan(p, h).skipped = k /\ Plan(p, h).p0 = -1
    BY <1>1, <2>1
  <2> HIDE DEF keep, ends, skipped, p0, all, m, l
  <2>3. k \in Nat /\ k <= keep /\ k <= m /\ k <= l
    BY <1>2, <2>1
  <2> HIDE DEF k
  <2>4. k \in 0..Len(h) /\ k \in 0..Len(p)
    BY <1>2, <2>3 DEF m, l
  <2>5. \A j \in 1..k : h[j] = p[j]
    <3>1. ASSUME NEW j \in 1..k PROVE h[j] = p[j]
      <4>1. j \in 1..keep
        BY <1>2, <2>3
      <4>2. keep \in 0..Len(h) /\ keep \in 0..Len(p)
        BY <1>2 DEF m, l
      <4>3. Keep(h, keep)[j] = h[j] /\ Keep(p, keep)[j] = p[j]
        BY <4>1, <4>2, KeepIs
      <4> QED
        BY <1>2, <4>3
    <3> QED
      BY <3>1
  <2> DEFINE a == Keep(h, k)
             b == Keep(p, k)
  <2>6. /\ a \in Seq(Atom) /\ Len(a) = k /\ \A j \in 1..k : a[j] = h[j]
        /\ b \in Seq(Atom) /\ Len(b) = k /\ \A j \in 1..k : b[j] = p[j]
    BY <2>4, KeepIs
  <2> HIDE DEF a, b
  <2>7. a = b
    BY <2>5, <2>6, SeqEqual
  <2> QED
    BY <2>2, <2>4, <2>7 DEF PlanRight, a, b
<1>4. CASE ends # {}
  <2>1. p0 = CHOOSE i \in ends : \A j \in ends : i <= j
    BY <1>4
  <2>2. ends \in SUBSET Nat
    <3> HIDE DEF keep
    <3> QED
      BY <1>2, MatchIs
  <2>3. \E i \in ends : \A j \in ends : i <= j
    <3> HIDE DEF ends
    <3> QED
      BY <1>4, <2>2, LeastNatural
  <2>4. p0 \in ends
    <3> HIDE DEF ends, p0
    <3> QED
      BY <2>1, <2>3
  <2> HIDE DEF p0
  <2>5. /\ p0 \in Nat /\ keep < p0 /\ p0 < m /\ keep + (m - p0) <= l
        /\ \A j \in 1..m - p0 : h[p0 + j] = p[keep + j]
    <3>1. keep \in Nat
      BY <1>2
    <3> HIDE DEF keep
    <3> QED
      BY <2>4, <3>1, MatchIs
  <2>6. p0 # -1 /\ skipped = keep + (m - p0) /\ (all = 0 \/ all = 1)
    BY <2>5
  <2> DEFINE p1 == m - all
             sk == skipped - all
  <2>7. /\ Plan(p, h).keep = keep /\ Plan(p, h).skipped = sk
        /\ Plan(p, h).p0 = p0 /\ Plan(p, h).p1 = p1
    BY <1>1, <2>6
  <2> HIDE DEF keep, ends, skipped, all, m, l
  <2>8. /\ p1 \in Nat /\ p0 <= p1 /\ p1 <= m /\ sk = keep + (p1 - p0) /\ sk \in Nat /\ sk <= l
        /\ keep \in Nat /\ keep <= m
    BY <1>2, <2>5, <2>6
  <2> HIDE DEF p1, sk
  <2>9. /\ p1 \in 0..Len(h) /\ p0 \in 0..p1 /\ p0 \in 0..Len(h) /\ keep \in 0..Len(h)
        /\ keep \in 0..Len(p) /\ sk \in 0..Len(p) /\ p0 < Len(h)
    BY <1>2, <2>5, <2>8 DEF m, l
  <2> DEFINE a == Keep(h, keep)
             b == Part(h, p0, p1)
             c == Keep(p, sk)
             d == Keep(p, keep)
             n == p1 - p0
  <2>10. /\ a \in Seq(Atom) /\ Len(a) = keep /\ a = d /\ \A j \in 1..keep : d[j] = p[j]
         /\ b \in Seq(Atom) /\ Len(b) = n /\ \A j \in 1..n : b[j] = h[p0 + j]
         /\ c \in Seq(Atom) /\ Len(c) = sk /\ \A j \in 1..sk : c[j] = p[j]
    <3>1. a \in Seq(Atom) /\ Len(a) = keep
      BY <2>9, KeepIs
    <3>2. a = d /\ \A j \in 1..keep : d[j] = p[j]
      BY <1>2, <2>9, KeepIs
    <3>3. b \in Seq(Atom) /\ Len(b) = n /\ \A j \in 1..n : b[j] = h[p0 + j]
      BY <2>9, PartIs
    <3>4. c \in Seq(Atom) /\ Len(c) = sk /\ \A j \in 1..sk : c[j] = p[j]
      BY <2>9, KeepIs
    <3> HIDE DEF a, b, c, d, n
    <3> QED
      BY <3>1, <3>2, <3>3, <3>4
  <2> HIDE DEF a, b, c, d
  <2>11. n \in Nat /\ n <= m - p0 /\ sk = keep + n /\ m \in Nat
    BY <1>2, <2>5, <2>8
  <2> HIDE DEF n
  <2>12. /\ a \o b \in Seq(Atom) /\ Len(a \o b) = keep + n
         /\ \A j \in 1..keep + n : (a \o b)[j] = IF j <= keep THEN a[j] ELSE b[j - keep]
    <3>1. a \in Seq(Atom) /\ b \in Seq(Atom) /\ Len(a) = keep /\ Len(b) = n
      BY <2>10
    <3>2. /\ a \o b \in Seq(Atom) /\ Len(a \o b) = Len(a) + Len(b)
          /\ \A j \in 1..Len(a) + Len(b) :
                 (a \o b)[j] = IF j <= Len(a) THEN a[j] ELSE b[j - Len(a)]
      BY <3>1, ConcatProperties
    <3> QED
      BY <3>1, <3>2
  <2>13. ASSUME NEW j \in 1..sk PROVE (a \o b)[j] = c[j]
    <3>1. CASE j <= keep
      <4>1. j \in 1..keep /\ j \in 1..keep + n
        BY <2>8, <2>11, <3>1
      <4> QED
        BY <2>10, <2>12, <3>1, <4>1
    <3>2. CASE ~(j <= keep)
      <4>1. j - keep \in 1..n /\ j \in 1..keep + n /\ keep + (j - keep) = j /\ j - keep \in 1..m - p0
        BY <2>5, <2>8, <2>11, <3>2
      <4>2. (a \o b)[j] = b[j - keep]
        BY <2>12, <3>2, <4>1
      <4>3. b[j - keep] = h[p0 + (j - keep)]
        BY <2>10, <4>1
      <4>4. h[p0 + (j - keep)] = p[keep + (j - keep)]
        BY <2>5, <4>1
      <4> QED
        BY <2>10, <4>1, <4>2, <4>3, <4>4
    <3> QED
      BY <3>1, <3>2
  <2>14. a \o b = c
    <3>1. Len(a \o b) = Len(c)
      BY <2>10, <2>11, <2>12
    <3>2. \A j \in 1..Len(a \o b) : (a \o b)[j] = c[j]
      BY <2>11, <2>12, <2>13
    <3> QED
      BY <2>10, <2>12, <3>1, <3>2, SeqEqual
  <2> QED
    BY <2>5, <2>6, <2>7, <2>8, <2>9, <2>14 DEF PlanRight, a, b, c
<1> QED
  BY <1>3, <1>4

-----------------------------------------------------------------------------
\* The invariant.

\* Pieces of the image at hand that are in the cache.
Begun == IF pc = "image" THEN ImageSize - left ELSE 0

\* What the cells are for.
Evaluated == Pieces(history) \o Keep(Pieces(todo), Begun)

EvalInv ==
    /\ erasable \in BOOLEAN
    /\ history \in Seq(Atom) /\ prompt \in Seq(Atom) /\ todo \in Seq(Atom)
    /\ pc \in {"free", "eval", "tokens", "image", "generate", "generating"}
    /\ left \in 0..ContextSize /\ used \in 0..ContextSize /\ total \in Nat
    /\ pc = "free" => prompt = <<>> /\ todo = <<>> /\ total = 0
    /\ pc \in {"eval", "tokens", "image", "generate"} =>
           history \o todo = prompt /\ total >= ctxUsed /\ (erasable => total = ctxUsed)
    /\ pc = "generate" => todo = <<>>
    /\ pc = "tokens" => /\ left \in 1..Len(todo) /\ \A i \in 1..left : todo[i] \in Token
                        /\ used = ctxUsed /\ used + left <= ContextSize
    /\ pc = "image" => /\ todo # <<>> /\ todo[1] \in Image /\ left \in 1..ImageSize
                       /\ used = ctxUsed + Begun /\ used + left <= ContextSize

CacheHolds(erases, set, pieces, free) ==
    /\ CellsAt(0, pieces) \subseteq set
    /\ set \subseteq (0..(ContextSize - 1)) \X Piece
    /\ ~erases => IF free THEN {c \in set : c[1] < Len(pieces)} = CellsAt(0, pieces)
                  ELSE set = CellsAt(0, pieces)

CacheInv == CacheHolds(erasable, cells, Evaluated, pc = "free")

IInv == EvalInv /\ CacheInv

LEMMA KeepMore ==
    ASSUME NEW S, NEW s \in Seq(S), NEW n \in 0..Len(s), NEW m \in 0..n
    PROVE  Keep(s, m) \o Part(s, m, n) = Keep(s, n)
<1>1. 1 \in 1..Len(s) + 1 /\ m \in 1 - 1..Len(s) /\ n \in m..Len(s)
  OBVIOUS
<1> QED
  BY <1>1, ConcatAdjacentSubSeq DEF Keep, Part

LEMMA NothingBegun ==
    ASSUME NEW h \in Seq(Atom), NEW t \in Seq(Atom)
    PROVE  Pieces(h) \o Keep(Pieces(t), 0) = Pieces(h)
<1>1. Keep(Pieces(t), 0) = <<>>
  BY PiecesType, KeepNone
<1> QED
  BY <1>1, PiecesType, ConcatEmptySeq

\* A batch is decoded.
LEMMA HoldsMore ==
    ASSUME NEW erases, NEW set, NEW e \in Seq(Piece), NEW f \in Seq(Piece),
           Len(e) + Len(f) <= ContextSize, CacheHolds(erases, set, e, FALSE)
    PROVE  CacheHolds(erases, set \cup CellsAt(Len(e), f), e \o f, FALSE)
<1> DEFINE new == CellsAt(Len(e), f)
           old == CellsAt(0, e)
           both == CellsAt(0, e \o f)
<1>1. both = old \cup new
  BY CellsOfTwo
<1>2. /\ new \subseteq Nat \X Piece
      /\ \A c \in new : Len(e) <= c[1] /\ c[1] < Len(e) + Len(f)
  BY CellsWithin
<1> HIDE DEF new, old, both
<1>3. new \subseteq (0..(ContextSize - 1)) \X Piece
  <2> SUFFICES ASSUME NEW c \in new PROVE c \in (0..(ContextSize - 1)) \X Piece
    OBVIOUS
  <2>1. c \in Nat \X Piece /\ c[1] < Len(e) + Len(f)
    BY <1>2
  <2>2. c[1] \in 0..(ContextSize - 1)
    BY <2>1, Sizes
  <2> QED
    BY <2>1, <2>2
<1>4. old \subseteq set /\ set \subseteq (0..(ContextSize - 1)) \X Piece /\ (~erases => set = old)
  BY DEF CacheHolds, old
<1>5. /\ both \subseteq set \cup new
      /\ set \cup new \subseteq (0..(ContextSize - 1)) \X Piece
      /\ ~erases => set \cup new = both
  BY <1>1, <1>3, <1>4
<1> QED
  BY <1>5 DEF CacheHolds, both, new

\* The request ends, with what comes last of the cache left behind.
LEMMA HoldsFree ==
    ASSUME NEW erases, NEW set, NEW e \in Seq(Piece), NEW f \in Seq(Piece),
           CacheHolds(erases, set, e \o f, FALSE)
    PROVE  CacheHolds(erases, set, e, TRUE)
<1> DEFINE new == CellsAt(Len(e), f)
           old == CellsAt(0, e)
           both == CellsAt(0, e \o f)
<1>1. both = old \cup new
  BY CellsOfTwo
<1>2. /\ \A c \in new : c \in Nat \X Piece /\ Len(e) <= c[1]
      /\ \A c \in old : c \in Nat \X Piece /\ c[1] < 0 + Len(e)
  BY CellsWithin
<1> HIDE DEF new, old, both
<1>3. /\ both \subseteq set /\ set \subseteq (0..(ContextSize - 1)) \X Piece
      /\ ~erases => set = both
  BY DEF CacheHolds, both
<1>4. Len(e) \in Nat
  OBVIOUS
<1>5. /\ \A c \in new : ~(c[1] < Len(e))
      /\ \A c \in old : c[1] < Len(e)
  <2>1. \A c \in new : c[1] \in Nat
    BY <1>2
  <2>2. \A c \in old : c[1] \in Nat
    BY <1>2
  <2> QED
    BY <1>2, <1>4, <2>1, <2>2
<1>6. ~erases => {c \in set : c[1] < Len(e)} = old
  BY <1>1, <1>3, <1>5
<1> QED
  BY <1>1, <1>3, <1>6 DEF CacheHolds, old

-----------------------------------------------------------------------------
\* The steps.

LEMMA EvaluatedType ==
    ASSUME EvalInv
    PROVE  /\ Pieces(history) \in Seq(Piece) /\ Pieces(todo) \in Seq(Piece)
           /\ Begun \in 0..Len(Pieces(todo))
           /\ Keep(Pieces(todo), Begun) \in Seq(Piece) /\ Len(Keep(Pieces(todo), Begun)) = Begun
           /\ Evaluated \in Seq(Piece) /\ Len(Evaluated) = ctxUsed + Begun /\ ctxUsed \in Nat
           /\ pc # "image" => Begun = 0 /\ Evaluated = Pieces(history)
<1>1. Pieces(history) \in Seq(Piece) /\ Pieces(todo) \in Seq(Piece)
  BY PiecesType DEF EvalInv
<1>2. Begun \in 0..Len(Pieces(todo))
  <2>1. CASE pc = "image"
    <3>1. todo \in Seq(Atom) /\ todo # <<>> /\ todo[1] \in Image /\ left \in 1..ImageSize
      BY <2>1 DEF EvalInv
    <3> DEFINE a == PiecesIn(todo[1])
               b == Pieces(Tail(todo))
    <3>2. /\ Pieces(todo) = a \o b /\ todo[1] \in Atom /\ Tail(todo) \in Seq(Atom)
      BY <3>1, PiecesHead
    <3>3. CtxUsed(todo[1]) = ImageSize
      BY <3>1 DEF CtxUsed
    <3>4. a \in Seq(Piece) /\ Len(a) = ImageSize /\ b \in Seq(Piece)
      BY <3>2, <3>3, PiecesInOne, PiecesType
    <3> HIDE DEF a, b
    <3>5. Len(a \o b) = Len(a) + Len(b) /\ Len(b) \in Nat
      BY <3>4, ConcatLength
    <3>6. Len(Pieces(todo)) = ImageSize + Len(b)
      BY <3>2, <3>4, <3>5
    <3> QED
      BY <2>1, <3>1, <3>5, <3>6, Sizes DEF Begun
  <2>2. CASE pc # "image"
    <3>1. Len(Pieces(todo)) \in Nat
      BY <1>1
    <3> QED
      BY <2>2, <3>1 DEF Begun
  <2> QED
    BY <2>1, <2>2
<1> DEFINE h == Pieces(history)
           q == Pieces(todo)
           n == Begun
           t == Keep(q, n)
<1>3. h \in Seq(Piece) /\ q \in Seq(Piece) /\ n \in 0..Len(q) /\ Evaluated = h \o t
  BY <1>1, <1>2 DEF Evaluated
<1> HIDE DEF h, q, n
<1>4. t \in Seq(Piece) /\ Len(t) = n
  BY <1>3, KeepIs
<1>5. pc # "image" => n = 0 /\ h \o t = h
  <2>1. Keep(q, 0) = <<>> /\ h \o <<>> = h
    BY <1>3, KeepNone, ConcatEmptySeq
  <2> QED
    BY <2>1 DEF n, Begun
<1> HIDE DEF t
<1>6. h \o t \in Seq(Piece) /\ Len(h \o t) = Len(h) + Len(t) /\ Len(h) \in Nat
  BY <1>3, <1>4, ConcatLength
<1> QED
  BY <1>3, <1>4, <1>5, <1>6 DEF h, q, n, t, ctxUsed

\* The request ends, with what comes last of the cache left behind.
LEMMA DoneHolds ==
    ASSUME EvalInv, NEW f \in Seq(Piece),
           CacheHolds(erasable, cells', Pieces(history) \o f, FALSE),
           Done, UNCHANGED <<history, erasable>>
    PROVE  IInv'
<1>1. /\ pc' = "free" /\ todo' = <<>> /\ left' = 0 /\ used' = 0 /\ total' = 0
      /\ prompt' = <<>> /\ history' = history /\ erasable' = erasable
  BY DEF Done
<1>2. <<>> \in Seq(Atom) /\ 0 \in 0..ContextSize
  BY Sizes
<1>3. EvalInv'
  BY <1>1, <1>2 DEF EvalInv
<1>4. CacheHolds(erasable, cells', Pieces(history), TRUE)
  BY HoldsFree, PiecesType DEF EvalInv
<1>5. Evaluated' = Pieces(history)
  <2>1. Begun' = 0
    BY <1>1 DEF Begun
  <2>2. Pieces(history) \o Keep(Pieces(<<>>), 0) = Pieces(history)
    BY <1>2, NothingBegun DEF EvalInv
  <2> QED
    BY <1>1, <2>1, <2>2 DEF Evaluated
<1>6. CacheInv'
  BY <1>1, <1>4, <1>5 DEF CacheInv
<1> QED
  BY <1>3, <1>6 DEF IInv

LEMMA EndKeeps ==
    ASSUME IInv, EvalRefused \/ DecodeFails \/ GiveBack, UNCHANGED erasable
    PROVE  IInv'
<1>1. Done /\ pc # "free" /\ UNCHANGED <<history, cells, erasable>>
  BY DEF EvalRefused, DecodeFails, GiveBack
<1>2. Keep(Pieces(todo), Begun) \in Seq(Piece)
  BY EvaluatedType DEF IInv
<1>3. CacheHolds(erasable, cells', Pieces(history) \o Keep(Pieces(todo), Begun), FALSE)
  BY <1>1 DEF IInv, CacheInv, Evaluated
<1> QED
  BY <1>1, <1>2, <1>3, DoneHolds DEF IInv

\* The cells of a batch come right after those that are there.
LEMMA Batches ==
    ASSUME EvalInv, pc \in {"tokens", "image"}
    PROVE  /\ BatchSize \in 1..left /\ left \in Nat /\ used = Len(Evaluated)
           /\ Begun + BatchSize \in 0..Len(Pieces(todo)) /\ Begun \in 0..(Begun + BatchSize)
           /\ Part(Pieces(todo), Begun, Begun + BatchSize) \in Seq(Piece)
           /\ Len(Part(Pieces(todo), Begun, Begun + BatchSize)) = BatchSize
           /\ used + BatchSize \in 0..ContextSize
           /\ NewCells = CellsAt(Len(Evaluated), Part(Pieces(todo), Begun, Begun + BatchSize))
<1>1. BatchSize \in 1..left /\ left \in Nat /\ left \in 1..left
  BY Sizes DEF EvalInv, BatchSize
<1>2. /\ Pieces(todo) \in Seq(Piece) /\ Begun \in 0..Len(Pieces(todo))
      /\ Len(Evaluated) = ctxUsed + Begun /\ ctxUsed \in Nat
      /\ pc # "image" => Begun = 0
  BY EvaluatedType
<1>3. used = ctxUsed + Begun /\ used + left <= ContextSize /\ used \in Nat
  BY <1>2 DEF EvalInv
<1>4. Begun + left <= Len(Pieces(todo))
  <2>1. CASE pc = "tokens"
    <3>1. todo \in Seq(Atom) /\ left \in 0..Len(todo) /\ \A i \in 1..left : todo[i] \in Token
      BY <2>1 DEF EvalInv
    <3> DEFINE a == Keep(todo, left)
               b == Drop(todo, left)
    <3>2. /\ a \in Seq(Atom) /\ Len(a) = left /\ (\A i \in 1..left : a[i] = todo[i])
          /\ b \in Seq(Atom) /\ Pieces(todo) = Pieces(a) \o Pieces(b)
      BY <3>1, KeepIs, DropIs, PiecesSplit
    <3> HIDE DEF a, b
    <3>3. Len(Pieces(a)) = left
      BY <3>1, <3>2, PiecesOfTokens
    <3> DEFINE pa == Pieces(a)
               pb == Pieces(b)
    <3>4. pa \in Seq(Piece) /\ pb \in Seq(Piece)
      BY <3>2, PiecesType
    <3> HIDE DEF pa, pb
    <3>5. Len(pa \o pb) = Len(pa) + Len(pb) /\ Len(pb) \in Nat
      BY <3>4, ConcatLength
    <3>6. Len(Pieces(todo)) = left + Len(pb) /\ Begun = 0
      BY <1>2, <2>1, <3>2, <3>3, <3>5 DEF pa, pb
    <3> QED
      BY <1>1, <3>5, <3>6
  <2>2. CASE pc = "image"
    <3>1. todo \in Seq(Atom) /\ todo # <<>> /\ todo[1] \in Image /\ left \in 1..ImageSize
      BY <2>2 DEF EvalInv
    <3> DEFINE a == PiecesIn(todo[1])
               b == Pieces(Tail(todo))
    <3>2. Pieces(todo) = a \o b /\ todo[1] \in Atom /\ Tail(todo) \in Seq(Atom)
      BY <3>1, PiecesHead
    <3>3. CtxUsed(todo[1]) = ImageSize
      BY <3>1 DEF CtxUsed
    <3>4. a \in Seq(Piece) /\ Len(a) = ImageSize /\ b \in Seq(Piece)
      BY <3>2, <3>3, PiecesInOne, PiecesType
    <3> HIDE DEF a, b
    <3>5. Len(a \o b) = Len(a) + Len(b) /\ Len(b) \in Nat
      BY <3>4, ConcatLength
    <3>6. Len(Pieces(todo)) = ImageSize + Len(b)
      BY <3>2, <3>4, <3>5
    <3>7. Begun = ImageSize - left
      BY <2>2 DEF Begun
    <3> QED
      BY <3>1, <3>5, <3>6, <3>7, Sizes
  <2> QED
    BY <2>1, <2>2
<1> DEFINE q == Pieces(todo)
           n == Begun
           m == Begun + BatchSize
           b == BatchSize
           f == Part(q, n, m)
<1>5. /\ q \in Seq(Piece) /\ n \in Nat /\ m = n + b /\ b \in 1..left /\ left \in Nat
      /\ n + left <= Len(q) /\ Len(q) \in Nat
  BY <1>1, <1>2, <1>4
<1> HIDE DEF q, n, b, m
<1>6. m \in 0..Len(q) /\ n \in 0..m /\ m - n = b
  BY <1>5
<1>7. f \in Seq(Piece) /\ Len(f) = b
  BY <1>5, <1>6, PartIs
<1>8. used + b \in 0..ContextSize
  BY <1>3, <1>5, Sizes
<1>9. NewCells = CellsAt(Len(Evaluated), f)
  <2>1. (IF pc = "image" THEN ImageSize - left ELSE 0) = n
    BY DEF n, Begun
  <2>2. NewCells = {<<used + i - 1, f[i]>> : i \in 1..b}
    BY <2>1 DEF NewCells, f, Part, q, m, n, b
  <2> HIDE DEF f
  <2> QED
    BY <1>2, <1>3, <1>7, <2>2 DEF CellsAt
<1> QED
  BY <1>1, <1>2, <1>3, <1>6, <1>7, <1>8, <1>9 DEF q, n, m, b

\* What a batch that is decoded leaves in the cache.
LEMMA BatchHolds ==
    ASSUME IInv, pc \in {"tokens", "image"}, cells' = cells \cup NewCells
    PROVE  CacheHolds(erasable, cells',
                      Pieces(history) \o Keep(Pieces(todo), Begun + BatchSize), FALSE)
<1> DEFINE q == Pieces(todo)
           n == Begun
           m == Begun + BatchSize
           f == Part(q, n, m)
           t == Keep(q, n)
           h == Pieces(history)
           e == Evaluated
<1>1. /\ h \in Seq(Piece) /\ q \in Seq(Piece) /\ e \in Seq(Piece) /\ t \in Seq(Piece)
      /\ e = h \o t
  BY EvaluatedType DEF IInv, Evaluated
<1>2. /\ m \in 0..Len(q) /\ n \in 0..m /\ f \in Seq(Piece) /\ Len(f) = BatchSize
      /\ used = Len(e) /\ used + BatchSize \in 0..ContextSize
      /\ NewCells = CellsAt(Len(e), f)
  BY Batches DEF IInv
<1>3. CacheHolds(erasable, cells, e, FALSE)
  BY DEF IInv, CacheInv
<1> HIDE DEF q, n, m, h, e
<1>4. t \o f = Keep(q, m)
  BY <1>1, <1>2, KeepMore
<1> HIDE DEF f, t
<1>5. Len(e) + Len(f) <= ContextSize
  BY <1>2, Sizes
<1>6. CacheHolds(erasable, cells \cup CellsAt(Len(e), f), e \o f, FALSE)
  BY <1>1, <1>2, <1>3, <1>5, HoldsMore
<1>7. (h \o t) \o f = h \o (t \o f)
  <2>1. Associative(Piece)
    BY IsAssociative
  <2>2. h \in Seq(Piece) /\ t \in Seq(Piece) /\ f \in Seq(Piece)
    BY <1>1, <1>2
  <2> QED
    BY <2>1, <2>2, ZenonT(40) DEF Associative
<1>8. e \o f = h \o Keep(q, m)
  BY <1>1, <1>4, <1>7
<1>9. CacheHolds(erasable, cells', h \o Keep(q, m), FALSE)
  BY <1>2, <1>6, <1>8
<1> QED
  BY <1>9 DEF h, q, m

LEMMA CancelledKeeps == ASSUME IInv, DecodeCancelled, UNCHANGED erasable PROVE IInv'
<1>1. /\ pc \in {"tokens", "image"} /\ cells' = cells \cup NewCells
      /\ Done /\ UNCHANGED <<history, erasable>>
  BY DEF DecodeCancelled
<1> DEFINE f == Keep(Pieces(todo), Begun + BatchSize)
<1>2. CacheHolds(erasable, cells', Pieces(history) \o f, FALSE)
  BY <1>1, BatchHolds
<1>3. f \in Seq(Piece)
  BY <1>1, Batches, EvaluatedType, KeepIs DEF IInv
<1> HIDE DEF f
<1> QED
  BY <1>1, <1>2, <1>3, DoneHolds DEF IInv

\* eval_tokens, one batch: its atoms go over from what is to do to the history.
LEMMA TokensKeep == ASSUME IInv, DecodeTokens, UNCHANGED erasable PROVE IInv'
<1> DEFINE b == BatchSize
           a == Keep(todo, b)
           d == Drop(todo, b)
           h == history
           hp == Pieces(h)
           tp == Pieces(a)
<1>1. /\ pc = "tokens" /\ cells' = cells \cup NewCells
      /\ history' = h \o a /\ todo' = d
      /\ left' = left - b /\ used' = used + b /\ total' = total + b
      /\ pc' = (IF left' = 0 THEN "eval" ELSE "tokens")
      /\ prompt' = prompt /\ erasable' = erasable
  BY DEF DecodeTokens, Keep, Drop
<1>2. /\ h \in Seq(Atom) /\ todo \in Seq(Atom) /\ total \in Nat
      /\ h \o todo = prompt /\ prompt \in Seq(Atom)
      /\ total >= ctxUsed /\ (erasable => total = ctxUsed)
      /\ left \in 1..Len(todo) /\ \A i \in 1..left : todo[i] \in Token
      /\ used = ctxUsed /\ used + left <= ContextSize /\ used \in 0..ContextSize
      /\ erasable \in BOOLEAN
  BY <1>1 DEF IInv, EvalInv
<1>3. b \in 1..left /\ used + b \in 0..ContextSize /\ Begun = 0 /\ left \in 0..ContextSize
  BY <1>1, Batches, EvaluatedType DEF IInv, EvalInv
<1> HIDE DEF b
<1>4. b \in 0..Len(todo) /\ b \in Nat /\ left \in Nat /\ left - b \in 0..ContextSize
  BY <1>2, <1>3, Sizes
<1>5. /\ a \in Seq(Atom) /\ Len(a) = b /\ \A i \in 1..b : a[i] = todo[i]
      /\ d \in Seq(Atom) /\ Len(d) = Len(todo) - b
      /\ \A i \in 1..Len(todo) - b : d[i] = todo[b + i]
      /\ a \o d = todo /\ Pieces(todo) = Pieces(a) \o Pieces(d)
  <2>1. todo \in Seq(Atom) /\ b \in 0..Len(todo)
    BY <1>2, <1>4
  <2>2. a \in Seq(Atom) /\ Len(a) = b /\ \A i \in 1..b : a[i] = todo[i]
    BY <2>1, KeepIs
  <2>3. /\ d \in Seq(Atom) /\ Len(d) = Len(todo) - b
        /\ \A i \in 1..Len(todo) - b : d[i] = todo[b + i]
    BY <2>1, DropIs
  <2>4. a \o d = todo /\ Pieces(todo) = Pieces(a) \o Pieces(d)
    BY <2>1, KeepDrop, PiecesSplit
  <2> HIDE DEF a, d
  <2> QED
    BY <2>2, <2>3, <2>4
<1> HIDE DEF a, d, h
<1>6. Len(tp) = b
  <2>1. \A i \in 1..b : i \in 1..left
    BY <1>3
  <2>2. \A i \in 1..Len(a) : a[i] \in Token
    BY <1>2, <1>5, <2>1
  <2> QED
    BY <1>5, <2>2, PiecesOfTokens
<1>7. hp \in Seq(Piece) /\ tp \in Seq(Piece) /\ Pieces(d) \in Seq(Piece) /\ Len(hp) \in Nat
  BY <1>2, <1>5, PiecesType
<1>8. Pieces(h \o a) = hp \o tp
  BY <1>2, <1>5, PiecesConcat
<1>9. Keep(Pieces(todo), b) = tp
  <2> HIDE DEF tp, hp
  <2>1. Keep(tp \o Pieces(d), Len(tp)) = tp
    BY <1>7, KeepOfConcat
  <2> QED
    BY <1>5, <1>6, <2>1 DEF tp
<1>10. CacheHolds(erasable, cells', Pieces(h \o a), FALSE)
  <2>1. Begun + BatchSize = b
    BY <1>3, <1>4 DEF b
  <2> QED
    BY <1>1, <1>8, <1>9, <2>1, BatchHolds DEF b, h
<1>11. h \o a \in Seq(Atom) /\ (h \o a) \o d = prompt
  <2>1. h \in Seq(Atom) /\ a \in Seq(Atom) /\ d \in Seq(Atom)
    BY <1>2, <1>5
  <2>2. (h \o a) \o d = h \o (a \o d)
    <3>1. Associative(Atom)
      BY IsAssociative
    <3> QED
      BY <2>1, <3>1, ZenonT(40) DEF Associative
  <2>3. h \o a \in Seq(Atom)
    BY <2>1, ConcatLength
  <2> QED
    BY <1>2, <1>5, <2>2, <2>3
<1>12. ctxUsed' = ctxUsed + b
  <2> HIDE DEF hp, tp
  <2>1. Len(hp \o tp) = Len(hp) + Len(tp)
    BY <1>7, ConcatLength
  <2> QED
    BY <1>1, <1>6, <1>8, <2>1 DEF ctxUsed, hp, h
<1>13. Begun' = 0 /\ pc' \in {"eval", "tokens"}
  BY <1>1 DEF Begun
<1>14. CacheInv'
  <2>1. Pieces(h \o a) \o Keep(Pieces(d), 0) = Pieces(h \o a)
    BY <1>5, <1>11, NothingBegun
  <2>2. Evaluated' = Pieces(h \o a)
    BY <1>1, <1>13, <2>1 DEF Evaluated
  <2> QED
    BY <1>1, <1>10, <1>13, <2>2 DEF CacheInv
<1>15. /\ total + b \in Nat /\ total + b >= ctxUsed + b
       /\ (erasable => total + b = ctxUsed + b)
  <2>1. total \in Nat /\ total >= ctxUsed /\ (erasable => total = ctxUsed) /\ ctxUsed \in Nat
    BY <1>2, <1>7 DEF ctxUsed, hp, h
  <2>2. total + b \in Nat /\ total + b >= ctxUsed + b
    BY <1>4, <2>1
  <2> QED
    BY <2>1, <2>2
<1>16. pc' = "tokens" => /\ left' \in 1..Len(d) /\ \A i \in 1..left' : d[i] \in Token
                         /\ used' = ctxUsed' /\ used' + left' <= ContextSize
  <2> SUFFICES ASSUME pc' = "tokens"
               PROVE  /\ left' \in 1..Len(d) /\ \A i \in 1..left' : d[i] \in Token
                      /\ used' = ctxUsed' /\ used' + left' <= ContextSize
    OBVIOUS
  <2>1. left' = left - b /\ left' # 0 /\ left <= Len(todo) /\ Len(todo) \in Nat
    BY <1>1, <1>2
  <2>2. left' \in 1..Len(d)
    BY <1>3, <1>4, <1>5, <2>1
  <2>3. \A i \in 1..left' : i \in 1..Len(todo) - b /\ b + i \in 1..left
    BY <1>3, <1>4, <2>1
  <2>4. \A i \in 1..left' : d[i] \in Token
    BY <1>2, <1>5, <2>3
  <2>5. used' = ctxUsed'
    BY <1>1, <1>2, <1>12
  <2>6. used' + left' <= ContextSize
    BY <1>1, <1>2, <1>4, Sizes
  <2> QED
    BY <2>2, <2>4, <2>5, <2>6
<1>17. EvalInv'
  BY <1>1, <1>2, <1>3, <1>4, <1>5, <1>11, <1>12, <1>13, <1>15, <1>16 DEF EvalInv
<1> QED
  BY <1>14, <1>17 DEF IInv

\* eval_image, one batch: the atom goes over after the last one.
LEMMA ImageKeeps == ASSUME IInv, DecodeImage, UNCHANGED erasable PROVE IInv'
<1> DEFINE b == BatchSize
           n == Begun
           x == todo[1]
           d == Tail(todo)
           xp == PiecesIn(x)
<1>1. /\ pc = "image" /\ cells' = cells \cup NewCells
      /\ left' = left - b /\ used' = used + b
      /\ left' = 0 => /\ history' = Append(history, x) /\ todo' = d
                      /\ total' = total + ImageSize /\ pc' = "eval"
      /\ left' # 0 => /\ history' = history /\ todo' = todo
                      /\ total' = total /\ pc' = "image"
      /\ prompt' = prompt /\ erasable' = erasable
  BY DEF DecodeImage
<1>2. /\ history \in Seq(Atom) /\ todo \in Seq(Atom) /\ total \in Nat
      /\ history \o todo = prompt /\ prompt \in Seq(Atom)
      /\ total >= ctxUsed /\ (erasable => total = ctxUsed)
      /\ todo # <<>> /\ x \in Image /\ left \in 1..ImageSize
      /\ used = ctxUsed + n /\ used + left <= ContextSize /\ used \in 0..ContextSize
      /\ erasable \in BOOLEAN
  BY <1>1 DEF IInv, EvalInv
<1>3. /\ b \in 1..left /\ used + b \in 0..ContextSize /\ n = ImageSize - left
      /\ left \in 0..ContextSize /\ ctxUsed \in Nat
  BY <1>1, Batches, EvaluatedType DEF IInv, EvalInv, Begun
<1>4. /\ Pieces(todo) = xp \o Pieces(d) /\ x \in Atom /\ d \in Seq(Atom)
      /\ xp \in Seq(Piece) /\ Len(xp) = ImageSize /\ Pieces(d) \in Seq(Piece)
  <2>1. /\ Pieces(todo) = xp \o Pieces(d) /\ x \in Atom /\ d \in Seq(Atom)
    BY <1>2, PiecesHead
  <2>2. CtxUsed(x) = ImageSize
    BY <1>2 DEF CtxUsed
  <2> QED
    BY <2>1, <2>2, PiecesInOne, PiecesType
<1>5. CacheHolds(erasable, cells', Pieces(history) \o Keep(Pieces(todo), n + b), FALSE)
  BY <1>1, BatchHolds
<1> HIDE DEF b, n
<1>6. b \in Nat /\ left \in Nat /\ left - b \in 0..ContextSize /\ n \in Nat
  BY <1>2, <1>3, Sizes
<1>7. CASE left' = 0
  <2>1. n + b = ImageSize
    BY <1>1, <1>2, <1>3, <1>6, <1>7, Sizes
  <2>2. Keep(Pieces(todo), n + b) = xp
    <3> HIDE DEF xp
    <3>1. Keep(xp \o Pieces(d), Len(xp)) = xp
      BY <1>4, KeepOfConcat
    <3> QED
      BY <1>4, <2>1, <3>1
  <2> DEFINE hx == Append(history, x)
  <2>3. Pieces(hx) = Pieces(history) \o xp /\ hx \in Seq(Atom)
    BY <1>2, <1>4, PiecesAppend, AppendProperties
  <2>4. hx \o d = prompt
    <3> DEFINE one == <<x>>
    <3>1. one \in Seq(Atom) /\ hx = history \o one
      <4>1. history \in Seq(Atom) /\ x \in Atom
        BY <1>2, <1>4
      <4> HIDE DEF x
      <4> QED
        BY <4>1, AppendIsConcat
    <3>2. todo = one \o d
      BY <1>2, FirstAndRest
    <3> HIDE DEF one, hx, d
    <3>3. (history \o one) \o d = history \o (one \o d)
      <4>1. history \in Seq(Atom) /\ one \in Seq(Atom) /\ d \in Seq(Atom)
        BY <1>2, <1>4, <3>1
      <4> QED
        <5>1. Associative(Atom)
          BY IsAssociative
        <5> QED
          BY <4>1, <5>1, ZenonT(40) DEF Associative
    <3> QED
      BY <1>2, <3>1, <3>2, <3>3
  <2>5. Len(Pieces(hx)) = ctxUsed + ImageSize
    <3>1. Pieces(history) \in Seq(Piece)
      BY <1>2, PiecesType
    <3> HIDE DEF xp, hx
    <3>2. Len(Pieces(history) \o xp) = Len(Pieces(history)) + Len(xp)
      BY <1>4, <3>1, ConcatLength
    <3> QED
      BY <1>4, <2>3, <3>2 DEF ctxUsed
  <2> HIDE DEF hx
  <2>6. /\ history' = hx /\ todo' = d /\ total' = total + ImageSize /\ pc' = "eval"
    BY <1>1, <1>7 DEF hx
  <2>7. ctxUsed' = ctxUsed + ImageSize /\ Begun' = 0
    BY <2>5, <2>6 DEF ctxUsed, Begun
  <2>8. /\ total + ImageSize \in Nat /\ total + ImageSize >= ctxUsed + ImageSize
        /\ (erasable => total + ImageSize = ctxUsed + ImageSize)
    BY <1>2, <1>3, Sizes
  <2> HIDE DEF d
  <2>9. EvalInv'
    <3>1. /\ erasable' = erasable /\ erasable \in BOOLEAN /\ prompt' = prompt
          /\ prompt \in Seq(Atom) /\ left' \in 0..ContextSize /\ used' \in 0..ContextSize
      BY <1>1, <1>2, <1>3, <1>6
    <3>2. total' \in Nat /\ total' >= ctxUsed' /\ (erasable' => total' = ctxUsed')
      BY <2>6, <2>7, <2>8, <3>1
    <3> QED
      BY <1>4, <2>3, <2>4, <2>6, <3>1, <3>2 DEF EvalInv
  <2>10. CacheInv'
    <3>1. Pieces(hx) \o Keep(Pieces(d), 0) = Pieces(hx)
      BY <1>4, <2>3, NothingBegun
    <3>2. Evaluated' = Pieces(hx)
      BY <2>6, <2>7, <3>1 DEF Evaluated
    <3>3. CacheHolds(erasable, cells', Pieces(hx), FALSE)
      BY <1>5, <2>2, <2>3
    <3> QED
      BY <1>1, <2>6, <3>2, <3>3 DEF CacheInv
  <2> QED
    BY <2>9, <2>10 DEF IInv
<1>8. CASE left' # 0
  <2>1. history' = history /\ todo' = todo /\ total' = total /\ pc' = "image"
    BY <1>1, <1>8
  <2>2. ctxUsed' = ctxUsed
    BY <2>1 DEF ctxUsed
  <2>3. Begun' = n + b /\ left' \in 1..ImageSize
    <3>1. Begun' = ImageSize - left'
      BY <2>1 DEF Begun
    <3> QED
      BY <1>1, <1>2, <1>3, <1>6, <1>8, <3>1, Sizes
  <2>4. used' = ctxUsed' + Begun' /\ used' + left' <= ContextSize
    BY <1>1, <1>2, <1>3, <1>6, <2>2, <2>3, Sizes
  <2>5. EvalInv'
    <3>1. /\ erasable' = erasable /\ erasable \in BOOLEAN /\ prompt' = prompt
          /\ prompt \in Seq(Atom) /\ left' \in 0..ContextSize /\ used' \in 0..ContextSize
          /\ history \in Seq(Atom) /\ todo \in Seq(Atom) /\ todo # <<>> /\ todo[1] \in Image
          /\ history \o todo = prompt
      BY <1>1, <1>2, <1>3, <1>6
    <3>2. total' \in Nat /\ total' >= ctxUsed' /\ (erasable' => total' = ctxUsed')
      BY <1>2, <2>1, <2>2, <3>1
    <3> QED
      BY <2>1, <2>3, <2>4, <3>1, <3>2 DEF EvalInv
  <2>6. CacheInv'
    <3>1. Evaluated' = Pieces(history) \o Keep(Pieces(todo), n + b)
      BY <2>1, <2>3 DEF Evaluated
    <3> QED
      BY <1>1, <1>5, <2>1, <3>1 DEF CacheInv
  <2> QED
    BY <2>5, <2>6 DEF IInv
<1> QED
  BY <1>7, <1>8

LEMMA CellsFirst ==
    ASSUME NEW s, Len(s) \in Nat \ {0}, NEW n \in Nat
    PROVE  <<n, s[1]>> \in CellsAt(n, s)
<1>1. 1 \in 1..Len(s) /\ n + 1 - 1 = n
  OBVIOUS
<1> QED
  BY <1>1 DEF CellsAt

\* llama_kv_cache_seq_rm of all that is beyond what is kept.
LEMMA KeptHolds ==
    ASSUME NEW h \in Seq(Atom), NEW k \in 0..Len(h),
           CacheHolds(erasable, cells, Pieces(h), TRUE)
    PROVE  CacheHolds(erasable, Below(Len(Pieces(Keep(h, k)))), Pieces(Keep(h, k)), FALSE)
<1> DEFINE a == Pieces(Keep(h, k))
           b == Pieces(Drop(h, k))
           p == Pieces(h)
           ca == CellsAt(0, a)
           cb == CellsAt(Len(a), b)
           cp == CellsAt(0, p)
<1>1. p = a \o b /\ a \in Seq(Piece) /\ b \in Seq(Piece)
  BY PiecesSplit, KeepIs, DropIs, PiecesType
<1>2. /\ cp \subseteq cells /\ cells \subseteq (0..(ContextSize - 1)) \X Piece
      /\ ~erasable => {c \in cells : c[1] < Len(p)} = cp
  BY DEF CacheHolds
<1> HIDE DEF a, b, p
<1>3. cp = ca \cup cb
  BY <1>1, CellsOfTwo
<1>4. /\ \A c \in ca : c \in Nat \X Piece /\ c[1] < 0 + Len(a)
      /\ \A c \in cb : c \in Nat \X Piece /\ Len(a) <= c[1]
  BY <1>1, CellsWithin
<1>5. Len(p) = Len(a) + Len(b) /\ Len(a) \in Nat /\ Len(b) \in Nat
  BY <1>1, ConcatLength
<1> HIDE DEF ca, cb, cp
<1>6. /\ \A c \in ca : c[1] < Len(a)
      /\ \A c \in cb : ~(c[1] < Len(a))
  <2>1. /\ \A c \in ca : c[1] \in Nat
        /\ \A c \in cb : c[1] \in Nat
    BY <1>4
  <2> QED
    BY <1>4, <1>5, <2>1
<1>7. \A c \in cells : c[1] \in Nat /\ (c[1] < Len(a) => c[1] < Len(p))
  <2>1. \A c \in cells : c[1] \in 0..(ContextSize - 1)
    BY <1>2
  <2>2. \A c \in cells : c[1] \in Nat
    BY <2>1, Sizes
  <2> QED
    BY <1>5, <2>2
<1> DEFINE n == Len(a)
           set == Below(n)
<1>8. set = {c \in cells : c[1] < n}
  BY DEF Below
<1> HIDE DEF set, n
<1>9. ca \subseteq set /\ set \subseteq cells
  BY <1>2, <1>3, <1>6, <1>8 DEF n
<1>10. ASSUME ~erasable, NEW c \in set PROVE c \in ca
  <2>1. c \in cells /\ c[1] < n /\ c[1] < Len(p)
    BY <1>7, <1>8 DEF n
  <2>2. c \in cp
    BY <1>2, <1>10, <2>1
  <2> QED
    BY <1>3, <1>6, <2>1, <2>2 DEF n
<1> QED
  BY <1>2, <1>9, <1>10 DEF CacheHolds, ca, set, n, a

Size(s) == Len(Pieces(s))

MovedCells(kept, from, to) ==
    Below(kept) \cup Shifted(From(from) \ From(to), from - kept) \cup From(to)

\* An end of the history is moved to where the common prefix ends.
LEMMA MovedHolds ==
    ASSUME NEW h \in Seq(Atom), NEW p1 \in 0..Len(h), NEW p0 \in 0..p1, p0 < Len(h),
           NEW k \in 0..p0, k < p0, CacheHolds(erasable, cells, Pieces(h), TRUE),
           ~RemoveFails(Size(Keep(h, k)), Size(Keep(h, p0)))
    PROVE  /\ CacheHolds(erasable,
                         MovedCells(Size(Keep(h, k)), Size(Keep(h, p0)), Size(Keep(h, p1))),
                         Pieces(Keep(h, k) \o Part(h, p0, p1)), FALSE)
           /\ Size(Keep(h, k) \o Part(h, p0, p1)) =
                  Size(Keep(h, k)) + (Size(Keep(h, p1)) - Size(Keep(h, p0)))
           /\ Size(Keep(h, k)) \in Nat /\ Size(Keep(h, p1)) - Size(Keep(h, p0)) \in Nat
<1> DEFINE kept == Size(Keep(h, k))
           from == Size(Keep(h, p0))
           to == Size(Keep(h, p1))
<1>1. k \in 0..Len(h) /\ p0 \in 0..Len(h) /\ p1 - p0 \in Nat
  OBVIOUS
<1> DEFINE sa == Keep(h, k)
           sm == Part(h, k, p0)
           sb == Keep(h, p0)
           sr == Part(h, p0, p1)
           sc == Keep(h, p1)
           sz == Drop(h, p1)
           sd == Drop(h, p0)
<1>2. /\ sa \in Seq(Atom) /\ sm \in Seq(Atom) /\ sb \in Seq(Atom) /\ sr \in Seq(Atom)
      /\ sc \in Seq(Atom) /\ sz \in Seq(Atom) /\ sd \in Seq(Atom)
      /\ Len(sm) = p0 - k /\ Len(sd) = Len(h) - p0
  BY <1>1, KeepIs, DropIs, PartIs
<1>3. sb = sa \o sm /\ sc = sb \o sr /\ h = sc \o sz /\ h = sb \o sd
  BY <1>1, KeepMore, KeepDrop
<1>4. sm # <<>> /\ sd # <<>>
  <2>1. Len(sm) # 0 /\ Len(sd) # 0 /\ Len(<<>>) = 0
    BY <1>1, <1>2
  <2> QED
    BY <2>1, Zenon
<1> HIDE DEF sa, sm, sb, sr, sc, sz, sd
<1> DEFINE a == Pieces(sa)
           m == Pieces(sm)
           b == Pieces(sb)
           r == Pieces(sr)
           c == Pieces(sc)
           z == Pieces(sz)
           d == Pieces(sd)
           p == Pieces(h)
<1>5. /\ a \in Seq(Piece) /\ m \in Seq(Piece) /\ b \in Seq(Piece) /\ r \in Seq(Piece)
      /\ c \in Seq(Piece) /\ z \in Seq(Piece) /\ d \in Seq(Piece) /\ p \in Seq(Piece)
  BY <1>2, PiecesType
<1>6. /\ b = a \o m /\ c = b \o r /\ p = c \o z /\ p = b \o d /\ Pieces(sa \o sr) = a \o r
  <2>1. Pieces(sa \o sm) = a \o m /\ Pieces(sa \o sr) = a \o r
    BY <1>2, PiecesConcat
  <2>2. Pieces(sb \o sr) = b \o r
    BY <1>2, PiecesConcat
  <2>3. Pieces(sc \o sz) = c \o z
    BY <1>2, PiecesConcat
  <2>4. Pieces(sb \o sd) = b \o d
    BY <1>2, PiecesConcat
  <2> HIDE DEF a, m, r, z, d
  <2> QED
    BY <1>3, <2>1, <2>2, <2>3, <2>4
<1>7. Len(m) \in Nat \ {0} /\ Len(d) \in Nat \ {0}
  BY <1>2, <1>4, PiecesNotEmpty
<1>8. kept = Len(a) /\ from = Len(b) /\ to = Len(c)
  BY DEF a, b, c, sa, sb, sc, Size
<1> HIDE DEF kept, from, to
<1> HIDE DEF a, m, b, r, c, z, d, p
<1>9. /\ kept \in Nat /\ from = kept + Len(m) /\ to = from + Len(r) /\ Len(r) \in Nat
      /\ from \in Nat /\ to \in Nat /\ Len(a \o r) = kept + Len(r)
  BY <1>5, <1>6, <1>7, <1>8, ConcatLength
<1>10. kept \in 0..from /\ to - from = Len(r) /\ 0 \in Nat /\ 0 + kept = kept
       /\ 0 + from = from /\ 0 + to = to
  BY <1>7, <1>9
<1> DEFINE A == CellsAt(0, a)
           M == CellsAt(kept, m)
           R == CellsAt(from, r)
           D == CellsAt(from, d)
           Z == CellsAt(to, z)
           P == CellsAt(0, p)
<1>11. P = (A \cup M \cup R) \cup Z /\ P = (A \cup M) \cup D
  <2>1. CellsAt(0, a \o m) = CellsAt(0, a) \cup CellsAt(Len(a), m)
    BY <1>5, CellsOfTwo
  <2>2. CellsAt(0, b \o r) = CellsAt(0, b) \cup CellsAt(Len(b), r)
    BY <1>5, CellsOfTwo
  <2>3. CellsAt(0, c \o z) = CellsAt(0, c) \cup CellsAt(Len(c), z)
    BY <1>5, CellsOfTwo
  <2>4. CellsAt(0, b \o d) = CellsAt(0, b) \cup CellsAt(Len(b), d)
    BY <1>5, CellsOfTwo
  <2>5. /\ CellsAt(0, b) = A \cup M /\ CellsAt(0, c) = CellsAt(0, b) \cup R
        /\ P = CellsAt(0, c) \cup Z /\ P = CellsAt(0, b) \cup D
    BY <1>6, <1>8, <2>1, <2>2, <2>3, <2>4
  <2> HIDE DEF A, M, R, D, Z, P
  <2> QED
    BY <2>5
<1>12. CellsAt(0, a \o r) = A \cup CellsAt(kept, r)
  BY <1>5, <1>8, CellsOfTwo
<1>13. Shifted(R, from - kept) = CellsAt(kept, r)
  BY <1>5, <1>9, <1>10, CellsShifted
<1>14. /\ \A x \in A : x \in Nat \X Piece /\ x[1] < 0 + Len(a)
       /\ \A x \in R : x \in Nat \X Piece /\ from <= x[1] /\ x[1] < from + Len(r)
  BY <1>5, <1>9, <1>10, CellsWithin
<1>15. <<kept, m[1]>> \in M /\ <<from, d[1]>> \in D
  BY <1>7, <1>9, CellsFirst
<1>16. P \subseteq cells /\ cells \subseteq (0..(ContextSize - 1)) \X Piece
  BY DEF CacheHolds, p
<1> HIDE DEF A, M, R, D, Z, P
<1>17. erasable
  <2> SUFFICES ASSUME ~erasable PROVE RemoveFails(kept, from)
    BY DEF kept, from
  <2> DEFINE x == <<kept, m[1]>>
             y == <<from, d[1]>>
  <2>1. x \in cells /\ y \in cells /\ x[1] = kept /\ y[1] = from
    BY <1>11, <1>15, <1>16
  <2> HIDE DEF x, y
  <2>2. kept < from /\ ~(kept < kept) /\ from >= from
    BY <1>7, <1>9
  <2>3. x \in Below(from) /\ ~(x \in Below(kept))
    BY <2>1, <2>2 DEF Below
  <2>4. y \in From(from)
    BY <2>1, <2>2 DEF From
  <2> QED
    BY <2>3, <2>4 DEF RemoveFails
<1> DEFINE moving == From(from) \ From(to)
           moved == Shifted(moving, from - kept)
           set == Below(kept) \cup moved \cup From(to)
<1>18. A \subseteq Below(kept)
  <2>1. ASSUME NEW x \in A PROVE x[1] < kept
    BY <1>8, <1>10, <1>14
  <2> QED
    BY <1>11, <1>16, <2>1 DEF Below
<1>19. R \subseteq moving
  <2>1. ASSUME NEW x \in R PROVE x[1] >= from /\ ~(x[1] >= to)
    <3>1. x[1] \in Nat /\ from <= x[1] /\ x[1] < to
      BY <1>9, <1>14
    <3> QED
      BY <1>9, <3>1
  <2> QED
    BY <1>11, <1>16, <2>1 DEF From
<1>20. CellsAt(kept, r) \subseteq moved
  <2> HIDE DEF moving
  <2>1. Shifted(R, from - kept) \subseteq moved
    BY <1>19 DEF Shifted
  <2> QED
    BY <1>13, <2>1
<1>21. moved \subseteq (0..(ContextSize - 1)) \X Piece
  <2> SUFFICES ASSUME NEW y \in moved PROVE y \in (0..(ContextSize - 1)) \X Piece
    OBVIOUS
  <2>1. PICK x \in moving : y = <<x[1] - (from - kept), x[2]>>
    BY DEF Shifted
  <2>2. x \in (0..(ContextSize - 1)) \X Piece /\ x[1] >= from
    BY <1>16 DEF From
  <2>3. x[1] \in 0..(ContextSize - 1) /\ x[2] \in Piece
    BY <2>2
  <2> DEFINE n == x[1]
  <2>4. /\ n \in Nat /\ n >= from /\ n <= ContextSize - 1 /\ ContextSize \in Nat
        /\ from \in Nat /\ kept \in Nat /\ kept <= from
    BY <1>9, <1>10, <2>2, <2>3, Sizes
  <2> HIDE DEF n
  <2>5. n - (from - kept) \in 0..(ContextSize - 1)
    BY <2>4
  <2> HIDE DEF moving
  <2> QED
    BY <2>1, <2>3, <2>5 DEF n
<1>22. Below(kept) \subseteq cells /\ From(to) \subseteq cells
  BY DEF Below, From
<1> HIDE DEF moved
<1>23. CacheHolds(erasable, set, a \o r, FALSE)
  BY <1>12, <1>16, <1>17, <1>18, <1>20, <1>21, <1>22 DEF CacheHolds
<1> HIDE DEF set
<1>24. CacheHolds(erasable, set, Pieces(sa \o sr), FALSE)
  BY <1>6, <1>23
<1>25. Size(sa \o sr) = kept + (to - from)
  BY <1>6, <1>9, <1>10 DEF Size
<1>26. set = MovedCells(kept, from, to)
  BY DEF MovedCells, set, moved, moving
<1> QED
  BY <1>9, <1>10, <1>24, <1>25, <1>26 DEF sa, sr, kept, from, to

\* prefill has kept g, the beginning of the prompt.
LEMMA PrefillEnds ==
    ASSUME IInv, NEW p \in Seq(Atom), NEW k \in 0..Len(p),
           history' = Keep(p, k), todo' = Drop(p, k), prompt' = p, pc' = "eval",
           left' = left, used' = used, erasable' = erasable,
           total' \in Nat, total' >= Len(Pieces(Keep(p, k))),
           erasable => total' = Len(Pieces(Keep(p, k))),
           CacheHolds(erasable, cells', Pieces(Keep(p, k)), FALSE)
    PROVE  IInv'
<1> DEFINE g == Keep(p, k)
           d == Drop(p, k)
<1>1. g \in Seq(Atom) /\ d \in Seq(Atom) /\ g \o d = p
  BY KeepIs, DropIs, KeepDrop
<1>2. left \in 0..ContextSize /\ used \in 0..ContextSize /\ erasable \in BOOLEAN
  BY DEF IInv, EvalInv
<1> HIDE DEF g, d
<1>3. history' = g /\ todo' = d /\ ctxUsed' = Len(Pieces(g)) /\ Begun' = 0
  BY DEF g, d, ctxUsed, Begun
<1>4. total' \in Nat /\ total' >= ctxUsed' /\ (erasable => total' = ctxUsed')
  BY <1>3 DEF g
<1>5. EvalInv'
  BY <1>1, <1>2, <1>3, <1>4 DEF EvalInv
<1>6. Evaluated' = Pieces(g)
  <2>1. Pieces(g) \o Keep(Pieces(d), 0) = Pieces(g)
    BY <1>1, NothingBegun
  <2> QED
    BY <1>3, <2>1 DEF Evaluated
<1>7. CacheInv'
  BY <1>6 DEF CacheInv, g
<1> QED
  BY <1>5, <1>7 DEF IInv

LEMMA PromptsAre == ASSUME NEW p \in Prompts PROVE p \in Seq(Atom)
<1>1. p \in UNION {[1..m -> Atom] : m \in 0..MaxPrompt} /\ MaxPrompt \in Nat
  BY CacheAssumption DEF Prompts, BoundedSeq, SeqOf
<1>2. PICK m \in 0..MaxPrompt : p \in [1..m -> Atom]
  BY <1>1
<1> QED
  BY <1>1, <1>2

LEMMA PrefillKeeps ==
    ASSUME IInv, NEW p \in Prompts, Prefill(p), UNCHANGED erasable
    PROVE  IInv'
<1> DEFINE h == history
           plan == Plan(p, h)
           kept == Len(Pieces(SubSeq(h, 1, plan.keep)))
           from == Len(Pieces(SubSeq(h, 1, plan.p0)))
           to == Len(Pieces(SubSeq(h, 1, plan.p1)))
           moves == plan.p0 # -1
           end == IF moves THEN from ELSE ContextSize + 1
           refused == RemoveFails(kept, end)
<1>1. /\ pc = "free" /\ p # <<>>
      /\ history' = IF refused THEN <<>>
                    ELSE SubSeq(h, 1, plan.keep) \o
                         (IF moves THEN SubSeq(h, plan.p0 + 1, plan.p1) ELSE <<>>)
      /\ cells' = IF refused THEN AfterRefusal
                  ELSE Below(kept) \cup
                       (IF moves THEN Shifted(From(from) \ From(to), from - kept) \cup From(to)
                                 ELSE {})
      /\ todo' = IF refused THEN p ELSE SubSeq(p, plan.skipped + 1, Len(p))
      /\ total' = kept + IF moves /\ ~refused THEN to - from ELSE 0
      /\ prompt' = p /\ pc' = "eval"
      /\ left' = left /\ used' = used /\ erasable' = erasable
  BY DEF Prefill
<1>2. p \in Seq(Atom) /\ h \in Seq(Atom) /\ erasable \in BOOLEAN
  BY PromptsAre DEF IInv, EvalInv
<1>3. CacheHolds(erasable, cells, Pieces(h), TRUE)
  <2>1. Evaluated = Pieces(h)
    BY <1>1, EvaluatedType DEF IInv
  <2> QED
    BY <1>1, <2>1 DEF IInv, CacheInv
<1>4. PlanRight(plan, p, h)
  BY <1>1, <1>2, PlanIsRight
<1> HIDE DEF plan, h
<1>5. plan.keep \in 0..Len(h) /\ plan.skipped \in 0..Len(p)
  BY <1>4 DEF PlanRight
<1>6. kept = Len(Pieces(Keep(h, plan.keep))) /\ kept \in Nat
  <2>1. Pieces(Keep(h, plan.keep)) \in Seq(Piece)
    BY <1>2, <1>5, KeepIs, PiecesType
  <2> QED
    BY <2>1 DEF Keep
<1> HIDE DEF kept
<1>7. CASE refused
  <2>1. /\ history' = <<>> /\ cells' = {} /\ todo' = p /\ total' = kept + 0
        /\ ~erasable
    BY <1>1, <1>7 DEF AfterRefusal, RemoveFails
  <2>2. /\ 0 \in 0..Len(p) /\ Keep(p, 0) = <<>> /\ Drop(p, 0) = p
    <3>1. Keep(p, 0) \o Drop(p, 0) = p /\ 0 \in 0..Len(p) /\ Keep(p, 0) = <<>>
      BY <1>2, KeepDrop, KeepNone
    <3>2. Drop(p, 0) \in Seq(Atom)
      BY <1>2, <3>1, DropIs
    <3>3. <<>> \o Drop(p, 0) = Drop(p, 0)
      BY <3>2, ConcatEmptySeq
    <3> QED
      BY <3>1, <3>3
  <2>3. total' = kept /\ Len(Pieces(Keep(p, 0))) = 0
    BY <1>6, <2>1, <2>2, PiecesEmpty
  <2>4. CacheHolds(erasable, cells', Pieces(Keep(p, 0)), FALSE)
    <3>1. CellsAt(0, <<>>) = {}
      BY CellsEmpty
    <3> QED
      BY <2>1, <2>2, <3>1, PiecesEmpty DEF CacheHolds
  <2>5. /\ history' = Keep(p, 0) /\ todo' = Drop(p, 0)
        /\ total' \in Nat /\ total' >= Len(Pieces(Keep(p, 0)))
        /\ (erasable => total' = Len(Pieces(Keep(p, 0))))
    BY <1>6, <2>1, <2>2, <2>3
  <2> QED
    BY <1>1, <1>2, <2>2, <2>4, <2>5, PrefillEnds
<1>8. CASE ~refused /\ ~moves
  <2>1. /\ history' = SubSeq(h, 1, plan.keep) \o <<>>
        /\ cells' = Below(kept) \cup {}
        /\ todo' = Drop(p, plan.skipped) /\ total' = kept + 0
    BY <1>1, <1>8 DEF Drop
  <2>2. Keep(h, plan.keep) = Keep(p, plan.skipped) /\ Keep(h, plan.keep) \in Seq(Atom)
    BY <1>2, <1>4, <1>5, <1>8, KeepIs DEF PlanRight
  <2>3. history' = Keep(p, plan.skipped)
    BY <2>1, <2>2, ConcatEmptySeq DEF Keep
  <2>4. CacheHolds(erasable, Below(kept), Pieces(Keep(h, plan.keep)), FALSE)
    BY <1>2, <1>3, <1>5, <1>6, KeptHolds
  <2>5. CacheHolds(erasable, cells', Pieces(Keep(p, plan.skipped)), FALSE)
    BY <2>1, <2>2, <2>4
  <2>6. total' = Len(Pieces(Keep(p, plan.skipped))) /\ total' \in Nat
    BY <1>6, <2>1, <2>2
  <2>7. total' >= Len(Pieces(Keep(p, plan.skipped)))
    BY <2>6
  <2> QED
    BY <1>1, <1>2, <1>5, <2>1, <2>3, <2>5, <2>6, <2>7, PrefillEnds
<1>9. CASE ~refused /\ moves
  <2>1. /\ history' = SubSeq(h, 1, plan.keep) \o SubSeq(h, plan.p0 + 1, plan.p1)
        /\ cells' = Below(kept) \cup (Shifted(From(from) \ From(to), from - kept) \cup From(to))
        /\ todo' = Drop(p, plan.skipped) /\ total' = kept + (to - from)
        /\ ~RemoveFails(kept, from)
    BY <1>1, <1>9 DEF Drop
  <2>2. /\ plan.p0 \in 0..Len(h) /\ plan.keep < plan.p0 /\ plan.p0 < Len(h)
        /\ plan.p1 \in 0..Len(h) /\ plan.p0 <= plan.p1
        /\ Keep(h, plan.keep) \o Part(h, plan.p0, plan.p1) = Keep(p, plan.skipped)
    BY <1>4, <1>9 DEF PlanRight
  <2>3. history' = Keep(p, plan.skipped)
    BY <2>1, <2>2 DEF Keep, Part
  <2>4. from = Len(Pieces(Keep(h, plan.p0))) /\ to = Len(Pieces(Keep(h, plan.p1)))
    BY DEF Keep
  <2> HIDE DEF from, to
  <2>5. plan.p0 \in 0..plan.p1 /\ plan.keep \in 0..plan.p0
    BY <1>5, <2>2
  <2>6. /\ CacheHolds(erasable, MovedCells(kept, from, to),
                      Pieces(Keep(h, plan.keep) \o Part(h, plan.p0, plan.p1)), FALSE)
        /\ Len(Pieces(Keep(h, plan.keep) \o Part(h, plan.p0, plan.p1))) = kept + (to - from)
        /\ kept \in Nat /\ to - from \in Nat
    <3> DEFINE k == plan.keep
               p0 == plan.p0
               p1 == plan.p1
    <3>1. /\ p1 \in 0..Len(h) /\ p0 \in 0..p1 /\ p0 < Len(h) /\ k \in 0..p0 /\ k < p0
          /\ kept = Size(Keep(h, k)) /\ from = Size(Keep(h, p0)) /\ to = Size(Keep(h, p1))
      BY <1>6, <2>2, <2>4, <2>5 DEF Size
    <3>2. ~RemoveFails(Size(Keep(h, k)), Size(Keep(h, p0)))
      BY <2>1, <3>1
    <3> HIDE DEF k, p0, p1
    <3>3. /\ CacheHolds(erasable,
                        MovedCells(Size(Keep(h, k)), Size(Keep(h, p0)), Size(Keep(h, p1))),
                        Pieces(Keep(h, k) \o Part(h, p0, p1)), FALSE)
          /\ Size(Keep(h, k) \o Part(h, p0, p1)) =
                 Size(Keep(h, k)) + (Size(Keep(h, p1)) - Size(Keep(h, p0)))
          /\ Size(Keep(h, k)) \in Nat /\ Size(Keep(h, p1)) - Size(Keep(h, p0)) \in Nat
      BY <1>2, <1>3, <3>1, <3>2, MovedHolds
    <3> QED
      BY <3>1, <3>3 DEF k, p0, p1, Size
  <2>7. cells' = MovedCells(kept, from, to)
    BY <2>1 DEF MovedCells
  <2>8. CacheHolds(erasable, cells', Pieces(Keep(p, plan.skipped)), FALSE)
    BY <2>2, <2>6, <2>7
  <2>9. total' = Len(Pieces(Keep(p, plan.skipped))) /\ total' \in Nat
    <3>1. total' = kept + (to - from) /\ kept + (to - from) \in Nat
      BY <2>1, <2>6
    <3> QED
      BY <2>2, <2>6, <3>1
  <2>10. total' >= Len(Pieces(Keep(p, plan.skipped)))
    BY <2>9
  <2> QED
    BY <1>1, <1>2, <1>5, <2>1, <2>3, <2>8, <2>9, <2>10, PrefillEnds
<1> QED
  BY <1>7, <1>8, <1>9

LEMMA PrefillEmptyKeeps == ASSUME IInv, PrefillEmpty, UNCHANGED erasable PROVE IInv'
<1>1. /\ pc = "free" /\ history' = <<>> /\ cells' = {} /\ pc' = "generate"
      /\ prompt' = prompt /\ todo' = todo /\ left' = left /\ used' = used /\ total' = total
      /\ erasable' = erasable
  BY DEF PrefillEmpty
<1>2. /\ prompt = <<>> /\ todo = <<>> /\ total = 0 /\ left \in 0..ContextSize
      /\ used \in 0..ContextSize /\ erasable \in BOOLEAN
  BY <1>1 DEF IInv, EvalInv
<1>3. <<>> \in Seq(Atom) /\ <<>> \o <<>> = <<>> /\ Len(Pieces(<<>>)) = 0
  BY ConcatEmptySeq, PiecesEmpty
<1>4. ctxUsed' = 0 /\ Begun' = 0
  BY <1>1, <1>3 DEF ctxUsed, Begun
<1>5. EvalInv'
  BY <1>1, <1>2, <1>3, <1>4 DEF EvalInv
<1>6. Evaluated' = <<>>
  <2>1. Pieces(<<>>) \o Keep(Pieces(<<>>), 0) = <<>>
    BY <1>3, NothingBegun, PiecesEmpty
  <2> QED
    BY <1>1, <1>2, <1>4, <2>1 DEF Evaluated
<1>7. CacheInv'
  <2>1. CellsAt(0, <<>>) = {}
    BY CellsEmpty
  <2> QED
    BY <1>1, <1>6, <2>1 DEF CacheInv, CacheHolds
<1> QED
  BY <1>5, <1>7 DEF IInv

LEMMA RunLengthIs ==
    ASSUME todo \in Seq(Atom)
    PROVE  RunLength \in 0..Len(todo) /\ \A i \in 1..RunLength : todo[i] \in Token
<1> DEFINE heads == {n \in 0..Len(todo) : \A i \in 1..n : todo[i] \in Token}
<1>1. Len(todo) \in Nat /\ heads \in SUBSET (0..Len(todo)) /\ 0 \in heads
  OBVIOUS
<1>2. RunLength = CHOOSE n \in heads : \A m \in heads : m <= n
  BY DEF RunLength
<1>3. \E n \in heads : \A m \in heads : m <= n
  <2> HIDE DEF heads
  <2>1. Max(heads) \in heads /\ \A m \in heads : m <= Max(heads)
    BY <1>1, MaxIsGreatest
  <2> QED
    BY <2>1
<1>4. RunLength \in heads
  <2> HIDE DEF heads
  <2> QED
    BY <1>2, <1>3
<1> QED
  BY <1>4

\* From one stage of the evaluation to the next, with nothing evaluated.
LEMMA BeginKeeps ==
    ASSUME IInv, EvalBegin("tokens", RunLength) \/ EvalBegin("image", ImageSize),
           UNCHANGED erasable
    PROVE  IInv'
<1>1. PICK n \in {RunLength, ImageSize}, what \in {"tokens", "image"} :
          /\ EvalBegin(what, n)
          /\ what = "tokens" => n = RunLength
          /\ what = "image" => n = ImageSize
  OBVIOUS
<1>2. /\ pc = "eval" /\ todo # <<>> /\ ctxUsed + n <= ContextSize
      /\ what = "tokens" => n > 0
      /\ what = "image" => todo[1] \in Image
      /\ pc' = what /\ left' = n /\ used' = ctxUsed
      /\ history' = history /\ cells' = cells /\ prompt' = prompt /\ todo' = todo
      /\ total' = total /\ erasable' = erasable
  BY <1>1 DEF EvalBegin
<1>3. /\ history \in Seq(Atom) /\ prompt \in Seq(Atom) /\ todo \in Seq(Atom)
      /\ total \in Nat /\ erasable \in BOOLEAN
      /\ history \o todo = prompt /\ total >= ctxUsed /\ (erasable => total = ctxUsed)
  BY <1>2 DEF IInv, EvalInv
<1>4. ctxUsed \in Nat /\ Evaluated = Pieces(history)
  BY <1>2, EvaluatedType DEF IInv
<1>5. n \in Nat
  BY <1>3, RunLengthIs, Sizes
<1>6. left' \in 0..ContextSize /\ used' \in 0..ContextSize
  BY <1>2, <1>4, <1>5, Sizes
<1>7. what = "tokens" => left' \in 1..Len(todo) /\ \A i \in 1..left' : todo[i] \in Token
  <2> SUFFICES ASSUME what = "tokens"
               PROVE  left' \in 1..Len(todo) /\ \A i \in 1..left' : todo[i] \in Token
    OBVIOUS
  <2>1. n \in 0..Len(todo) /\ (\A i \in 1..n : todo[i] \in Token) /\ n > 0
    BY <1>1, <1>2, <1>3, RunLengthIs
  <2> QED
    BY <1>2, <2>1
<1>8. what = "image" => left' = ImageSize /\ left' \in 1..ImageSize
  BY <1>1, <1>2, Sizes
<1>9. Begun' = 0
  BY <1>2, <1>8, Sizes DEF Begun
<1>10. ctxUsed' = ctxUsed
  BY <1>2 DEF ctxUsed
<1>11. used' = ctxUsed' /\ used' = ctxUsed' + Begun' /\ used' + left' <= ContextSize
  BY <1>2, <1>4, <1>5, <1>9, <1>10
<1>12. EvalInv'
  <2>1. /\ total' >= ctxUsed' /\ (erasable' => total' = ctxUsed') /\ total' \in Nat
        /\ history' \o todo' = prompt'
    BY <1>2, <1>3, <1>10
  <2> QED
    BY <1>2, <1>3, <1>6, <1>7, <1>8, <1>11, <2>1 DEF EvalInv
<1>13. CacheInv'
  <2>1. Pieces(history) \o Keep(Pieces(todo), 0) = Pieces(history)
    BY <1>3, NothingBegun
  <2>2. Evaluated' = Evaluated
    BY <1>2, <1>4, <1>9, <2>1 DEF Evaluated
  <2> QED
    BY <1>2, <2>2 DEF IInv, CacheInv
<1> QED
  BY <1>12, <1>13 DEF IInv

LEMMA ReturnKeeps == ASSUME IInv, PrefillReturns, UNCHANGED erasable PROVE IInv'
<1>1. /\ pc = "eval" /\ todo = <<>> /\ pc' = "generate"
      /\ history' = history /\ cells' = cells /\ prompt' = prompt /\ todo' = todo
      /\ left' = left /\ used' = used /\ total' = total /\ erasable' = erasable
  BY DEF PrefillReturns
<1>2. ctxUsed' = ctxUsed /\ Begun' = Begun /\ Evaluated' = Evaluated
  BY <1>1 DEF ctxUsed, Begun, Evaluated
<1>3. EvalInv'
  BY <1>1, <1>2 DEF IInv, EvalInv
<1>4. CacheInv'
  BY <1>1, <1>2 DEF IInv, CacheInv
<1> QED
  BY <1>3, <1>4 DEF IInv

\* The cell of a generated token.
LEMMA TokenHolds ==
    ASSUME IInv, pc \in {"generate", "generating"}, NEW t \in Token,
           ctxUsed + 1 <= ContextSize,
           cells' = cells \cup {<<ctxUsed, <<t, 1>>>>}
    PROVE  /\ CacheHolds(erasable, cells', Pieces(history) \o PiecesIn(t), FALSE)
           /\ PiecesIn(t) \in Seq(Piece) /\ t \in Atom
<1> DEFINE h == Pieces(history)
           f == PiecesIn(t)
<1>1. t \in Atom /\ CtxUsed(t) = 1
  BY Sizes DEF CtxUsed, Atom
<1>2. f \in Seq(Piece) /\ Len(f) = 1 /\ f[1] = <<t, 1>>
  <2>1. 1 \in 1..CtxUsed(t)
    BY <1>1
  <2> QED
    BY <1>1, <2>1, PiecesInOne
<1>3. h \in Seq(Piece) /\ ctxUsed = Len(h) /\ Evaluated = h
  BY EvaluatedType DEF IInv, ctxUsed
<1>4. CacheHolds(erasable, cells, h, FALSE)
  BY <1>3 DEF IInv, CacheInv
<1> HIDE DEF h, f
<1>5. CellsAt(Len(h), f) = {<<ctxUsed, <<t, 1>>>>}
  <2>1. Len(h) \in Nat /\ Len(h) + 1 - 1 = Len(h) /\ 1..Len(f) = {1}
    BY <1>2, <1>3
  <2> QED
    BY <1>2, <1>3, <2>1 DEF CellsAt
<1>6. CacheHolds(erasable, cells \cup CellsAt(Len(h), f), h \o f, FALSE)
  BY <1>2, <1>3, <1>4, HoldsMore
<1>7. CacheHolds(erasable, cells', h \o f, FALSE)
  BY <1>5, <1>6
<1> QED
  BY <1>1, <1>2, <1>7 DEF h, f

LEMMA GenerateKeeps ==
    ASSUME IInv, NEW t \in Token, Generate(t) \/ GenerateCancelled(t), UNCHANGED erasable
    PROVE  IInv'
<1>1. CASE GenerateCancelled(t)
  <2>1. /\ pc \in {"generate", "generating"} /\ ctxUsed + 1 <= ContextSize
        /\ cells' = cells \cup {<<ctxUsed, <<t, 1>>>>}
        /\ Done /\ UNCHANGED <<history, erasable>>
    BY <1>1 DEF GenerateCancelled
  <2>2. /\ CacheHolds(erasable, cells', Pieces(history) \o PiecesIn(t), FALSE)
        /\ PiecesIn(t) \in Seq(Piece)
    BY <2>1, TokenHolds
  <2> QED
    BY <2>1, <2>2, DoneHolds DEF IInv
<1>2. CASE Generate(t)
  <2>1. /\ pc \in {"generate", "generating"} /\ ctxUsed + 1 <= ContextSize
        /\ cells' = cells \cup {<<ctxUsed, <<t, 1>>>>}
        /\ history' = Append(history, t) /\ pc' = "generating"
        /\ prompt' = prompt /\ todo' = todo /\ left' = left /\ used' = used
        /\ total' = total /\ erasable' = erasable
    BY <1>2 DEF Generate
  <2>2. /\ CacheHolds(erasable, cells', Pieces(history) \o PiecesIn(t), FALSE)
        /\ PiecesIn(t) \in Seq(Piece) /\ t \in Atom
    BY <2>1, TokenHolds
  <2> DEFINE ht == Append(history, t)
  <2>3. /\ history \in Seq(Atom) /\ todo \in Seq(Atom) /\ prompt \in Seq(Atom)
        /\ left \in 0..ContextSize /\ used \in 0..ContextSize /\ total \in Nat
        /\ erasable \in BOOLEAN
    BY DEF IInv, EvalInv
  <2>4. ht \in Seq(Atom) /\ Pieces(ht) = Pieces(history) \o PiecesIn(t)
    BY <2>2, <2>3, PiecesAppend, AppendProperties
  <2> HIDE DEF ht
  <2>5. history' = ht
    BY <2>1 DEF ht
  <2>6. EvalInv'
    BY <2>1, <2>3, <2>4, <2>5 DEF EvalInv
  <2>7. CacheInv'
    <3>1. Begun' = 0
      BY <2>1 DEF Begun
    <3>2. Pieces(ht) \o Keep(Pieces(todo), 0) = Pieces(ht)
      BY <2>3, <2>4, NothingBegun
    <3>3. Evaluated' = Pieces(ht)
      BY <2>1, <2>5, <3>1, <3>2 DEF Evaluated
    <3> QED
      BY <2>1, <2>2, <2>4, <3>3 DEF CacheInv
  <2> QED
    BY <2>6, <2>7 DEF IInv
<1> QED
  BY <1>1, <1>2

LEMMA InitIInv == Init => IInv
<1> SUFFICES ASSUME Init PROVE IInv
  OBVIOUS
<1>1. /\ erasable \in BOOLEAN /\ history = <<>> /\ cells = {} /\ pc = "free"
      /\ prompt = <<>> /\ todo = <<>> /\ left = 0 /\ used = 0 /\ total = 0
  BY DEF Init
<1>2. <<>> \in Seq(Atom) /\ 0 \in 0..ContextSize /\ 0 \in Nat
  BY Sizes
<1>3. EvalInv
  BY <1>1, <1>2 DEF EvalInv
<1>4. Evaluated = <<>>
  BY <1>1, <1>3, EvaluatedType, PiecesEmpty
<1>5. CacheInv
  <2>1. CellsAt(0, <<>>) = {}
    BY CellsEmpty
  <2> QED
    BY <1>1, <1>4, <2>1 DEF CacheInv, CacheHolds
<1> QED
  BY <1>3, <1>5 DEF IInv

LEMMA NextIInv == IInv /\ [Next]_vars => IInv'
<1> SUFFICES ASSUME IInv, [Next]_vars PROVE IInv'
  OBVIOUS
<1>1. CASE UNCHANGED vars
  <2>1. /\ erasable' = erasable /\ history' = history /\ cells' = cells /\ pc' = pc
        /\ prompt' = prompt /\ todo' = todo /\ left' = left /\ used' = used /\ total' = total
    BY <1>1 DEF vars
  <2>2. ctxUsed' = ctxUsed /\ Begun' = Begun /\ Evaluated' = Evaluated
    BY <2>1 DEF ctxUsed, Begun, Evaluated
  <2>3. EvalInv'
    BY <2>1, <2>2 DEF IInv, EvalInv
  <2>4. CacheInv'
    BY <2>1, <2>2 DEF IInv, CacheInv
  <2> QED
    BY <2>3, <2>4 DEF IInv
<1>2. ASSUME UNCHANGED erasable, PrefillEmpty PROVE IInv'
  BY <1>2, PrefillEmptyKeeps
<1>3. ASSUME UNCHANGED erasable, NEW p \in Prompts, Prefill(p) PROVE IInv'
  BY <1>3, PrefillKeeps
<1>4. ASSUME UNCHANGED erasable, EvalBegin("tokens", RunLength) \/ EvalBegin("image", ImageSize)
      PROVE  IInv'
  BY <1>4, BeginKeeps
<1>5. ASSUME UNCHANGED erasable, EvalRefused \/ DecodeFails \/ GiveBack PROVE IInv'
  BY <1>5, EndKeeps
<1>6. ASSUME UNCHANGED erasable, PrefillReturns PROVE IInv'
  BY <1>6, ReturnKeeps
<1>7. ASSUME UNCHANGED erasable, DecodeTokens PROVE IInv'
  BY <1>7, TokensKeep
<1>8. ASSUME UNCHANGED erasable, DecodeImage PROVE IInv'
  BY <1>8, ImageKeeps
<1>9. ASSUME UNCHANGED erasable, DecodeCancelled PROVE IInv'
  BY <1>9, CancelledKeeps
<1>10. ASSUME UNCHANGED erasable, NEW t \in Token, Generate(t) \/ GenerateCancelled(t)
       PROVE  IInv'
  BY <1>10, GenerateKeeps
<1> QED
  BY <1>1, <1>2, <1>3, <1>4, <1>5, <1>6, <1>7, <1>8, <1>9, <1>10 DEF Next, Step

LEMMA InductiveInvariant == Spec => []IInv
BY InitIInv, NextIInv, PTL DEF Spec

\* When prefill returns the history is the prompt (slot.cpp), whatever the
\* requests before left in the slot and however they ended.  The tokens that it
\* reports are at least those of the history, and no more than those if the model
\* can erase a part of its cache.
THEOREM PrefillYieldsPrompt == Spec => []HistoryIsPrompt
<1>1. IInv => HistoryIsPrompt
  <2> SUFFICES ASSUME IInv PROVE HistoryIsPrompt
    OBVIOUS
  <2>1. pc = "generate" => history = prompt
    <3>1. history \o <<>> = history
      BY ConcatEmptySeq DEF IInv, EvalInv
    <3> QED
      BY <3>1 DEF IInv, EvalInv
  <2> QED
    BY <2>1 DEF HistoryIsPrompt, PromptTokensCounted, IInv, EvalInv
<1> QED
  BY <1>1, InductiveInvariant, PTL

\* The variables have their types, what the slot takes for evaluated has its
\* cells in the cache, each at its position, and no cell is outside the context,
\* however the evaluation of a prompt is broken off and resumed.
THEOREM CacheBacksHistory == Spec => []HistoryIsCached
<1>1. IInv => HistoryIsCached
  <2> SUFFICES ASSUME IInv PROVE HistoryIsCached
    OBVIOUS
  <2> DEFINE h == Pieces(history)
             t == Keep(Pieces(todo), Begun)
  <2>1. h \in Seq(Piece) /\ t \in Seq(Piece) /\ Evaluated = h \o t
    BY EvaluatedType DEF IInv, Evaluated
  <2>2. /\ CellsAt(0, Evaluated) \subseteq cells
        /\ cells \subseteq (0..(ContextSize - 1)) \X Piece
    BY DEF IInv, CacheInv, CacheHolds
  <2>3. TypeOK
    <3>1. cells \subseteq Int \X (Atom \X Nat)
      BY <2>2, Sizes DEF Piece
    <3> QED
      BY <3>1 DEF IInv, EvalInv, TypeOK
  <2> HIDE DEF h, t
  <2>4. CellsAt(0, h) \subseteq cells
    BY <2>1, <2>2, CellsOfTwo
  <2>5. \A i \in 1..Len(h) : <<i - 1, h[i]>> \in cells
    <3> SUFFICES ASSUME NEW i \in 1..Len(h) PROVE <<i - 1, h[i]>> \in cells
      OBVIOUS
    <3>1. 0 + i - 1 = i - 1
      OBVIOUS
    <3>2. <<0 + i - 1, h[i]>> \in CellsAt(0, h)
      BY DEF CellsAt
    <3> QED
      BY <2>4, <3>1, <3>2
  <2>6. \A c \in cells : c[1] \in 0..(ContextSize - 1)
    BY <2>2
  <2> QED
    BY <2>3, <2>5, <2>6 DEF HistoryIsCached, h
<1> QED
  BY <1>1, InductiveInvariant, PTL

\* With a model that refuses to erase a part of its cache, the cells that a
\* token of the history may attend to are exactly those of the history.
THEOREM RecurrentCacheKept == Spec => []RecurrentCacheIsHistory
<1>1. IInv => RecurrentCacheIsHistory
  <2> SUFFICES ASSUME IInv, ~erasable
               PROVE  {c \in cells : c[1] < ctxUsed} =
                          {<<i - 1, Pieces(history)[i]>> : i \in 1..Len(Pieces(history))}
    BY DEF RecurrentCacheIsHistory
  <2> DEFINE h == Pieces(history)
             t == Keep(Pieces(todo), Begun)
  <2>1. /\ h \in Seq(Piece) /\ t \in Seq(Piece) /\ Evaluated = h \o t
        /\ (pc # "image" => Evaluated = h)
    BY EvaluatedType DEF IInv, Evaluated
  <2>2. CacheHolds(erasable, cells, h \o t, FALSE) \/ CacheHolds(erasable, cells, h, TRUE)
    BY <2>1 DEF IInv, CacheInv
  <2> HIDE DEF h, t
  <2>3. CacheHolds(erasable, cells, h, TRUE)
    BY <2>1, <2>2, HoldsFree
  <2>4. {c \in cells : c[1] < Len(h)} = CellsAt(0, h)
    BY <2>3 DEF CacheHolds
  <2>5. CellsAt(0, h) = {<<i - 1, h[i]>> : i \in 1..Len(h)}
    <3>1. \A i \in 1..Len(h) : 0 + i - 1 = i - 1
      OBVIOUS
    <3>2. CellsAt(0, h) = {<<0 + i - 1, h[i]>> : i \in 1..Len(h)}
      BY DEF CellsAt
    <3> QED
      BY <3>1, <3>2
  <2> QED
    BY <2>4, <2>5 DEF h, ctxUsed
<1> QED
  BY <1>1, InductiveInvariant, PTL
=============================================================================
