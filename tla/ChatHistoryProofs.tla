------------------------- MODULE ChatHistoryProofs -------------------------
(***************************************************************************)
(* The conversation of the chatbot keeps its marks, its KV cache and its   *)
(* turns, for every context size, batch size and set of messages, after    *)
(* any number of commands, messages, failures and interruptions.           *)
(***************************************************************************)
EXTENDS ChatHistory, SequenceLemmas

\* The stacks of marks whose entries are in P.
Stacks(P) == {marked \in Seq(P) : Ascending(marked)}

LEMMA StackEntries ==
    ASSUME NEW P, NEW marked
    PROVE  marked \in Stacks(P) <=>
               /\ marked \in Seq(P)
               /\ \A i, j \in 1..Len(marked) : i <= j => marked[i] <= marked[j]
BY DEF Stacks, Ascending

LEMMA WiderStacks ==
    ASSUME NEW P, NEW Q, NEW marked \in Stacks(P),
           \A i \in 1..Len(marked) : marked[i] \in P => marked[i] \in Q
    PROVE  marked \in Stacks(Q)
<1>1. marked \in Seq(P) /\ Ascending(marked)
  BY DEF Stacks
<1>2. Len(marked) \in Nat /\ marked = [i \in 1..Len(marked) |-> marked[i]]
  BY <1>1
<1>3. \A i \in 1..Len(marked) : marked[i] \in Q
  BY <1>1
<1>4. [i \in 1..Len(marked) |-> marked[i]] \in [1..Len(marked) -> Q]
  BY <1>3
<1>5. marked \in Seq(Q)
  BY <1>2, <1>4, SeqDef
<1> QED
  BY <1>1, <1>5 DEF Stacks

LEMMA UptoStack ==
    ASSUME NEW P \in SUBSET Nat, NEW marked \in Stacks(P), NEW n \in 0..Len(marked)
    PROVE  /\ Upto(marked, n) \in Stacks(P) /\ Len(Upto(marked, n)) = n
           /\ \A i \in 1..n : Upto(marked, n)[i] = marked[i]
<1>1. marked \in Seq(P) /\ \A i, j \in 1..Len(marked) : i <= j => marked[i] <= marked[j]
  BY StackEntries
<1>2. Upto(marked, n) \in Seq(P) /\ Len(Upto(marked, n)) = n
      /\ \A i \in 1..n : Upto(marked, n)[i] = marked[i]
  BY <1>1 DEF Upto
<1>3. ASSUME NEW i \in 1..n, NEW j \in 1..n, i <= j
      PROVE  Upto(marked, n)[i] <= Upto(marked, n)[j]
  BY <1>1, <1>2, <1>3
<1> QED
  BY <1>2, <1>3, StackEntries

\* The highest of the entries that a condition picks out, or 0.
LEMMA HighestEntry ==
    ASSUME NEW n \in Nat, NEW S \in SUBSET (1..n)
    PROVE  Max({0} \cup S) \in 0..n /\ (Max({0} \cup S) # 0 => Max({0} \cup S) \in S)
<1>1. {0} \cup S \in SUBSET (0..n) /\ {0} \cup S # {}
  OBVIOUS
<1>2. Max({0} \cup S) \in {0} \cup S
  <2> DEFINE T == {0} \cup S
  <2>1. T \in SUBSET (0..n) /\ T # {}
    BY <1>1
  <2> HIDE DEF T
  <2> QED
    BY <2>1, MaxIsGreatest DEF T
<1> QED
  BY <1>1, <1>2

LEMMA FixedStack ==
    ASSUME NEW P \in SUBSET Nat, NEW marked \in Stacks(P), NEW n \in Nat
    PROVE  /\ FixStack(marked, n) \in Stacks(P)
           /\ Len(FixStack(marked, n)) <= Len(marked)
           /\ \A i \in 1..Len(FixStack(marked, n)) :
                  FixStack(marked, n)[i] = marked[i] /\ marked[i] <= n
<1> DEFINE S == {i \in 1..Len(marked) : marked[i] <= n}
           k == Max({0} \cup S)
<1>1. /\ marked \in Seq(P) /\ Len(marked) \in Nat
      /\ \A i, j \in 1..Len(marked) : i <= j => marked[i] <= marked[j]
  BY StackEntries
<1>2. k \in 0..Len(marked) /\ (k # 0 => k \in S)
  <2>1. S \in SUBSET (1..Len(marked))
    OBVIOUS
  <2> HIDE DEF S
  <2> QED
    BY <1>1, <2>1, HighestEntry
<1>3. FixStack(marked, n) = Upto(marked, k)
  BY DEF FixStack
<1> HIDE DEF k
<1>4. ASSUME NEW i \in 1..k PROVE marked[i] <= n
  <2>1. k # 0 /\ i <= k /\ i \in 1..Len(marked) /\ k \in 1..Len(marked)
    BY <1>1, <1>2
  <2>2. marked[k] <= n
    BY <1>2, <2>1
  <2>4. marked[i] <= marked[k]
    BY <1>1, <2>1
  <2>5. marked[k] \in P /\ marked[i] \in P
    BY <1>1, <2>1
  <2>3. marked[k] \in Nat /\ marked[i] \in Nat
    BY <2>5
  <2> QED
    BY <2>2, <2>3, <2>4
<1> QED
  BY <1>1, <1>2, <1>3, <1>4, UptoStack

LEMMA RecordedStack ==
    ASSUME NEW P \in SUBSET Nat, NEW marked \in Stacks(P), NEW n \in P,
           \A i \in 1..Len(marked) : marked[i] <= n
    PROVE  /\ RecordUndo(marked, n) \in Stacks(P)
           /\ Len(RecordUndo(marked, n)) \in Nat
           /\ \A i \in 1..Len(RecordUndo(marked, n)) :
                  \/ i \in 1..Len(marked) /\ RecordUndo(marked, n)[i] = marked[i]
                  \/ RecordUndo(marked, n)[i] = n
<1>1. marked \in Seq(P) /\ \A i, j \in 1..Len(marked) : i <= j => marked[i] <= marked[j]
  BY StackEntries
<1>2. CASE RecordUndo(marked, n) = marked
  BY <1>1, <1>2
<1>3. CASE RecordUndo(marked, n) = Append(marked, n)
  <2> DEFINE more == Append(marked, n)
  <2>1. more \in Seq(P) /\ Len(more) = Len(marked) + 1 /\ more[Len(marked) + 1] = n
        /\ \A i \in 1..Len(marked) : more[i] = marked[i]
    BY <1>1
  <2> HIDE DEF more
  <2>2. ASSUME NEW i \in 1..Len(more), NEW j \in 1..Len(more), i <= j
        PROVE  more[i] <= more[j]
    <3>1. i \in 1..Len(marked) \/ i = Len(marked) + 1
      BY <1>1, <2>1
    <3>2. j \in 1..Len(marked) \/ j = Len(marked) + 1 
      BY <1>1, <2>1
    <3>3. more[i] \in P /\ more[j] \in P /\ n \in P
      BY <2>1
    <3>4. CASE j \in 1..Len(marked)
      <4>1. i \in 1..Len(marked)
        BY <1>1, <2>1, <2>2, <3>4
      <4> QED
        BY <1>1, <2>1, <2>2, <3>4, <4>1
    <3>5. CASE j = Len(marked) + 1
      <4>1. more[j] = n
        BY <2>1, <3>5
      <4>2. more[i] <= n
        <5>1. CASE i \in 1..Len(marked)
          BY <2>1, <5>1
        <5>2. CASE i = Len(marked) + 1
          BY <2>1, <3>3, <5>2
        <5> QED
          BY <3>1, <5>1, <5>2
      <4> QED
        BY <4>1, <4>2
    <3> QED
      BY <3>2, <3>4, <3>5
  <2>3. more \in Stacks(P)
    BY <2>1, <2>2, StackEntries
  <2>4. \A i \in 1..Len(more) : (i \in 1..Len(marked) /\ more[i] = marked[i]) \/ more[i] = n
    BY <1>1, <2>1
  <2> QED
    BY <1>3, <2>1, <2>3, <2>4 DEF more
<1> QED
  BY <1>2, <1>3 DEF RecordUndo

-----------------------------------------------------------------------------
\* What adjust_stack makes of a position behind what is erased, or before it.
Adjusted(begin, end, pos) == IF pos >= end THEN pos - (end - begin) ELSE pos

\* What builder may be after one more position.
Built(begin, end, pos, s) ==
    IF begin <= pos /\ pos < end THEN s ELSE Append(s, Adjusted(begin, end, pos))

LEMMA AdjustSteps ==
    ASSUME NEW begin \in Nat, NEW end \in Nat, begin <= end, NEW marked \in Seq(Nat)
    PROVE  \E b \in [0..Len(marked) -> Seq(Nat)] :
              /\ b[0] = <<>>
              /\ \A i \in 1..Len(marked) : b[i] = Built(begin, end, marked[i], b[i - 1])
              /\ AdjustStack(begin, end, marked) = b[Len(marked)]
<1> DEFINE N == Len(marked)
           next(i, s) == Built(begin, end, marked[i], s)
           step == [p \in (1..N) \X Seq(Nat) |-> next(p[1], p[2])]
           Body(f) == [i \in 0..N |-> IF i = 0 THEN <<>> ELSE next(i, f[i - 1])]
<1>1. N \in Nat
  OBVIOUS
<1>2. \A i \in 1..N, s \in Seq(Nat) : next(i, s) \in Seq(Nat)
  <2> TAKE i \in 1..N, s \in Seq(Nat)
  <2>1. marked[i] \in Nat
    OBVIOUS
  <2>2. Adjusted(begin, end, marked[i]) \in Nat
    BY <2>1 DEF Adjusted
  <2> QED
    BY <2>2, AppendProperties DEF Built
<1>3. step \in [(1..N) \X Seq(Nat) -> Seq(Nat)]
  BY <1>2
<1>4. <<>> \in Seq(Nat)
  OBVIOUS
<1>5. PICK f \in [0..N -> Seq(Nat)] : f[0] = <<>> /\ \A i \in 1..N : f[i] = step[<<i, f[i - 1]>>]
  <2> HIDE DEF N, step
  <2>1. step \in Steps(N, Seq(Nat))
    BY <1>3 DEF Steps
  <2>2. \E f : f \in Iterates(N, Seq(Nat), <<>>, step)
    BY <1>1, <1>4, <2>1, Iteration
  <2> QED
    BY <2>2 DEF Iterates
<1>6. f = Body(f)
  <2>1. \A i \in 1..N : f[i] = next(i, f[i - 1])
    <3> TAKE i \in 1..N
    <3>1. i - 1 \in 0..N
      OBVIOUS
    <3>2. <<i, f[i - 1]>> \in (1..N) \X Seq(Nat)
      BY <3>1
    <3>3. f[i] = step[<<i, f[i - 1]>>]
      BY <1>5
    <3> HIDE DEF next
    <3> QED
      BY <3>2, <3>3
  <2>2. f = [i \in 0..N |-> f[i]]
    OBVIOUS
  <2> HIDE DEF next
  <2>3. \A i \in 0..N : f[i] = IF i = 0 THEN <<>> ELSE next(i, f[i - 1])
    BY <1>5, <2>1
  <2> QED
    BY <2>2, <2>3
<1> DEFINE b == CHOOSE g : g = Body(g)
<1>7. b = Body(b)
  BY <1>6
<1>8. AdjustStack(begin, end, marked) = b[N]
  BY DEF AdjustStack, Built, Adjusted
<1> HIDE DEF b, next
<1>9. b[0] = <<>> /\ \A i \in 1..N : b[i] = next(i, b[i - 1])
  BY <1>1, <1>7
<1>10. \A i \in 0..N : b[i] \in Seq(Nat)
  <2> DEFINE T == {n \in Nat : n <= N => b[n] \in Seq(Nat)}
  <2>1. 0 \in T
    BY <1>4, <1>9
  <2>2. ASSUME NEW n \in Nat, n \in T PROVE n + 1 \in T
    <3> SUFFICES ASSUME n + 1 <= N PROVE b[n + 1] \in Seq(Nat)
      OBVIOUS
    <3>1. n + 1 \in 1..N /\ (n + 1) - 1 = n /\ n <= N
      OBVIOUS
    <3>2. b[n + 1] = next(n + 1, b[(n + 1) - 1])
      BY <1>9, <3>1
    <3>3. b[n] \in Seq(Nat)
      BY <2>2, <3>1
    <3> QED
      BY <1>2, <3>1, <3>2, <3>3
  <2>3. Nat \subseteq T
    <3> HIDE DEF T
    <3> QED
      BY <2>1, <2>2, SetInduction
  <2> QED
    BY <1>1, <2>3
<1>11. b \in [0..N -> Seq(Nat)]
  BY <1>7, <1>10
<1> QED
  BY <1>8, <1>9, <1>11 DEF next

\* Each entry of what adjust_stack returns comes from one that was at least as high.
LEMMA AdjustedStack ==
    ASSUME NEW P \in SUBSET Nat, NEW Q \in SUBSET Nat, NEW marked \in Stacks(P),
           NEW begin \in Nat, NEW end \in Nat, begin <= end,
           \A p \in P : p < begin \/ p >= end => Adjusted(begin, end, p) \in Q
    PROVE  /\ AdjustStack(begin, end, marked) \in Stacks(Q)
           /\ \A i \in 1..Len(AdjustStack(begin, end, marked)) :
                 \E k \in i..Len(marked) :
                    /\ marked[k] < begin \/ marked[k] >= end
                    /\ AdjustStack(begin, end, marked)[i] = Adjusted(begin, end, marked[k])
<1> DEFINE N == Len(marked)
           From(i, n, pos) ==
              \E k \in i..n : /\ marked[k] < begin \/ marked[k] >= end
                              /\ pos = Adjusted(begin, end, marked[k])
           Good(n, s) ==
              /\ s \in Stacks(Q) /\ Len(s) <= n
              /\ \A i \in 1..Len(s) : From(i, n, s[i])
<1>1. /\ marked \in Seq(Nat) /\ N \in Nat /\ \A i \in 1..N : marked[i] \in P
      /\ \A i, j \in 1..N : i <= j => marked[i] <= marked[j]
  <2>1. /\ marked \in Seq(P) /\ N \in Nat
        /\ \A i, j \in 1..N : i <= j => marked[i] <= marked[j]
    BY StackEntries
  <2>2. marked \in Seq(Nat)
    <3>1. \A i \in 1..Len(marked) : marked[i] \in P => marked[i] \in Nat
      OBVIOUS
    <3>2. marked \in Stacks(Nat)
      BY <3>1, WiderStacks
    <3> QED
      BY <3>2 DEF Stacks
  <2> QED
    BY <2>1, <2>2
<1>2. PICK b \in [0..N -> Seq(Nat)] :
         /\ b[0] = <<>>
         /\ \A i \in 1..N : b[i] = Built(begin, end, marked[i], b[i - 1])
         /\ AdjustStack(begin, end, marked) = b[N]
  BY <1>1, AdjustSteps
<1>3. Good(0, <<>>)
  <2>1. <<>> \in Seq(Q) /\ Len(<<>>) = 0
    OBVIOUS
  <2>2. <<>> \in Stacks(Q)
    BY <2>1 DEF Stacks, Ascending
  <2> QED
    BY <2>1, <2>2
<1>4. ASSUME NEW n \in Nat, n + 1 <= N, NEW s, Good(n, s)
      PROVE  Good(n + 1, Built(begin, end, marked[n + 1], s))
  <2> DEFINE pos == marked[n + 1]
             new == Adjusted(begin, end, pos)
             more == Append(s, new)
  <2>1. n + 1 \in 1..N /\ pos \in P /\ pos \in Nat
    BY <1>1, <1>4
  <2>2. /\ s \in Seq(Q) /\ Len(s) \in Nat /\ \A i \in 1..Len(s) : s[i] \in Q
        /\ \A i, j \in 1..Len(s) : i <= j => s[i] <= s[j]
    BY <1>4, StackEntries
  <2>3. \A i \in 1..Len(s) : From(i, n + 1, s[i])
    <3> TAKE i \in 1..Len(s)
    <3>1. PICK k \in i..n : /\ marked[k] < begin \/ marked[k] >= end
                            /\ s[i] = Adjusted(begin, end, marked[k])
      BY <1>4
    <3>2. k \in i..n + 1
      BY <2>2
    <3> QED
      BY <3>1, <3>2
  <2>4. CASE begin <= pos /\ pos < end
    <3>1. Built(begin, end, pos, s) = s
      BY <2>4 DEF Built
    <3>2. Len(s) <= n + 1
      BY <1>4, <2>2
    <3> QED
      BY <1>4, <2>3, <3>1, <3>2
  <2>5. CASE ~(begin <= pos /\ pos < end)
    <3>1. Built(begin, end, pos, s) = more
      BY <2>5 DEF Built
    <3>2. pos < begin \/ pos >= end
      BY <2>1, <2>5
    <3>3. new \in Q
      BY <2>1, <3>2
    <3> HIDE DEF new
    <3>4. /\ more \in Seq(Q) /\ Len(more) = Len(s) + 1 /\ more[Len(s) + 1] = new
          /\ \A i \in 1..Len(s) : more[i] = s[i]
      BY <2>2, <3>3
    <3> HIDE DEF more
    <3>5. \A i \in 1..Len(more) : From(i, n + 1, more[i])
      <4> TAKE i \in 1..Len(more)
      <4>1. CASE i \in 1..Len(s)
        BY <2>3, <3>4, <4>1
      <4>2. CASE i = Len(s) + 1
        <5>1. n + 1 \in i..n + 1
          BY <1>4, <2>2, <4>2
        <5>2. more[i] = new
          BY <3>4, <4>2
        <5> QED
          BY <3>2, <5>1, <5>2 DEF new
      <4> QED
        BY <2>2, <3>4, <4>1, <4>2
    <3>6. \A i \in 1..Len(s) : s[i] <= new
      <4> TAKE i \in 1..Len(s)
      <4>1. PICK k \in i..n : /\ marked[k] < begin \/ marked[k] >= end
                              /\ s[i] = Adjusted(begin, end, marked[k])
        BY <1>4
      <4>2. k \in 1..N /\ k <= n + 1
        BY <1>1, <1>4, <2>2
      <4>3. marked[k] <= pos /\ marked[k] \in P
        BY <1>1, <2>1, <4>2
      <4>4. marked[k] \in Nat
        BY <4>3
      <4> QED
        BY <2>1, <3>2, <4>1, <4>3, <4>4 DEF Adjusted, new
    <3>7. ASSUME NEW i \in 1..Len(more), NEW j \in 1..Len(more), i <= j
          PROVE  more[i] <= more[j]
      <4>1. CASE j \in 1..Len(s)
        <5>1. i \in 1..Len(s)
          BY <2>2, <3>4, <3>7, <4>1
        <5> QED
          BY <2>2, <3>4, <3>7, <4>1, <5>1
      <4>2. CASE j = Len(s) + 1
        <5>1. more[j] = new
          BY <3>4, <4>2
        <5>2. CASE i \in 1..Len(s)
          BY <3>4, <3>6, <5>1, <5>2
        <5>3. CASE i = Len(s) + 1
          <6>1. more[i] = new /\ new \in Nat
            BY <3>3, <3>4, <5>3
          <6> QED
            BY <5>1, <6>1
        <5> QED
          BY <2>2, <3>4, <5>2, <5>3
      <4> QED
        BY <2>2, <3>4, <4>1, <4>2
    <3>8. more \in Stacks(Q)
      BY <3>4, <3>7, StackEntries
    <3>9. Len(more) <= n + 1
      BY <1>4, <2>2, <3>4
    <3> QED
      BY <3>1, <3>5, <3>8, <3>9
  <2> QED
    BY <2>4, <2>5
<1>5. Good(N, b[N])
  <2> DEFINE T == {n \in Nat : n <= N => Good(n, b[n])}
  <2> HIDE DEF Good
  <2>1. 0 \in T
    BY <1>2, <1>3
  <2>2. ASSUME NEW n \in Nat, n \in T PROVE n + 1 \in T
    <3> SUFFICES ASSUME n + 1 <= N PROVE Good(n + 1, b[n + 1])
      OBVIOUS
    <3>1. n + 1 \in 1..N /\ (n + 1) - 1 = n /\ n <= N
      BY <1>1
    <3>2. Good(n, b[n])
      BY <2>2, <3>1
    <3>3. b[n + 1] = Built(begin, end, marked[n + 1], b[(n + 1) - 1])
      BY <1>2, <3>1
    <3> QED
      BY <1>4, <3>1, <3>2, <3>3
  <2>3. Nat \subseteq T
    <3> HIDE DEF T
    <3> QED
      BY <2>1, <2>2, SetInduction
  <2> QED
    BY <1>1, <2>3
<1> QED
  BY <1>2, <1>5

-----------------------------------------------------------------------------
Tokens == Nat \X Nat

\* The cache of a history.
CellsOf(h) == {<<i - 1, h[i]>> : i \in 1..Len(h)}

\* The history without what is at begin..end - 1.
Erased(h, begin, end) == SubSeq(h, 1, begin) \o SubSeq(h, end + 1, Len(h))

LEMMA CutHistory ==
    ASSUME NEW h \in Seq(Tokens), NEW n \in 0..Len(h)
    PROVE  /\ SubSeq(h, 1, n) \in Seq(Tokens) /\ Len(SubSeq(h, 1, n)) = n
           /\ \A i \in 1..n : SubSeq(h, 1, n)[i] = h[i]
OBVIOUS

LEMMA ErasedHistory ==
    ASSUME NEW h \in Seq(Tokens), NEW begin \in 0..Len(h), NEW end \in begin..Len(h)
    PROVE  /\ Erased(h, begin, end) \in Seq(Tokens)
           /\ Len(Erased(h, begin, end)) = Len(h) - (end - begin)
           /\ \A i \in 1..begin : Erased(h, begin, end)[i] = h[i]
           /\ \A i \in begin + 1..Len(h) - (end - begin) :
                  Erased(h, begin, end)[i] = h[i + (end - begin)]
<1> DEFINE one == SubSeq(h, 1, begin)
           other == SubSeq(h, end + 1, Len(h))
<1>1. one \in Seq(Tokens) /\ Len(one) = begin /\ \A i \in 1..begin : one[i] = h[i]
  OBVIOUS
<1>2. /\ other \in Seq(Tokens) /\ Len(other) = Len(h) - end
      /\ \A i \in 1..Len(h) - end : other[i] = h[i + end]
  <2>1. Len(h) \in Nat /\ end \in Nat /\ end <= Len(h)
    OBVIOUS
  <2>2. Len(other) = Len(h) - end
    BY <2>1
  <2>3. \A i \in 1..Len(h) - end : other[i] = h[i + end]
    BY <2>1
  <2>4. \A i \in 1..Len(h) - end : h[i + end] \in Tokens
    BY <2>1
  <2> QED
    BY <2>1, <2>2, <2>3, <2>4
<1> HIDE DEF one, other
<1>3. /\ one \o other \in Seq(Tokens) /\ Len(one \o other) = Len(h) - (end - begin)
      /\ \A i \in 1..begin : (one \o other)[i] = h[i]
      /\ \A i \in begin + 1..Len(h) - (end - begin) : (one \o other)[i] = other[i - begin]
  <2>1. Len(h) \in Nat /\ begin \in Nat /\ begin + (Len(h) - end) = Len(h) - (end - begin)
    OBVIOUS
  <2>2. one \o other \in Seq(Tokens) /\ Len(one \o other) = Len(one) + Len(other)
    BY <1>1, <1>2, ConcatProperties
  <2>3. \A i \in 1..Len(one) : (one \o other)[i] = one[i]
    BY <1>1, <1>2
  <2>4. \A i \in Len(one) + 1..Len(one) + Len(other) : (one \o other)[i] = other[i - Len(one)]
    BY <1>1, <1>2
  <2> QED
    BY <1>1, <1>2, <2>1, <2>2, <2>3, <2>4
<1>4. ASSUME NEW i \in begin + 1..Len(h) - (end - begin)
      PROVE  other[i - begin] = h[i + (end - begin)]
  <2>1. i - begin \in 1..Len(h) - end /\ (i - begin) + end = i + (end - begin)
    OBVIOUS
  <2> QED
    BY <1>2, <2>1
<1> QED
  BY <1>3, <1>4 DEF Erased, one, other

LEMMA CutCells ==
    ASSUME NEW h \in Seq(Tokens), NEW n \in 0..Len(h)
    PROVE  {c \in CellsOf(h) : c[1] < n} = CellsOf(SubSeq(h, 1, n))
<1> DEFINE g == SubSeq(h, 1, n)
<1>1. Len(g) = n /\ (\A i \in 1..n : g[i] = h[i]) /\ Len(h) \in Nat
  BY CutHistory
<1> HIDE DEF g
<1>2. ASSUME NEW c \in CellsOf(h), c[1] < n PROVE c \in CellsOf(g)
  <2>1. PICK i \in 1..Len(h) : c = <<i - 1, h[i]>>
    BY DEF CellsOf
  <2>2. i \in 1..n
    BY <1>2, <2>1
  <2> QED
    BY <1>1, <2>1, <2>2 DEF CellsOf
<1>3. ASSUME NEW c \in CellsOf(g) PROVE c \in CellsOf(h) /\ c[1] < n
  <2>1. PICK i \in 1..n : c = <<i - 1, g[i]>>
    BY <1>1 DEF CellsOf
  <2>2. i \in 1..Len(h) /\ i - 1 < n
    BY <1>1
  <2> QED
    BY <1>1, <2>1, <2>2 DEF CellsOf
<1> QED
  BY <1>2, <1>3 DEF g

LEMMA ErasedCells ==
    ASSUME NEW h \in Seq(Tokens), NEW begin \in 0..Len(h), NEW end \in begin..Len(h)
    PROVE  {c \in CellsOf(h) : c[1] < begin}
               \cup {<<c[1] - (end - begin), c[2]>> : c \in {d \in CellsOf(h) : d[1] >= end}}
           = CellsOf(Erased(h, begin, end))
<1> DEFINE g == Erased(h, begin, end)
           low == {c \in CellsOf(h) : c[1] < begin}
           high == {<<c[1] - (end - begin), c[2]>> : c \in {d \in CellsOf(h) : d[1] >= end}}
<1>0. Len(h) \in Nat /\ begin \in Nat /\ end \in Nat /\ begin <= end /\ end <= Len(h)
  OBVIOUS
<1>1. /\ Len(g) = Len(h) - (end - begin)
      /\ \A i \in 1..begin : g[i] = h[i]
      /\ \A i \in begin + 1..Len(h) - (end - begin) : g[i] = h[i + (end - begin)]
  BY ErasedHistory
<1> HIDE DEF g
<1>2. ASSUME NEW c \in low PROVE c \in CellsOf(g)
  <2>1. PICK i \in 1..Len(h) : c = <<i - 1, h[i]>>
    BY DEF CellsOf
  <2>2. i \in 1..begin
    BY <1>0, <2>1
  <2>3. i \in 1..Len(g) /\ g[i] = h[i]
    BY <1>0, <1>1, <2>2
  <2> QED
    BY <2>1, <2>3 DEF CellsOf
<1>3. ASSUME NEW c \in high PROVE c \in CellsOf(g)
  <2>1. PICK d \in CellsOf(h) : d[1] >= end /\ c = <<d[1] - (end - begin), d[2]>>
    OBVIOUS
  <2>2. PICK i \in 1..Len(h) : d = <<i - 1, h[i]>>
    BY DEF CellsOf
  <2> DEFINE j == i - (end - begin)
  <2>3. j \in begin + 1..Len(h) - (end - begin) /\ j + (end - begin) = i
        /\ (i - 1) - (end - begin) = j - 1
    BY <1>0, <2>1, <2>2
  <2>4. g[j] = h[i]
    BY <1>1, <2>3
  <2>5. j \in 1..Len(g)
    BY <1>0, <1>1, <2>3
  <2>6. c = <<j - 1, g[j]>>
    BY <2>1, <2>2, <2>3, <2>4
  <2> QED
    BY <2>5, <2>6 DEF CellsOf
<1>4. ASSUME NEW c \in CellsOf(g) PROVE c \in low \cup high
  <2>1. PICK j \in 1..Len(g) : c = <<j - 1, g[j]>>
    BY DEF CellsOf
  <2>2. CASE j <= begin
    <3>1. j \in 1..begin /\ j \in 1..Len(h) /\ j - 1 < begin
      BY <1>0, <1>1, <2>2
    <3>2. c = <<j - 1, h[j]>>
      BY <1>1, <2>1, <3>1
    <3>3. c \in CellsOf(h)
      BY <3>1, <3>2 DEF CellsOf
    <3> QED
      BY <3>1, <3>2, <3>3
  <2>3. CASE j > begin
    <3> DEFINE i == j + (end - begin)
               d == <<i - 1, h[i]>>
    <3>1. /\ j \in begin + 1..Len(h) - (end - begin) /\ i \in 1..Len(h) /\ i - 1 >= end
          /\ (i - 1) - (end - begin) = j - 1
      BY <1>0, <1>1, <2>3
    <3>2. g[j] = h[i]
      BY <1>1, <3>1
    <3>3. d \in CellsOf(h)
      BY <3>1 DEF CellsOf
    <3>4. d[1] >= end /\ c = <<d[1] - (end - begin), d[2]>>
      BY <2>1, <3>1, <3>2
    <3> HIDE DEF d
    <3> QED
      BY <3>3, <3>4
  <2> QED
    BY <1>0, <1>1, <2>2, <2>3
<1> QED
  BY <1>2, <1>3, <1>4 DEF g

LEMMA MoreCells ==
    ASSUME NEW h \in Seq(Tokens), NEW new \in Seq(Tokens)
    PROVE  CellsOf(h) \cup {<<Len(h) + i - 1, new[i]>> : i \in 1..Len(new)} = CellsOf(h \o new)
<1> DEFINE g == h \o new
           cells_new == {<<Len(h) + i - 1, new[i]>> : i \in 1..Len(new)}
<1>1. /\ Len(h) \in Nat /\ Len(new) \in Nat /\ Len(g) = Len(h) + Len(new)
      /\ \A i \in 1..Len(h) : g[i] = h[i]
      /\ \A i \in Len(h) + 1..Len(h) + Len(new) : g[i] = new[i - Len(h)]
  OBVIOUS
<1> HIDE DEF g
<1>2. ASSUME NEW c \in CellsOf(h) PROVE c \in CellsOf(g)
  <2>1. PICK i \in 1..Len(h) : c = <<i - 1, h[i]>>
    BY DEF CellsOf
  <2>2. i \in 1..Len(g) /\ g[i] = h[i]
    BY <1>1
  <2> QED
    BY <2>1, <2>2 DEF CellsOf
<1>3. ASSUME NEW c \in cells_new PROVE c \in CellsOf(g)
  <2>1. PICK i \in 1..Len(new) : c = <<Len(h) + i - 1, new[i]>>
    OBVIOUS
  <2> DEFINE j == Len(h) + i
  <2>2. j \in 1..Len(g) /\ j \in Len(h) + 1..Len(h) + Len(new) /\ j - Len(h) = i
    BY <1>1
  <2>3. g[j] = new[i]
    BY <1>1, <2>2
  <2> QED
    BY <2>1, <2>2, <2>3 DEF CellsOf
<1>4. ASSUME NEW c \in CellsOf(g) PROVE c \in CellsOf(h) \cup cells_new
  <2>1. PICK j \in 1..Len(g) : c = <<j - 1, g[j]>>
    BY DEF CellsOf
  <2>2. CASE j <= Len(h)
    <3>1. j \in 1..Len(h) /\ g[j] = h[j]
      BY <1>1, <2>2
    <3> QED
      BY <2>1, <3>1 DEF CellsOf
  <2>3. CASE j > Len(h)
    <3> DEFINE i == j - Len(h)
    <3>1. i \in 1..Len(new) /\ Len(h) + i - 1 = j - 1 /\ j \in Len(h) + 1..Len(h) + Len(new)
      BY <1>1, <2>3
    <3>2. g[j] = new[i]
      BY <1>1, <3>1
    <3>3. c = <<Len(h) + i - 1, new[i]>>
      BY <2>1, <3>1, <3>2
    <3> QED
      BY <3>1, <3>3
  <2> QED
    BY <1>1, <2>2, <2>3
<1> QED
  BY <1>2, <1>3, <1>4 DEF g

-----------------------------------------------------------------------------
\* The places between the turns of a history whose turns have the lengths L.
Places(h, L) == {m \in 0..Len(h) : m = 0 \/ h[m][2] = L[h[m][1]]}

\* A token and the next one: of one turn, or of two.
Follows(a, b, L) ==
    \/ b = <<a[1], a[2] + 1>>
    \/ a[2] = L[a[1]] /\ a[1] < b[1] /\ b[2] = 1

\* A history consists of whole turns in their order.
InTurns(h, L) ==
    /\ \A i \in 1..Len(h) : h[i][1] \in 1..Len(L) /\ h[i][2] \in 1..L[h[i][1]]
    /\ \A i, j \in 1..Len(h) : i <= j => h[i][1] <= h[j][1]
    /\ h # <<>> => h[1][2] = 1
    /\ \A i, j \in 1..Len(h) : j = i + 1 => Follows(h[i], h[j], L)
    /\ Len(h) \in Places(h, L)

\* A place is where a turn begins, or the end.
LEMMA TurnBegins ==
    ASSUME NEW L \in Seq(Nat), NEW h \in Seq(Tokens), InTurns(h, L),
           NEW m \in Places(h, L), m # Len(h)
    PROVE  h[m + 1][2] = 1 /\ (m # 0 => h[m][1] < h[m + 1][1])
<1>1. Len(h) \in Nat /\ m \in Nat /\ m + 1 \in 1..Len(h) /\ h # <<>>
  BY DEF Places
<1>2. CASE m = 0
  BY <1>1, <1>2 DEF InTurns
<1>3. CASE m # 0
  <2>1. m \in 1..Len(h)
    BY <1>1, <1>3
  <2>2. Follows(h[m], h[m + 1], L)
    BY <1>1, <2>1 DEF InTurns
  <2>3. h[m][2] = L[h[m][1]]
    BY <1>3 DEF Places
  <2>4. h[m + 1] # <<h[m][1], h[m][2] + 1>>
    <3> SUFFICES ASSUME h[m + 1] = <<h[m][1], h[m][2] + 1>> PROVE FALSE
      OBVIOUS
    <3>1. h[m + 1][1] = h[m][1] /\ h[m + 1][2] = h[m][2] + 1
      OBVIOUS
    <3>2. h[m + 1][2] \in 1..L[h[m + 1][1]]
      BY <1>1 DEF InTurns
    <3>3. h[m][1] \in 1..Len(L)
      BY <2>1 DEF InTurns
    <3>4. L[h[m][1]] \in Nat
      BY <3>3
    <3> QED
      BY <2>3, <3>1, <3>2, <3>4
  <2> QED
    BY <2>2, <2>4 DEF Follows
<1> QED
  BY <1>2, <1>3

\* Turns that are not in the history may be added, or be of any length.
LEMMA SameTurns ==
    ASSUME NEW L \in Seq(Nat), NEW n \in Nat, NEW h \in Seq(Tokens), InTurns(h, L)
    PROVE  InTurns(h, Append(L, n)) /\ Places(h, Append(L, n)) = Places(h, L)
<1> DEFINE M == Append(L, n)
<1>1. Len(M) = Len(L) + 1 /\ Len(L) \in Nat /\ \A t \in 1..Len(L) : M[t] = L[t]
  OBVIOUS
<1> HIDE DEF M
<1>2. \A i \in 1..Len(h) : h[i][1] \in 1..Len(L) /\ h[i][2] \in 1..L[h[i][1]]
  BY DEF InTurns
<1>3. \A i \in 1..Len(h) : M[h[i][1]] = L[h[i][1]] /\ h[i][1] \in 1..Len(M)
  BY <1>1, <1>2
<1>4. Places(h, M) = Places(h, L)
  BY <1>3 DEF Places
<1>5. \A i, j \in 1..Len(h) : j = i + 1 => Follows(h[i], h[j], M)
  <2> TAKE i, j \in 1..Len(h)
  <2> HAVE j = i + 1
  <2>1. Follows(h[i], h[j], L)
    BY DEF InTurns
  <2> QED
    BY <1>3, <2>1 DEF Follows
<1>6. \A i \in 1..Len(h) : h[i][1] \in 1..Len(M) /\ h[i][2] \in 1..M[h[i][1]]
  BY <1>2, <1>3
<1>7. InTurns(h, M)
  BY <1>4, <1>5, <1>6 DEF InTurns
<1> QED
  BY <1>4, <1>7 DEF M

LEMMA CutTurns ==
    ASSUME NEW L \in Seq(Nat), NEW h \in Seq(Tokens), InTurns(h, L), NEW n \in Places(h, L)
    PROVE  /\ InTurns(SubSeq(h, 1, n), L)
           /\ \A m \in Places(h, L) : m <= n => m \in Places(SubSeq(h, 1, n), L)
<1> DEFINE g == SubSeq(h, 1, n)
<1>1. n \in 0..Len(h) /\ Len(h) \in Nat
  BY DEF Places
<1>2. g \in Seq(Tokens) /\ Len(g) = n /\ \A i \in 1..n : g[i] = h[i]
  BY <1>1, CutHistory
<1> HIDE DEF g
<1>3. \A i \in 1..n : i \in 1..Len(h)
  BY <1>1
<1>4. ASSUME NEW m \in Places(h, L), m <= n PROVE m \in Places(g, L)
  BY <1>1, <1>2, <1>4 DEF Places
<1>5. g # <<>> => h # <<>> /\ g[1] = h[1]
  BY <1>1, <1>2
<1>6. InTurns(g, L)
  <2>1. \A i \in 1..Len(g) : g[i][1] \in 1..Len(L) /\ g[i][2] \in 1..L[g[i][1]]
    BY <1>2, <1>3 DEF InTurns
  <2>2. \A i, j \in 1..Len(g) : i <= j => g[i][1] <= g[j][1]
    BY <1>2, <1>3 DEF InTurns
  <2>3. \A i, j \in 1..Len(g) : j = i + 1 => Follows(g[i], g[j], L)
    BY <1>2, <1>3 DEF InTurns
  <2>4. Len(g) \in Places(g, L)
    BY <1>1, <1>2, <1>4
  <2>5. g # <<>> => g[1][2] = 1
    BY <1>5 DEF InTurns
  <2> QED
    BY <2>1, <2>2, <2>3, <2>4, <2>5 DEF InTurns
<1> QED
  BY <1>4, <1>6 DEF g

\* What is erased between two places leaves the others, and whole turns.
LEMMA ErasedTurns ==
    ASSUME NEW L \in Seq(Nat), NEW h \in Seq(Tokens), InTurns(h, L),
           NEW begin \in Places(h, L), NEW end \in Places(h, L), begin < end
    PROVE  /\ InTurns(Erased(h, begin, end), L)
           /\ \A m \in Places(h, L) :
                 /\ m <= begin => m \in Places(Erased(h, begin, end), L)
                 /\ m < begin \/ m >= end
                       => Adjusted(begin, end, m) \in Places(Erased(h, begin, end), L)
<1> DEFINE g == Erased(h, begin, end)
           d == end - begin
           n == Len(h) - d
<1>1. /\ Len(h) \in Nat /\ begin \in 0..Len(h) /\ end \in begin..Len(h)
      /\ d \in Nat /\ n \in Nat /\ begin <= n
      /\ \A i \in 1..begin : i \in 1..Len(h)
      /\ \A i \in begin + 1..n : i + d \in 1..Len(h)
  <2>1. Len(h) \in Nat /\ begin \in 0..Len(h) /\ end \in 0..Len(h)
    BY DEF Places
  <2> QED
    BY <2>1
<1>2. /\ g \in Seq(Tokens) /\ Len(g) = n
      /\ \A i \in 1..begin : g[i] = h[i]
      /\ \A i \in begin + 1..n : g[i] = h[i + d]
  BY <1>1, ErasedHistory
<1> HIDE DEF g
<1>3. \A i \in 1..n : i \in 1..begin \/ i \in begin + 1..n
  BY <1>1
<1>4. \A i \in 1..Len(h) : h[i][1] \in 1..Len(L) /\ h[i][2] \in 1..L[h[i][1]]
  BY DEF InTurns
<1>5. ASSUME NEW m \in Places(h, L), m <= begin PROVE m \in Places(g, L)
  <2>1. m \in 0..n /\ (m # 0 => m \in 1..begin)
    BY <1>1, <1>5 DEF Places
  <2> QED
    BY <1>2, <2>1 DEF Places
<1>6. ASSUME NEW m \in Places(h, L), m < begin \/ m >= end
      PROVE  Adjusted(begin, end, m) \in Places(g, L)
  <2>1. m \in 0..Len(h) /\ begin \in Nat /\ end \in Nat /\ begin < end
    BY <1>1 DEF Places
  <2>2. CASE m < begin
    <3>1. Adjusted(begin, end, m) = m /\ m <= begin
      BY <2>1, <2>2 DEF Adjusted
    <3> QED
      BY <1>5, <3>1
  <2>3. CASE m = end
    <3>1. Adjusted(begin, end, m) = begin
      BY <2>1, <2>3 DEF Adjusted
    <3> QED
      BY <1>5, <2>1, <3>1
  <2>4. CASE m > end
    <3>1. Adjusted(begin, end, m) = m - d
      BY <2>1, <2>4 DEF Adjusted
    <3>2. m - d \in begin + 1..n /\ (m - d) + d = m /\ m # 0
      BY <1>1, <2>1, <2>4
    <3>3. g[m - d] = h[m]
      BY <1>2, <3>2
    <3>4. h[m][2] = L[h[m][1]]
      BY <3>2 DEF Places
    <3>5. m - d \in 0..n
      BY <1>1, <3>2
    <3> HIDE DEF d, n
    <3> QED
      BY <1>2, <3>1, <3>3, <3>4, <3>5 DEF Places
  <2> QED
    BY <1>6, <2>1, <2>2, <2>3, <2>4
<1>7. InTurns(g, L)
  <2>1. \A i \in 1..Len(g) : g[i][1] \in 1..Len(L) /\ g[i][2] \in 1..L[g[i][1]]
    BY <1>1, <1>2, <1>3, <1>4
  <2>2. ASSUME NEW i \in 1..n, NEW j \in 1..n, i <= j PROVE g[i][1] <= g[j][1]
    <3>1. \A k, l \in 1..Len(h) : k <= l => h[k][1] <= h[l][1]
      BY DEF InTurns
    <3>2. CASE j \in 1..begin
      <4>1. i \in 1..begin
        BY <1>1, <2>2, <3>2
      <4> QED
        BY <1>1, <1>2, <2>2, <3>1, <3>2, <4>1
    <3>3. CASE j \in begin + 1..n
      <4>1. j + d \in 1..Len(h) /\ g[j] = h[j + d] /\ i <= j + d /\ i + d <= j + d
        BY <1>1, <1>2, <2>2, <3>3
      <4>2. CASE i \in 1..begin
        <5>1. i \in 1..Len(h) /\ g[i] = h[i]
          BY <1>1, <1>2, <4>2
        <5> QED
          BY <3>1, <4>1, <5>1
      <4>3. CASE i \in begin + 1..n
        <5>1. i + d \in 1..Len(h) /\ g[i] = h[i + d]
          BY <1>1, <1>2, <4>3
        <5> QED
          BY <3>1, <4>1, <5>1
      <4> QED
        BY <1>3, <4>2, <4>3
    <3> QED
      BY <1>3, <3>2, <3>3
  <2>3. g # <<>> => g[1][2] = 1
    <3> SUFFICES ASSUME g # <<>> PROVE g[1][2] = 1
      OBVIOUS
    <3>1. 1 \in 1..n
      BY <1>1, <1>2
    <3>2. CASE 1 \in 1..begin
      <4>1. h # <<>> /\ g[1] = h[1]
        BY <1>1, <1>2, <3>2
      <4> QED
        BY <4>1 DEF InTurns
    <3>3. CASE 1 \in begin + 1..n
      <4>1. begin = 0 /\ g[1] = h[1 + d]
        BY <1>1, <1>2, <3>3
      <4>2. 1 + d = end + 1 /\ end # Len(h)
        BY <1>1, <3>1, <4>1
      <4>3. h[end + 1][2] = 1
        BY <4>2, TurnBegins
      <4> QED
        BY <4>1, <4>2, <4>3
    <3> QED
      BY <1>3, <3>1, <3>2, <3>3
  <2>4. ASSUME NEW i \in 1..n, NEW j \in 1..n, j = i + 1 PROVE Follows(g[i], g[j], L)
    <3>1. \A k, l \in 1..Len(h) : l = k + 1 => Follows(h[k], h[l], L)
      BY DEF InTurns
    <3>2. CASE j \in 1..begin
      <4>1. i \in 1..begin
        BY <1>1, <2>4, <3>2
      <4> QED
        BY <1>1, <1>2, <2>4, <3>1, <3>2, <4>1
    <3>3. CASE i \in begin + 1..n
      <4>1. j \in begin + 1..n /\ j + d = (i + d) + 1
        BY <1>1, <2>4, <3>3
      <4>2. i + d \in 1..Len(h) /\ j + d \in 1..Len(h) /\ g[i] = h[i + d] /\ g[j] = h[j + d]
        BY <1>1, <1>2, <3>3, <4>1
      <4> QED
        BY <3>1, <4>1, <4>2
    <3>4. CASE i = begin
      <4>1. begin # 0 /\ j \in begin + 1..n /\ j + d = end + 1 /\ end # Len(h)
            /\ i \in 1..begin /\ begin # Len(h) /\ begin + 1 <= end + 1
            /\ begin + 1 \in 1..Len(h) /\ end + 1 \in 1..Len(h)
        BY <1>1, <2>4, <3>4
      <4>2. g[i] = h[begin] /\ g[j] = h[end + 1]
        BY <1>2, <3>4, <4>1
      <4>3. h[begin][2] = L[h[begin][1]]
        BY <4>1 DEF Places
      <4>4. h[end + 1][2] = 1
        BY <4>1, TurnBegins
      <4>5. h[begin][1] < h[begin + 1][1]
        BY <4>1, TurnBegins
      <4>6. h[begin + 1][1] <= h[end + 1][1]
        BY <4>1 DEF InTurns
      <4>7. h[begin][1] \in Nat /\ h[begin + 1][1] \in Nat /\ h[end + 1][1] \in Nat
        <5>1. \A k \in 1..Len(h) : h[k][1] \in Nat
          BY DEF Tokens
        <5>2. begin \in 1..Len(h)
          BY <1>1, <4>1
        <5> QED
          BY <4>1, <5>1, <5>2
      <4>8. h[begin][1] < h[end + 1][1]
        BY <4>5, <4>6, <4>7
      <4> QED
        BY <4>2, <4>3, <4>4, <4>8 DEF Follows
    <3>5. i \in begin + 1..n \/ i = begin \/ j \in 1..begin
      BY <1>1, <2>4
    <3> QED
      BY <3>2, <3>3, <3>4, <3>5
  <2>5. Len(g) \in Places(g, L)
    <3>1. Len(h) \in Places(h, L)
      BY DEF InTurns
    <3>2. Len(h) >= end /\ Adjusted(begin, end, Len(h)) = n
      BY <1>1 DEF Adjusted
    <3> QED
      BY <1>2, <1>6, <3>1, <3>2
  <2> QED
    BY <1>2, <2>1, <2>2, <2>3, <2>4, <2>5 DEF InTurns
<1> QED
  BY <1>5, <1>6, <1>7 DEF g

\* The present turn, as it is when it ends.
LEMMA PresentTurn ==
    ASSUME NEW L \in Seq(Nat), NEW h \in Seq(Tokens), NEW b \in 0..Len(h),
           InTurns(SubSeq(h, 1, b), L),
           \A i \in b + 1..Len(h) : h[i] = <<Len(L) + 1, i - b>>
    PROVE  /\ InTurns(h, Append(L, Len(h) - b))
           /\ \A m \in Places(SubSeq(h, 1, b), L) : m \in Places(h, Append(L, Len(h) - b))
<1> DEFINE g == SubSeq(h, 1, b)
           n == Len(h) - b
           M == Append(L, n)
           t == Len(L) + 1
<1>1. g \in Seq(Tokens) /\ Len(g) = b /\ \A i \in 1..b : g[i] = h[i]
  BY CutHistory
<1>2. Len(h) \in Nat /\ b \in Nat /\ n \in Nat
  OBVIOUS
<1>3. Len(L) \in Nat /\ t \in Nat /\ Len(M) = t /\ M[t] = n
  BY <1>2
<1> HIDE DEF g
<1>4. InTurns(g, M) /\ Places(g, M) = Places(g, L)
  BY <1>1, <1>2, SameTurns DEF g
<1>5. \A i \in 1..b : h[i][1] \in 1..Len(L)
  BY <1>1 DEF InTurns, g
<1>6. \A i \in b + 1..Len(h) : h[i][1] = t /\ h[i][2] = i - b
  OBVIOUS
<1>7. \A i \in 1..Len(h) : i \in 1..b \/ i \in b + 1..Len(h)
  BY <1>2
<1> HIDE DEF M, t, n
<1>8. \A m \in Places(g, L) : m \in Places(h, M)
  <2> TAKE m \in Places(g, L)
  <2>1. m \in Places(g, M) /\ m \in 0..b
    BY <1>1, <1>4 DEF Places
  <2>2. m = 0 \/ m \in 1..b
    BY <1>2, <2>1
  <2>3. m \in 0..Len(h)
    BY <1>2, <2>1
  <2> QED
    BY <1>1, <2>1, <2>2, <2>3 DEF Places
<1>9. \A i \in 1..Len(h) : h[i][1] \in 1..Len(M) /\ h[i][2] \in 1..M[h[i][1]]
  <2> TAKE i \in 1..Len(h)
  <2>1. CASE i \in 1..b
    BY <1>1, <1>4, <2>1 DEF InTurns
  <2>2. CASE i \in b + 1..Len(h)
    <3>1. i - b \in 1..n /\ t \in 1..t
      BY <1>2, <1>3, <2>2 DEF t, n
    <3> QED
      BY <1>3, <1>6, <2>2, <3>1
  <2> QED
    BY <1>7, <2>1, <2>2
<1>10. ASSUME NEW i \in 1..Len(h), NEW j \in 1..Len(h), i <= j PROVE h[i][1] <= h[j][1]
  <2>1. CASE j \in 1..b
    <3>1. i \in 1..b
      BY <1>2, <1>10, <2>1
    <3>2. g[i][1] <= g[j][1]
      BY <1>1, <1>4, <1>10, <2>1, <3>1 DEF InTurns
    <3> QED
      BY <1>1, <2>1, <3>1, <3>2
  <2>2. CASE j \in b + 1..Len(h)
    <3>1. h[j][1] = t
      BY <1>6, <2>2
    <3>2. h[i][1] <= t
      <4>1. CASE i \in 1..b
        BY <1>3, <1>5, <4>1 DEF t
      <4>2. CASE i \in b + 1..Len(h)
        BY <1>3, <1>6, <4>2
      <4> QED
        BY <1>7, <4>1, <4>2
    <3> QED
      BY <3>1, <3>2
  <2> QED
    BY <1>7, <2>1, <2>2
<1>11. b # Len(h) => h[b + 1][2] = 1
  <2> SUFFICES ASSUME b # Len(h) PROVE h[b + 1][2] = 1
    OBVIOUS
  <2>1. b + 1 \in b + 1..Len(h) /\ (b + 1) - b = 1
    BY <1>2
  <2> QED
    BY <1>6, <2>1
<1>12. h # <<>> => h[1][2] = 1
  <2> SUFFICES ASSUME h # <<>> PROVE h[1][2] = 1
    OBVIOUS
  <2>1. CASE b = 0
    <3>1. b # Len(h) /\ b + 1 = 1
      BY <2>1
    <3> QED
      BY <1>11, <3>1
  <2>2. CASE b # 0
    <3>1. 1 \in 1..b /\ g # <<>>
      BY <1>1, <1>2, <2>2
    <3> QED
      BY <1>1, <1>4, <3>1 DEF InTurns
  <2> QED
    BY <2>1, <2>2
<1>13. ASSUME NEW i \in 1..Len(h), NEW j \in 1..Len(h), j = i + 1
       PROVE  Follows(h[i], h[j], M)
  <2>1. CASE j \in 1..b
    <3>1. i \in 1..b
      BY <1>2, <1>13, <2>1
    <3>2. Follows(g[i], g[j], M)
      BY <1>1, <1>4, <1>13, <2>1, <3>1 DEF InTurns
    <3> QED
      BY <1>1, <2>1, <3>1, <3>2
  <2>2. CASE i \in b + 1..Len(h)
    <3>1. j \in b + 1..Len(h) /\ j - b = (i - b) + 1
      BY <1>2, <1>13, <2>2
    <3>2. h[i] = <<t, i - b>> /\ h[j] = <<t, j - b>>
      BY <2>2, <3>1 DEF t
    <3>3. h[j] = <<h[i][1], h[i][2] + 1>>
      BY <3>1, <3>2
    <3> QED
      BY <3>3 DEF Follows
  <2>3. CASE i = b
    <3>1. b # Len(h) /\ i \in 1..b /\ b # 0 /\ j \in b + 1..Len(h)
      BY <1>2, <1>13, <2>3
    <3>2. b \in Places(g, M)
      BY <1>1, <1>4 DEF InTurns
    <3>3. g[b][2] = M[g[b][1]]
      BY <3>1, <3>2 DEF Places
    <3>4. h[i][2] = M[h[i][1]]
      BY <1>1, <2>3, <3>1, <3>3
    <3>5. h[i][1] < h[j][1]
      BY <1>3, <1>5, <1>6, <3>1 DEF t
    <3> QED
      BY <1>11, <1>13, <2>3, <3>1, <3>4, <3>5 DEF Follows
  <2>4. j \in 1..b \/ i \in b + 1..Len(h) \/ i = b
    BY <1>2, <1>13
  <2> QED
    BY <2>1, <2>2, <2>3, <2>4
<1>14. Len(h) \in Places(h, M)
  <2>1. CASE b = Len(h)
    <3>1. b \in Places(g, L)
      BY <1>1, <1>4 DEF InTurns
    <3> QED
      BY <1>8, <2>1, <3>1
  <2>2. CASE b # Len(h)
    <3>1. Len(h) \in b + 1..Len(h) /\ Len(h) \in 0..Len(h)
      BY <1>2, <2>2
    <3>2. h[Len(h)][2] = n /\ h[Len(h)][1] = t
      BY <1>6, <3>1 DEF n
    <3> QED
      BY <1>3, <3>1, <3>2 DEF Places
  <2> QED
    BY <2>1, <2>2
<1>15. InTurns(h, M)
  BY <1>9, <1>10, <1>12, <1>13, <1>14 DEF InTurns
<1> QED
  BY <1>8, <1>15 DEF M, n, g

-----------------------------------------------------------------------------
\* A history with what goes back into it.
Marked(h, L, u, s, sys) ==
    /\ InTurns(h, L)
    /\ u \in Stacks(Places(h, L)) /\ s \in Stacks(Places(h, L))
    /\ sys \in Places(h, L)
    /\ \A i \in 1..sys : h[i][1] <= 2
    /\ \A i \in 2..Len(u) : sys <= u[i]

LEMMA SmallerOfTwo ==
    ASSUME NEW a \in Nat, NEW b \in Nat
    PROVE  Min({a, b}) = IF a <= b THEN a ELSE b
<1>1. \A x \in {a, b} : (\A y \in {a, b} : x <= y) <=> x = IF a <= b THEN a ELSE b
  OBVIOUS
<1>2. (IF a <= b THEN a ELSE b) \in {a, b}
  OBVIOUS
<1> QED
  BY <1>1, <1>2 DEF Min

LEMMA PlacesAreNat ==
    ASSUME NEW h \in Seq(Tokens), NEW L
    PROVE  Places(h, L) \in SUBSET Nat /\ Places(h, L) \in SUBSET (0..Len(h))
<1>1. Len(h) \in Nat
  OBVIOUS
<1> QED
  BY <1>1 DEF Places

LEMMA MarkedTypes ==
    ASSUME NEW h \in Seq(Tokens), NEW L, NEW u, NEW s, NEW sys, Marked(h, L, u, s, sys)
    PROVE  /\ u \in Seq(Nat) /\ Ascending(u) /\ \A i \in 1..Len(u) : u[i] \in 0..Len(h)
           /\ s \in Seq(Nat) /\ Ascending(s) /\ \A i \in 1..Len(s) : s[i] \in 0..Len(h)
           /\ sys \in 0..Len(h)
<1>1. Places(h, L) \in SUBSET Nat /\ Places(h, L) \in SUBSET (0..Len(h))
  BY PlacesAreNat
<1>2. ASSUME NEW m \in Stacks(Places(h, L))
      PROVE  m \in Seq(Nat) /\ Ascending(m) /\ \A i \in 1..Len(m) : m[i] \in 0..Len(h)
  <2>1. m \in Stacks(Nat)
    BY <1>1, WiderStacks
  <2>2. m \in Stacks(0..Len(h))
    BY <1>1, WiderStacks
  <2> QED
    BY <2>1, <2>2 DEF Stacks
<1> QED
  BY <1>1, <1>2 DEF Marked

\* fix_stacks and record_undo put everything where the history, now g, has a place.
LEMMA FixedMarks ==
    ASSUME NEW g \in Seq(Tokens), NEW L, InTurns(g, L),
           NEW P \in SUBSET Nat, \A p \in P : p <= Len(g) => p \in Places(g, L),
           NEW u \in Stacks(P), NEW s \in Stacks(P), NEW sys \in P,
           \A i \in 2..Len(u) : sys <= u[i],
           \A i \in 1..sys : i <= Len(g) => g[i][1] <= 2
    PROVE  Marked(g, L, RecordUndo(FixStack(u, Len(g)), Len(g)), FixStack(s, Len(g)),
                  Min({sys, Len(g)}))
<1> DEFINE n == Len(g)
           Q == Places(g, L)
           v == FixStack(u, n)
           w == RecordUndo(v, n)
           low == Min({sys, n})
<1>1. n \in Nat /\ n \in Q /\ Q \in SUBSET Nat
  BY PlacesAreNat DEF InTurns
<1>2. low = (IF sys <= n THEN sys ELSE n) /\ sys \in Nat
  BY <1>1, SmallerOfTwo
<1> HIDE DEF n, Q, v, w, low
<1>3. \A p \in P : p <= n => p \in Q
  BY DEF n, Q
<1>4. ASSUME NEW m \in Stacks(P) PROVE FixStack(m, n) \in Stacks(Q)
  <2>1. /\ FixStack(m, n) \in Stacks(P)
        /\ \A i \in 1..Len(FixStack(m, n)) : FixStack(m, n)[i] = m[i] /\ m[i] <= n
    BY <1>1, FixedStack
  <2>2. \A i \in 1..Len(FixStack(m, n)) : FixStack(m, n)[i] \in P => FixStack(m, n)[i] \in Q
    BY <1>3, <2>1
  <2> QED
    BY <2>1, <2>2, WiderStacks
<1>5. /\ v \in Stacks(Q) /\ Len(v) <= Len(u)
      /\ \A i \in 1..Len(v) : v[i] = u[i] /\ v[i] <= n
  <2>1. /\ v \in Stacks(P) /\ Len(v) <= Len(u)
        /\ \A i \in 1..Len(v) : v[i] = u[i] /\ u[i] <= n
    BY <1>1, FixedStack DEF v
  <2> QED
    BY <1>4, <2>1 DEF v
<1>6. /\ w \in Stacks(Q) /\ Len(w) \in Nat
      /\ \A i \in 1..Len(w) : (i \in 1..Len(v) /\ w[i] = v[i]) \/ w[i] = n
  BY <1>1, <1>5, RecordedStack DEF w
<1>7. low \in Q /\ low <= n /\ low <= sys /\ low \in Nat
  BY <1>1, <1>2, <1>3
<1>8. \A i \in 2..Len(w) : low <= w[i]
  <2> TAKE i \in 2..Len(w)
  <2>1. i \in 1..Len(w)
    BY <1>6
  <2>2. CASE w[i] = n
    BY <1>7, <2>2
  <2>3. CASE i \in 1..Len(v) /\ w[i] = v[i]
    <3>1. Len(u) \in Nat /\ Len(v) \in Nat
      BY <1>5 DEF Stacks
    <3>2. i \in 2..Len(u) /\ i \in 1..Len(u)
      BY <1>5, <1>6, <2>3, <3>1
    <3>3. w[i] = u[i] /\ sys <= u[i]
      BY <1>5, <2>3, <3>2
    <3>4. u[i] \in P
      BY <3>2 DEF Stacks
    <3>5. u[i] \in Nat
      BY <3>4
    <3> QED
      BY <1>2, <1>7, <3>3, <3>5
  <2> QED
    BY <1>6, <2>1, <2>2, <2>3
<1>9. \A i \in 1..low : g[i][1] <= 2
  BY <1>2, <1>7 DEF n
<1>10. FixStack(s, n) \in Stacks(Q)
  BY <1>4
<1> QED
  BY <1>6, <1>7, <1>8, <1>9, <1>10 DEF Marked, n, Q, v, w, low

\* Going back to a place.
LEMMA CutMarks ==
    ASSUME NEW L \in Seq(Nat), NEW h \in Seq(Tokens), NEW u, NEW s, NEW sys,
           Marked(h, L, u, s, sys), NEW n \in Places(h, L),
           NEW v \in Stacks(Places(h, L)), NEW w \in Stacks(Places(h, L)),
           \A i \in 2..Len(v) : sys <= v[i]
    PROVE  /\ SubSeq(h, 1, n) \in Seq(Tokens) /\ Len(SubSeq(h, 1, n)) = n
           /\ Marked(SubSeq(h, 1, n), L, RecordUndo(FixStack(v, n), n), FixStack(w, n),
                     Min({sys, n}))
<1> DEFINE g == SubSeq(h, 1, n)
           P == Places(h, L)
<1>1. P \in SUBSET Nat /\ n \in 0..Len(h) /\ InTurns(h, L) /\ sys \in P
  BY PlacesAreNat DEF Marked
<1>2. g \in Seq(Tokens) /\ Len(g) = n /\ \A i \in 1..n : g[i] = h[i]
  BY <1>1, CutHistory
<1>3. InTurns(g, L) /\ \A p \in P : p <= n => p \in Places(g, L)
  BY <1>1, CutTurns
<1>4. \A i \in 1..sys : i <= n => g[i][1] <= 2
  <2>1. \A i \in 1..sys : h[i][1] <= 2
    BY DEF Marked
  <2>2. \A i \in 1..sys : i <= n => i \in 1..n
    BY <1>1
  <2> QED
    BY <1>2, <2>1, <2>2
<1> HIDE DEF g, P
<1>5. v \in Stacks(P) /\ w \in Stacks(P)
  BY DEF P
<1> QED
  BY <1>1, <1>2, <1>3, <1>4, <1>5, FixedMarks DEF g

\* The end of the present turn.
LEMMA PresentMarks ==
    ASSUME NEW L \in Seq(Nat), NEW h \in Seq(Tokens), NEW b \in 0..Len(h),
           NEW u, NEW s, NEW sys, Marked(SubSeq(h, 1, b), L, u, s, sys),
           \A i \in b + 1..Len(h) : h[i] = <<Len(L) + 1, i - b>>
    PROVE  Marked(h, Append(L, Len(h) - b), u, s, sys)
<1> DEFINE g == SubSeq(h, 1, b)
           M == Append(L, Len(h) - b)
<1>1. g \in Seq(Tokens) /\ Len(g) = b /\ \A i \in 1..b : g[i] = h[i]
  BY CutHistory
<1>2. InTurns(h, M) /\ \A m \in Places(g, L) : m \in Places(h, M)
  BY PresentTurn DEF Marked
<1> HIDE DEF g, M
<1>3. Marked(g, L, u, s, sys)
  BY DEF g
<1>4. u \in Stacks(Places(h, M)) /\ s \in Stacks(Places(h, M))
  BY <1>2, <1>3, WiderStacks DEF Marked
<1>5. sys \in 0..b
  BY <1>1, <1>3, MarkedTypes
<1>6. \A i \in 1..sys : h[i][1] <= 2
  <2>1. \A i \in 1..sys : i \in 1..b
    BY <1>5
  <2> QED
    BY <1>1, <1>3, <2>1 DEF Marked
<1>7. Marked(h, M, u, s, sys)
  BY <1>2, <1>3, <1>4, <1>6 DEF Marked
<1> QED
  BY <1>7 DEF M

-----------------------------------------------------------------------------
\* What was there before the present turn.
Kept == IF pc = "prompt" THEN history ELSE SubSeq(history, 1, before)

\* The present turn as far as it has come, and that the rest of a text or an image
\* of which some was evaluated fits.
Present ==
    /\ before \in 0..used
    /\ \A i \in before + 1..used : history[i] = <<present, i - before>>
    /\ \A i \in 1..Len(parts) : parts[i] # 0
    /\ pc = "eval" /\ parts # <<>> /\ done # 0
          => done < Head(parts) /\ used + (Head(parts) - done) <= ContextSize

ChatInv ==
    /\ TypeOK
    /\ used <= ContextSize
    /\ cells = CellsOf(history)
    /\ Marked(Kept, said, undo, stack, system)
    /\ pc # "prompt" => Present

LEMMA CacheMeaning == CacheIsHistory <=> cells = CellsOf(history)
BY DEF CacheIsHistory, CellsOf, used

\* A command.
LEMMA CommandChat ==
    ASSUME ChatInv, pc = "prompt", UNCHANGED <<manual, sigint, pc, evaluation, said>>,
           history' \in Seq(Tokens), Len(history') <= used, cells' = CellsOf(history'),
           Marked(history', said, undo', stack', system')
    PROVE  ChatInv'
<1>1. Len(history') \in Nat /\ used \in Nat /\ ContextSize \in Nat
  BY ChatAssumption DEF ChatInv, TypeOK, used
<1>2. used' <= ContextSize
  BY <1>1 DEF ChatInv, used
<1>3. Kept' = history' /\ pc' = "prompt" /\ said' = said
  BY DEF Kept
<1>4. cells' \subseteq Nat \X Tokens
  <2>1. ASSUME NEW i \in 1..Len(history') PROVE <<i - 1, history'[i]>> \in Nat \X Tokens
    OBVIOUS
  <2> QED
    BY <2>1 DEF CellsOf
<1>5. undo' \in Seq(Nat) /\ stack' \in Seq(Nat) /\ system' \in 0..ContextSize
  <2>1. undo' \in Seq(Nat) /\ stack' \in Seq(Nat) /\ system' \in 0..Len(history')
    BY MarkedTypes
  <2> QED
    BY <1>1, <1>2, <2>1 DEF used
<1>6. TypeOK'
  BY <1>4, <1>5 DEF ChatInv, TypeOK, evaluation, Tokens
<1> QED
  BY <1>2, <1>3, <1>6 DEF ChatInv

\* The loop of repl() goes on.
LEMMA PromptChat ==
    ASSUME ChatInv, NEW length \in Nat, Prompt(length), sigint' \in BOOLEAN,
           history' \in Seq(Tokens), used' <= ContextSize, cells' = CellsOf(history'),
           Marked(history', Append(said, length), undo, stack, system)
    PROVE  ChatInv'
<1> DEFINE n == Len(history')
           P == Places(history', Append(said, length))
<1>1. n \in Nat /\ ContextSize \in Nat /\ n <= ContextSize
  BY ChatAssumption DEF used
<1>2. P \in SUBSET Nat /\ P \in SUBSET (0..n) /\ n \in P
  BY PlacesAreNat DEF Marked, InTurns
<1>3. /\ pc' = "prompt" /\ said' = Append(said, length) /\ undo' = RecordUndo(undo, n)
      /\ parts' = <<>> /\ done' = 0 /\ stack' = stack /\ system' = system /\ manual' = manual
      /\ work' = work /\ before' = before
  BY DEF Prompt
<1>4. undo \in Stacks(P) /\ stack \in Stacks(P) /\ system \in P
  BY DEF Marked
<1> HIDE DEF n, P
<1>5. undo \in Seq(P) /\ \A i \in 1..Len(undo) : undo[i] <= n
  <2>1. undo \in Seq(P)
    BY <1>4 DEF Stacks
  <2>2. \A i \in 1..Len(undo) : undo[i] \in P
    BY <2>1
  <2>3. \A x \in P : x <= n
    BY <1>1, <1>2
  <2> QED
    BY <2>1, <2>2, <2>3
<1>6. /\ undo' \in Stacks(P) /\ Len(undo') \in Nat
      /\ \A i \in 1..Len(undo') : (i \in 1..Len(undo) /\ undo'[i] = undo[i]) \/ undo'[i] = n
  BY <1>2, <1>3, <1>4, <1>5, RecordedStack
<1>7. system \in 0..n
  BY <1>2, <1>4
<1>8. \A i \in 2..Len(undo') : system <= undo'[i]
  <2> TAKE i \in 2..Len(undo')
  <2>1. i \in 1..Len(undo') /\ (i \in 1..Len(undo) => i \in 2..Len(undo))
    BY <1>6
  <2>2. \A j \in 2..Len(undo) : system <= undo[j]
    BY DEF Marked
  <2>3. system <= n
    BY <1>1, <1>7
  <2> QED
    BY <1>6, <2>1, <2>2, <2>3
<1>9. Marked(history', said', undo', stack', system')
  BY <1>3, <1>4, <1>6, <1>8 DEF Marked, P
<1>10. Kept' = history'
  BY <1>3 DEF Kept
<1>11. cells' \subseteq Nat \X Tokens
  <2>1. ASSUME NEW i \in 1..Len(history') PROVE <<i - 1, history'[i]>> \in Nat \X Tokens
    OBVIOUS
  <2> QED
    BY <2>1 DEF CellsOf
<1>12. undo' \in Seq(Nat) /\ stack' \in Seq(Nat) /\ system' \in 0..ContextSize
  <2>1. undo' \in Seq(Nat) /\ stack' \in Seq(Nat) /\ system' \in 0..n
    BY <1>9, MarkedTypes DEF n
  <2> QED
    BY <1>1, <2>1
<1>13. said' \in Seq(Nat)
  BY <1>3 DEF ChatInv, TypeOK
<1>14. TypeOK'
  BY <1>3, <1>11, <1>12, <1>13 DEF ChatInv, TypeOK, Tokens
<1> QED
  BY <1>3, <1>9, <1>10, <1>14 DEF ChatInv

-----------------------------------------------------------------------------
LEMMA InitChat == Init => ChatInv
<1> SUFFICES ASSUME Init PROVE ChatInv
  OBVIOUS
<1>1. PICK bos \in 0..1, prompt \in 0..2 :
        /\ bos + prompt <= ContextSize
        /\ said = <<bos, prompt>>
        /\ history = Whole(1) \o Whole(2)
        /\ cells = {<<i - 1, history[i]>> : i \in 1..used}
        /\ undo = IF prompt = 0 THEN <<bos>> ELSE <<bos, used>>
        /\ stack = <<>>
        /\ system = IF prompt = 0 THEN 0 ELSE used
        /\ manual = FALSE /\ sigint = FALSE
        /\ pc = "prompt"
        /\ work = "line" /\ parts = <<>> /\ done = 0 /\ before = 0
  BY DEF Init
<1>2. bos \in Nat /\ prompt \in Nat /\ ContextSize \in Nat
  BY ChatAssumption
<1> DEFINE one == [k \in 1..bos |-> <<1, k>>]
           other == [k \in 1..prompt |-> <<2, k>>]
           n == bos + prompt
<1>3. Whole(1) = one /\ Whole(2) = other
  BY <1>1 DEF Whole
<1>4. one \in Seq(Tokens) /\ Len(one) = bos /\ \A i \in 1..bos : one[i] = <<1, i>>
  BY <1>2 DEF Tokens
<1>5. other \in Seq(Tokens) /\ Len(other) = prompt /\ \A i \in 1..prompt : other[i] = <<2, i>>
  BY <1>2 DEF Tokens
<1> HIDE DEF one, other
<1>6. /\ history \in Seq(Tokens) /\ Len(history) = n
      /\ \A i \in 1..bos : history[i] = one[i]
      /\ \A i \in bos + 1..n : history[i] = other[i - bos]
  BY <1>1, <1>2, <1>3, <1>4, <1>5
<1>7. InTurns(one, <<bos>>)
  <2>1. <<>> \in Seq(Nat) /\ Len(<<>>) = 0 /\ SubSeq(one, 1, 0) = <<>> /\ 0 \in 0..Len(one)
    BY <1>2, <1>4
  <2>2. InTurns(<<>>, <<>>)
    BY DEF InTurns, Places
  <2>3. \A i \in 0 + 1..Len(one) : one[i] = <<Len(<<>>) + 1, i - 0>>
    BY <1>4, <2>1
  <2>4. InTurns(one, Append(<<>>, Len(one) - 0))
    BY <1>4, <2>1, <2>2, <2>3, PresentTurn
  <2>5. Append(<<>>, Len(one) - 0) = <<bos>>
    BY <1>2, <1>4
  <2> QED
    BY <2>4, <2>5
<1>8. InTurns(history, said) /\ \A m \in Places(one, <<bos>>) : m \in Places(history, said)
  <2>1. SubSeq(history, 1, bos) = one
    <3>1. bos \in 0..Len(history)
      BY <1>2, <1>6
    <3>2. /\ SubSeq(history, 1, bos) \in Seq(Tokens) /\ Len(SubSeq(history, 1, bos)) = bos
          /\ \A i \in 1..bos : SubSeq(history, 1, bos)[i] = history[i]
      BY <1>6, <3>1, CutHistory
    <3> QED
      BY <1>4, <1>6, <3>2, SeqEqual
  <2>2. <<bos>> \in Seq(Nat) /\ Len(<<bos>>) = 1 /\ bos \in 0..Len(history)
    BY <1>2, <1>6
  <2>3. \A i \in bos + 1..Len(history) : history[i] = <<Len(<<bos>>) + 1, i - bos>>
    <3> TAKE i \in bos + 1..Len(history)
    <3>1. i \in bos + 1..n /\ i - bos \in 1..prompt
      BY <1>2, <1>6
    <3> QED
      BY <1>5, <1>6, <2>2, <3>1, SMTT(30)
  <2>4. Append(<<bos>>, Len(history) - bos) = said
    <3>1. Len(history) - bos = prompt
      BY <1>2, <1>6
    <3>2. Append(<<bos>>, prompt) = <<bos, prompt>>
      <4> DEFINE a == Append(<<bos>>, prompt)
                 b == <<bos, prompt>>
      <4>1. a \in Seq(Nat) /\ Len(a) = 2 /\ a[1] = bos /\ a[2] = prompt
        <5>1. <<bos>> \in Seq(Nat) /\ Len(<<bos>>) = 1 /\ <<bos>>[1] = bos
          BY <1>2
        <5> QED
          BY <1>2, <5>1, AppendProperties
      <4>2. b \in Seq(Nat) /\ Len(b) = 2 /\ b[1] = bos /\ b[2] = prompt
        BY <1>2
      <4> HIDE DEF a, b
      <4>3. \A i \in 1..2 : i = 1 \/ i = 2
        OBVIOUS
      <4>4. a = b
        BY <4>1, <4>2, <4>3, SeqEqual
      <4> QED
        BY <4>4 DEF a, b
    <3> QED
      BY <1>1, <3>1, <3>2
  <2> QED
    BY <1>6, <1>7, <2>1, <2>2, <2>3, <2>4, PresentTurn
<1>9. bos \in Places(history, said) /\ used \in Places(history, said) /\ 0 \in Places(history, said)
  <2>1. bos \in Places(one, <<bos>>)
    BY <1>4, <1>7 DEF InTurns
  <2>2. 0 \in Places(history, said)
    BY <1>6 DEF Places
  <2> QED
    BY <1>8, <2>1, <2>2 DEF InTurns, used
<1>10. used = n /\ bos <= n /\ bos <= bos /\ n <= n
  BY <1>2, <1>6 DEF used
<1>11. system = IF prompt = 0 THEN 0 ELSE n
  BY <1>1, <1>10
<1>12. undo \in Stacks(Places(history, said)) /\ \A i \in 2..Len(undo) : system <= undo[i]
  <2>1. CASE prompt = 0
    <3>1. undo = <<bos>> /\ Len(<<bos>>) = 1 /\ <<bos>> \in Seq(Places(history, said))
      BY <1>1, <1>9, <2>1
    <3>2. Ascending(<<bos>>)
      BY <1>10 DEF Ascending
    <3>3. \A i \in 2..Len(undo) : FALSE
      BY <3>1
    <3> QED
      BY <3>1, <3>2, <3>3 DEF Stacks
  <2>2. CASE prompt # 0
    <3>1. undo = <<bos, n>> /\ <<bos, n>> \in Seq(Places(history, said))
      BY <1>1, <1>9, <1>10, <2>2
    <3>2. Len(<<bos, n>>) = 2 /\ <<bos, n>>[1] = bos /\ <<bos, n>>[2] = n
      OBVIOUS
    <3> DEFINE two == <<bos, n>>
    <3> HIDE DEF two
    <3>3. Ascending(two)
      <4>1. \A i, j \in 1..2 : i <= j => ((i = 1 \/ i = 2) /\ (j = 1 \/ j = 2) /\ ~(i = 2 /\ j = 1))
        OBVIOUS
      <4>2. Len(two) = 2 /\ two[1] = bos /\ two[2] = n
        BY <3>2 DEF two
      <4> QED
        BY <1>10, <4>1, <4>2 DEF Ascending
    <3>4. \A i \in 2..2 : i = 2
      OBVIOUS
    <3>5. \A i \in 2..Len(undo) : system <= undo[i]
      BY <1>10, <1>11, <2>2, <3>1, <3>2, <3>4
    <3> QED
      BY <3>1, <3>3, <3>5 DEF Stacks, two
  <2> QED
    BY <2>1, <2>2
<1>13. stack \in Stacks(Places(history, said))
  BY <1>1 DEF Stacks, Ascending
<1>14. \A i \in 1..system : history[i][1] <= 2
  <2>1. system \in 0..n
    BY <1>2, <1>11
  <2> TAKE i \in 1..system
  <2>2. i \in 1..bos \/ (i \in bos + 1..n /\ i - bos \in 1..prompt)
    BY <1>2, <2>1
  <2> QED
    BY <1>4, <1>5, <1>6, <2>2
<1>16. system \in Places(history, said)
  BY <1>1, <1>9
<1>17. Marked(history, said, undo, stack, system)
  BY <1>8, <1>12, <1>13, <1>14, <1>16 DEF Marked
<1>18. TypeOK
  <2>1. cells \subseteq Nat \X Tokens
    <3>1. ASSUME NEW i \in 1..used PROVE <<i - 1, history[i]>> \in Nat \X Tokens
      BY <1>6 DEF used
    <3> QED
      BY <1>1, <3>1
  <2>2. undo \in Seq(Nat) /\ stack \in Seq(Nat) /\ system \in 0..Len(history)
    BY <1>6, <1>17, MarkedTypes
  <2>3. system \in 0..ContextSize /\ before \in 0..ContextSize
    BY <1>1, <1>2, <1>11
  <2>4. said \in Seq(Nat) /\ parts \in Seq(Nat) /\ done \in Nat
    BY <1>1, <1>2
  <2>5. /\ {manual, sigint} \subseteq BOOLEAN /\ work \in {"line", "file"}
        /\ pc \in {"prompt", "eval", "reply", "sampled"}
    BY <1>1
  <2>6. history \in Seq(Nat \X Nat) /\ cells \subseteq Nat \X (Nat \X Nat)
    BY <1>6, <2>1 DEF Tokens
  <2> QED
    BY <2>2, <2>3, <2>4, <2>5, <2>6 DEF TypeOK
<1> QED
  BY <1>1, <1>10, <1>17, <1>18 DEF ChatInv, Kept, CellsOf, used

-----------------------------------------------------------------------------
\* What ChatInv says at the prompt.
LEMMA AtPrompt ==
    ASSUME ChatInv, pc = "prompt"
    PROVE  /\ history \in Seq(Tokens) /\ said \in Seq(Nat) /\ Len(history) \in Nat
           /\ Marked(history, said, undo, stack, system) /\ cells = CellsOf(history)
           /\ undo \in Stacks(Places(history, said)) /\ stack \in Stacks(Places(history, said))
           /\ system \in Places(history, said) /\ Len(history) \in Places(history, said)
           /\ Places(history, said) \in SUBSET Nat
           /\ Places(history, said) \in SUBSET (0..Len(history))
           /\ \A i \in 2..Len(undo) : system <= undo[i]
<1>1. history \in Seq(Tokens) /\ said \in Seq(Nat) /\ Marked(history, said, undo, stack, system)
      /\ cells = CellsOf(history)
  BY DEF ChatInv, TypeOK, Kept, Tokens
<1>2. InTurns(history, said)
  BY <1>1 DEF Marked
<1> QED
  BY <1>1, <1>2, PlacesAreNat DEF Marked, InTurns

\* Going back to a place, by a command.
LEMMA RewindChat ==
    ASSUME ChatInv, Command, NEW n \in Places(history, said), Rewind(n),
           NEW v \in Stacks(Places(history, said)), NEW w \in Stacks(Places(history, said)),
           \A i \in 2..Len(v) : system <= v[i], FixStacks(v, w, n)
    PROVE  ChatInv'
<1>1. pc = "prompt" /\ UNCHANGED <<manual, sigint, pc, evaluation, said>>
  BY DEF Command
<1>2. /\ history \in Seq(Tokens) /\ said \in Seq(Nat) /\ Len(history) \in Nat
      /\ Marked(history, said, undo, stack, system) /\ cells = CellsOf(history)
      /\ Places(history, said) \in SUBSET (0..Len(history))
  BY <1>1, AtPrompt
<1>3. n \in 0..Len(history)
  BY <1>2
<1>4. history' = SubSeq(history, 1, n) /\ cells' = CellsOf(history')
  BY <1>2, <1>3, CutCells DEF Rewind
<1>5. /\ undo' = RecordUndo(FixStack(v, n), n) /\ stack' = FixStack(w, n)
      /\ system' = Min({system, n})
  BY DEF FixStacks
<1>6. /\ SubSeq(history, 1, n) \in Seq(Tokens) /\ Len(SubSeq(history, 1, n)) = n
      /\ Marked(SubSeq(history, 1, n), said, RecordUndo(FixStack(v, n), n), FixStack(w, n),
                Min({system, n}))
  BY <1>2, CutMarks
<1>7. history' \in Seq(Tokens) /\ Len(history') <= used
      /\ Marked(history', said, undo', stack', system')
  BY <1>2, <1>3, <1>4, <1>5, <1>6 DEF used
<1> QED
  BY <1>1, <1>4, <1>7, CommandChat

LEMMA UndoChat == ChatInv /\ Undo => ChatInv'
<1> SUFFICES ASSUME ChatInv, Undo PROVE ChatInv'
  OBVIOUS
<1> DEFINE S == {i \in 1..Len(undo) : undo[i] # used}
           k == Max({0} \cup S)
           earlier == Upto(undo, k)
           P == Places(history, said)
<1>1. /\ Command
      /\ IF earlier = <<>>
         THEN undo' = <<used>> /\ UNCHANGED <<history, cells, stack, system>>
         ELSE Rewind(Last(earlier)) /\ FixStacks(Front(earlier), stack, Last(earlier))
  BY DEF Undo
<1>2. pc = "prompt" /\ UNCHANGED <<manual, sigint, pc, evaluation, said>>
  BY <1>1 DEF Command
<1>3. /\ history \in Seq(Tokens) /\ said \in Seq(Nat) /\ Len(history) \in Nat
      /\ Marked(history, said, undo, stack, system) /\ cells = CellsOf(history)
      /\ undo \in Stacks(P) /\ stack \in Stacks(P) /\ system \in P /\ Len(history) \in P
      /\ P \in SUBSET Nat /\ \A i \in 2..Len(undo) : system <= undo[i]
  BY <1>2, AtPrompt
<1>4. undo \in Seq(P) /\ Len(undo) \in Nat
  BY <1>3 DEF Stacks
<1>5. k \in 0..Len(undo)
  <2>1. S \in SUBSET (1..Len(undo))
    OBVIOUS
  <2> HIDE DEF S
  <2> QED
    BY <1>4, <2>1, HighestEntry
<1> HIDE DEF k, P
<1>6. earlier \in Stacks(P) /\ Len(earlier) = k /\ \A i \in 1..k : earlier[i] = undo[i]
  BY <1>3, <1>5, UptoStack
<1> HIDE DEF earlier
<1>7. CASE earlier = <<>>
  <2>1. undo' = <<used>> /\ UNCHANGED <<history, cells, stack, system>>
    BY <1>1, <1>7
  <2>2. <<used>> \in Stacks(P) /\ \A i \in 2..Len(<<used>>) : system <= <<used>>[i]
    BY <1>3 DEF Stacks, Ascending, used
  <2>3. Marked(history', said, undo', stack', system')
    BY <1>3, <2>1, <2>2 DEF Marked, P
  <2>4. Len(history') <= used
    BY <1>3, <2>1 DEF used
  <2> QED
    BY <1>2, <1>3, <2>1, <2>3, <2>4, CommandChat
<1>8. CASE earlier # <<>>
  <2>1. k \in 1..Len(undo) /\ k - 1 \in 0..Len(earlier) /\ earlier \in Seq(P)
    <3>1. earlier \in Seq(P)
      BY <1>6 DEF Stacks
    <3>2. k # 0
      BY <1>6, <1>8, <3>1
    <3> QED
      BY <1>4, <1>5, <1>6, <3>1, <3>2
  <2> DEFINE n == Last(earlier)
             v == Front(earlier)
  <2>2. n = earlier[k] /\ n \in P
    <3>1. n = earlier[k]
      BY <1>6 DEF Last
    <3>2. k \in 1..Len(earlier)
      BY <1>6, <2>1
    <3>3. earlier[k] \in P
      BY <2>1, <3>2, ElementOfSeq
    <3> QED
      BY <3>1, <3>3
  <2>3. v = Upto(earlier, k - 1)
    BY <1>6 DEF Front, Upto
  <2>4. v \in Stacks(P) /\ Len(v) = k - 1 /\ \A i \in 1..k - 1 : v[i] = earlier[i]
    <3>1. P \in SUBSET Nat /\ earlier \in Stacks(P) /\ k - 1 \in 0..Len(earlier)
      BY <1>3, <1>6, <2>1
    <3> QED
      BY <2>3, <3>1, UptoStack
  <2>5. \A i \in 2..Len(v) : system <= v[i]
    <3> TAKE i \in 2..Len(v)
    <3>1. i \in 1..k - 1 /\ i \in 1..k /\ i \in 2..Len(undo)
      BY <1>4, <2>1, <2>4
    <3> QED
      BY <1>3, <1>6, <2>4, <3>1
  <2>6. Rewind(n) /\ FixStacks(v, stack, n)
    BY <1>1, <1>8
  <2> HIDE DEF n, v
  <2> QED
    BY <1>1, <1>3, <2>2, <2>4, <2>5, <2>6, RewindChat DEF P
<1> QED
  BY <1>7, <1>8

LEMMA ClearChat == ChatInv /\ Clear => ChatInv'
<1> SUFFICES ASSUME ChatInv, Clear PROVE ChatInv'
  OBVIOUS
<1>1. Command /\ Rewind(system) /\ FixStacks(undo, <<>>, system) /\ pc = "prompt"
  BY DEF Clear, Command
<1>2. /\ undo \in Stacks(Places(history, said)) /\ system \in Places(history, said)
      /\ \A i \in 2..Len(undo) : system <= undo[i]
  BY <1>1, AtPrompt
<1>3. <<>> \in Stacks(Places(history, said))
  BY DEF Stacks, Ascending
<1> QED
  BY <1>1, <1>2, <1>3, RewindChat

LEMMA PopChat == ChatInv /\ Pop => ChatInv'
<1> SUFFICES ASSUME ChatInv, Pop PROVE ChatInv'
  OBVIOUS
<1> DEFINE P == Places(history, said)
           n == Last(stack)
           w == Front(stack)
<1>1. Command /\ Rewind(n) /\ FixStacks(undo, w, n) /\ pc = "prompt" /\ stack # <<>>
  BY DEF Pop, Command
<1>2. /\ undo \in Stacks(P) /\ stack \in Stacks(P) /\ P \in SUBSET Nat
      /\ \A i \in 2..Len(undo) : system <= undo[i]
  BY <1>1, AtPrompt
<1>3. stack \in Seq(P)
  BY <1>2 DEF Stacks
<1>4. Len(stack) \in Nat /\ Len(stack) # 0
  BY <1>1, <1>3
<1> HIDE DEF P
<1>5. n \in P
  BY <1>3, <1>4 DEF Last
<1>6. w = Upto(stack, Len(stack) - 1) /\ Len(stack) - 1 \in 0..Len(stack)
  BY <1>4 DEF Front, Upto
<1>7. w \in Stacks(P)
  BY <1>2, <1>6, UptoStack
<1> HIDE DEF n, w
<1> QED
  BY <1>1, <1>2, <1>5, <1>7, RewindChat DEF P

LEMMA PushChat == ChatInv /\ Push => ChatInv'
<1> SUFFICES ASSUME ChatInv, Push PROVE ChatInv'
  OBVIOUS
<1> DEFINE P == Places(history, said)
<1>1. /\ Command /\ stack' = Append(stack, used)
      /\ UNCHANGED <<history, cells, undo, system>>
  BY DEF Push
<1>2. pc = "prompt" /\ UNCHANGED <<manual, sigint, pc, evaluation, said>>
  BY <1>1 DEF Command
<1>3. /\ history \in Seq(Tokens) /\ Len(history) \in Nat /\ cells = CellsOf(history)
      /\ Marked(history, said, undo, stack, system)
      /\ stack \in Stacks(P) /\ Len(history) \in P
      /\ P \in SUBSET Nat /\ P \in SUBSET (0..Len(history))
  BY <1>2, AtPrompt
<1> HIDE DEF P
<1>4. Append(stack, used) \in Stacks(P)
  <2>1. /\ stack \in Seq(P) /\ used \in P /\ used \in Nat
        /\ \A i, j \in 1..Len(stack) : i <= j => stack[i] <= stack[j]
    BY <1>3, StackEntries DEF used
  <2> DEFINE more == Append(stack, used)
  <2>2. /\ more \in Seq(P) /\ Len(more) = Len(stack) + 1 /\ more[Len(stack) + 1] = used
        /\ \A i \in 1..Len(stack) : more[i] = stack[i]
    BY <2>1
  <2>3. Len(stack) \in Nat
    BY <2>1
  <2> HIDE DEF more
  <2>4. \A i \in 1..Len(more) : more[i] \in P
    BY <2>2
  <2>5. \A x \in P : x <= used /\ x \in Nat
    BY <1>3 DEF used
  <2>6. ASSUME NEW i \in 1..Len(more), NEW j \in 1..Len(more), i <= j PROVE more[i] <= more[j]
    <3>1. CASE j = Len(stack) + 1
      BY <2>2, <2>4, <2>5, <3>1
    <3>2. CASE j \in 1..Len(stack)
      <4>1. i \in 1..Len(stack)
        BY <2>2, <2>3, <2>6, <3>2
      <4> QED
        BY <2>1, <2>2, <2>6, <3>2, <4>1
    <3> QED
      BY <2>2, <2>3, <3>1, <3>2
  <2>7. more \in Stacks(P)
    BY <2>2, <2>6, StackEntries
  <2> QED
    BY <2>7 DEF more
<1>5. Marked(history', said, undo', stack', system')
  BY <1>1, <1>3, <1>4 DEF Marked, P
<1>6. Len(history') <= used
  BY <1>1, <1>3 DEF used
<1> QED
  BY <1>1, <1>2, <1>3, <1>5, <1>6, CommandChat

LEMMA ForgetChat == ChatInv /\ Forget => ChatInv'
<1> SUFFICES ASSUME ChatInv, Forget PROVE ChatInv'
  OBVIOUS
<1> DEFINE P == Places(history, said)
           begin == undo[2]
           end == IF Len(undo) > 2 THEN undo[3] ELSE used
           d == end - begin
           v == AdjustStack(begin, end, undo)
           w == AdjustStack(begin, end, stack)
<1>1. /\ Command /\ Len(undo) >= 2 /\ end # begin
      /\ Erase(begin, end) /\ FixStacks(v, w, used - d)
  BY DEF Forget
<1>2. pc = "prompt" /\ UNCHANGED <<manual, sigint, pc, evaluation, said>>
  BY <1>1 DEF Command
<1>3. /\ history \in Seq(Tokens) /\ said \in Seq(Nat) /\ Len(history) \in Nat
      /\ Marked(history, said, undo, stack, system) /\ cells = CellsOf(history)
      /\ undo \in Stacks(P) /\ stack \in Stacks(P) /\ system \in P /\ Len(history) \in P
      /\ P \in SUBSET Nat /\ P \in SUBSET (0..Len(history))
      /\ \A i \in 2..Len(undo) : system <= undo[i]
  BY <1>2, AtPrompt
<1>4. /\ undo \in Seq(P) /\ Len(undo) \in Nat
      /\ \A i, j \in 1..Len(undo) : i <= j => undo[i] <= undo[j]
  BY <1>3, StackEntries
<1> HIDE DEF P
<1>5. /\ begin \in P /\ end \in P /\ begin <= end /\ system <= begin
  <2>1. 2 \in 1..Len(undo) /\ 2 \in 2..Len(undo) /\ begin \in P
    BY <1>1, <1>4
  <2>2. CASE Len(undo) > 2
    <3>1. 3 \in 1..Len(undo) /\ 2 <= 3
      BY <1>4, <2>2
    <3>2. end = undo[3] /\ undo[3] \in P
      BY <1>4, <2>2, <3>1
    <3>3. undo[2] <= undo[3]
      BY <1>4, <2>1, <3>1
    <3> QED
      BY <1>3, <2>1, <3>2, <3>3
  <2>3. CASE ~(Len(undo) > 2)
    <3>1. end = used /\ used \in P
      BY <1>3, <2>3 DEF used
    <3>2. begin <= Len(history)
      <4>1. \A x \in P : x <= Len(history)
        BY <1>3
      <4> QED
        BY <2>1, <4>1
    <3> QED
      BY <1>3, <2>1, <3>1, <3>2 DEF used
  <2> QED
    BY <2>2, <2>3
<1> HIDE DEF begin, end
<1>6. begin \in Nat /\ end \in Nat /\ begin < end /\ begin \in 0..used /\ end \in begin..used
      /\ d \in Nat /\ used \in Nat /\ used - d \in 0..used /\ system \in Nat
  <2>1. begin \in 0..used /\ end \in 0..used
    BY <1>3, <1>5 DEF used
  <2>2. begin \in Nat /\ end \in Nat /\ system \in Nat
    BY <1>3, <1>5
  <2>3. used \in Nat
    BY <1>3 DEF used
  <2> QED
    BY <1>1, <1>5, <2>1, <2>2, <2>3
<1> DEFINE g == Erased(history, begin, end)
           Q == Places(g, said)
<1>7. /\ g \in Seq(Tokens) /\ Len(g) = used - d /\ \A i \in 1..begin : g[i] = history[i]
  BY <1>3, <1>6, ErasedHistory DEF used
<1>8. history' = g /\ cells' = CellsOf(g)
  <2>1. history' = g
    BY <1>1 DEF Erase, Erased, used
  <2>2. {c \in CellsOf(history) : c[1] < begin}
           \cup {<<c[1] - d, c[2]>> : c \in {e \in CellsOf(history) : e[1] >= end}} = CellsOf(g)
    BY <1>3, <1>6, ErasedCells DEF used
  <2> QED
    BY <1>1, <1>3, <2>1, <2>2 DEF Erase
<1>9. /\ InTurns(g, said)
      /\ \A m \in P : /\ m <= begin => m \in Q
                      /\ m < begin \/ m >= end => Adjusted(begin, end, m) \in Q
  <2>1. InTurns(history, said)
    BY <1>3 DEF Marked
  <2> QED
    BY <1>3, <1>5, <1>6, <2>1, ErasedTurns DEF P
<1>10. Q \in SUBSET Nat
  BY <1>7, PlacesAreNat
<1> HIDE DEF g, Q, d
<1>10a. begin <= end /\ \A p \in P : p < begin \/ p >= end => Adjusted(begin, end, p) \in Q
  BY <1>5, <1>9
<1>11. /\ v \in Stacks(Q)
       /\ \A i \in 1..Len(v) :
             \E k \in i..Len(undo) : /\ undo[k] < begin \/ undo[k] >= end
                                     /\ v[i] = Adjusted(begin, end, undo[k])
  BY <1>3, <1>6, <1>10a, <1>10, AdjustedStack
<1>12. w \in Stacks(Q)
  BY <1>3, <1>6, <1>10a, <1>10, AdjustedStack
<1> HIDE DEF v, w
<1>13. \A i \in 2..Len(v) : system <= v[i]
  <2> TAKE i \in 2..Len(v)
  <2>1. Len(v) \in Nat /\ i \in 1..Len(v)
    BY <1>11 DEF Stacks
  <2>2. PICK k \in i..Len(undo) : /\ undo[k] < begin \/ undo[k] >= end
                                  /\ v[i] = Adjusted(begin, end, undo[k])
    BY <1>11, <2>1
  <2>3. k \in 2..Len(undo) /\ k \in 1..Len(undo)
    BY <1>4, <2>1
  <2>4. system <= undo[k]
    BY <1>3, <2>3
  <2>5. undo[k] \in P
    BY <1>4, <2>3
  <2>6. undo[k] \in Nat
    BY <1>3, <2>5
  <2> QED
    BY <1>5, <1>6, <2>2, <2>4, <2>6 DEF Adjusted
<1>14. \A i \in 1..system : i <= Len(g) => g[i][1] <= 2
  <2>1. \A i \in 1..system : i \in 1..begin /\ history[i][1] <= 2
    BY <1>3, <1>5, <1>6 DEF Marked
  <2> QED
    BY <1>7, <2>1
<1>15. system \in Q /\ \A p \in Q : p <= Len(g) => p \in Q
  BY <1>3, <1>5, <1>9
<1>16. Marked(g, said, RecordUndo(FixStack(v, Len(g)), Len(g)), FixStack(w, Len(g)),
              Min({system, Len(g)}))
  BY <1>7, <1>9, <1>10, <1>11, <1>12, <1>13, <1>14, <1>15, FixedMarks DEF Q
<1>17. Marked(history', said, undo', stack', system')
  BY <1>1, <1>7, <1>8, <1>16 DEF FixStacks
<1>18. Len(history') <= used
  BY <1>6, <1>7, <1>8
<1> QED
  BY <1>2, <1>7, <1>8, <1>17, <1>18, CommandChat

-----------------------------------------------------------------------------
\* Steps that change none of this, like the coming of Ctrl-C.
LEMMA SameChat ==
    ASSUME ChatInv, UNCHANGED <<history, cells, marks, before, said>>,
           manual' \in BOOLEAN, sigint' \in BOOLEAN, work' \in {"line", "file"},
           pc' \in {"prompt", "eval", "reply", "sampled"},
           pc' = "prompt" <=> pc = "prompt", pc' = "eval" => pc = "eval",
           UNCHANGED <<parts, done>>
    PROVE  ChatInv'
<1>1. /\ history' = history /\ cells' = cells /\ undo' = undo /\ stack' = stack
      /\ system' = system /\ before' = before /\ said' = said /\ parts' = parts /\ done' = done
  BY DEF marks
<1>2. TypeOK'
  BY <1>1 DEF ChatInv, TypeOK
<1>3. Kept' = Kept /\ used' = used /\ (pc # "prompt" <=> pc' # "prompt")
  BY <1>1 DEF Kept, used
<1>4. Present => Present'
  BY <1>1, <1>3 DEF Present, present
<1> QED
  BY <1>1, <1>2, <1>3, <1>4 DEF ChatInv

LEMMA ManualChat == ChatInv /\ Manual => ChatInv'
<1> SUFFICES ASSUME ChatInv, Manual PROVE ChatInv'
  OBVIOUS
<1>1. TypeOK /\ manual' \in BOOLEAN
  BY DEF ChatInv, TypeOK, Manual
<1>2. /\ pc \in {"prompt", "eval", "reply", "sampled"} /\ sigint \in BOOLEAN
      /\ work \in {"line", "file"}
  BY <1>1 DEF TypeOK
<1> QED
  BY <1>1, <1>2, SameChat DEF Manual, evaluation

LEMMA InterruptChat == ChatInv /\ Interrupt => ChatInv'
<1> SUFFICES ASSUME ChatInv, Interrupt PROVE ChatInv'
  OBVIOUS
<1>1. /\ pc \in {"prompt", "eval", "reply", "sampled"} /\ manual \in BOOLEAN
      /\ work \in {"line", "file"}
  BY DEF ChatInv, TypeOK
<1> QED
  BY <1>1, SameChat DEF Interrupt, evaluation

LEMMA SampleChat == ChatInv /\ Sample => ChatInv'
<1> SUFFICES ASSUME ChatInv, Sample PROVE ChatInv'
  OBVIOUS
<1>1. sigint \in BOOLEAN /\ manual \in BOOLEAN /\ work \in {"line", "file"}
  BY DEF ChatInv, TypeOK
<1> QED
  BY <1>1, SameChat DEF Sample, evaluation

LEMMA SayChat ==
    ASSUME ChatInv, NEW what \in {"line", "file"}, NEW message \in Messages, Say(what, message)
    PROVE  ChatInv'
<1>1. /\ pc = "prompt" /\ pc' = "eval" /\ work' = what /\ parts' = message /\ done' = 0
      /\ before' = used /\ history' = history /\ cells' = cells /\ undo' = undo
      /\ stack' = stack /\ system' = system /\ manual' = manual /\ sigint' = sigint
      /\ said' = said
  BY DEF Say, marks
<1>2. /\ history \in Seq(Tokens) /\ Len(history) \in Nat
      /\ Marked(history, said, undo, stack, system)
  BY <1>1, AtPrompt
<1>3. message \in Seq(Nat \ {0}) /\ ContextSize \in Nat
  BY ChatAssumption
<1>4. Kept' = history
  <2>1. SubSeq(history, 1, Len(history)) = history
    <3> DEFINE g == SubSeq(history, 1, Len(history))
    <3>1. Len(history) \in 0..Len(history)
      BY <1>2
    <3>2. g \in Seq(Tokens) /\ Len(g) = Len(history) /\ \A i \in 1..Len(history) : g[i] = history[i]
      BY <1>2, <3>1, CutHistory
    <3> HIDE DEF g
    <3>3. g = history
      BY <1>2, <3>2, SeqEqual
    <3> QED
      BY <3>3 DEF g
  <2> QED
    BY <1>1, <2>1 DEF Kept, used
<1>5. Present'
  <2>1. before' \in 0..used' /\ \A i \in before' + 1..used' : FALSE
    BY <1>1, <1>2 DEF used
  <2>2. \A i \in 1..Len(parts') : parts'[i] # 0
    BY <1>1, <1>3
  <2> QED
    BY <1>1, <2>1, <2>2 DEF Present
<1>6. TypeOK'
  <2>1. before' \in 0..ContextSize
    BY <1>1, <1>2, <1>3 DEF ChatInv, used
  <2>2. message \in Seq(Nat)
    BY <1>3
  <2> QED
    BY <1>1, <2>1, <2>2 DEF ChatInv, TypeOK
<1> QED
  BY <1>1, <1>2, <1>4, <1>5, <1>6 DEF ChatInv, used

\* What ChatInv says while a message is evaluated or a reply is generated.
LEMMA InTurn ==
    ASSUME ChatInv, pc # "prompt"
    PROVE  /\ history \in Seq(Tokens) /\ said \in Seq(Nat) /\ Len(history) \in Nat
           /\ before \in 0..Len(history) /\ before \in Nat
           /\ Marked(SubSeq(history, 1, before), said, undo, stack, system)
           /\ cells = CellsOf(history) /\ Present /\ Len(history) <= ContextSize
BY SMTT(30) DEF ChatInv, TypeOK, Kept, Present, Tokens, used

\* The message has been evaluated, or the reply has ended, with the history h.
LEMMA TurnEnds ==
    ASSUME ChatInv, pc # "prompt", sigint' \in BOOLEAN, history' \in Seq(Tokens),
           used' <= ContextSize, before \in 0..used', cells' = CellsOf(history'),
           SubSeq(history', 1, before) = SubSeq(history, 1, before),
           \A i \in before + 1..used' : history'[i] = <<present, i - before>>,
           Prompt(Len(history') - before)
    PROVE  ChatInv'
<1> DEFINE h == history'
           n == Len(h) - before
<1>1. said \in Seq(Nat) /\ Marked(SubSeq(h, 1, before), said, undo, stack, system)
  BY InTurn
<1>2. h \in Seq(Tokens) /\ before \in 0..Len(h) /\ n \in Nat
  <2>1. h \in Seq(Tokens) /\ before \in 0..Len(h)
    BY DEF used
  <2> QED
    BY <2>1
<1>3. \A i \in before + 1..Len(h) : h[i] = <<Len(said) + 1, i - before>>
  BY DEF used, present
<1> HIDE DEF h
<1>4. Marked(h, Append(said, n), undo, stack, system)
  BY <1>1, <1>2, <1>3, PresentMarks
<1> HIDE DEF n
<1>5. Prompt(n) /\ Marked(history', Append(said, n), undo, stack, system)
  BY <1>4 DEF h, n
<1> QED
  BY <1>2, <1>5, PromptChat

LEMMA EvalFailsChat ==
    ASSUME ChatInv, pc # "prompt", sigint' \in BOOLEAN, EvalFails
    PROVE  ChatInv'
<1>1. /\ history \in Seq(Tokens) /\ said \in Seq(Nat) /\ Len(history) \in Nat
      /\ before \in 0..Len(history) /\ before \in Nat
      /\ Marked(SubSeq(history, 1, before), said, undo, stack, system)
      /\ cells = CellsOf(history) /\ Len(history) <= ContextSize
  BY InTurn
<1>2. history' = SubSeq(history, 1, before) /\ cells' = CellsOf(history')
  BY <1>1, CutCells DEF EvalFails, Rewind
<1>3. history' \in Seq(Tokens) /\ Len(history') = before
  BY <1>1, <1>2, CutHistory
<1>4. used' <= ContextSize
  <2>1. ContextSize \in Nat
    BY ChatAssumption
  <2> QED
    BY <1>1, <1>3, <2>1 DEF used
<1>5. Marked(history', said, undo, stack, system)
  BY <1>1, <1>2
<1>6. /\ InTurns(history', Append(said, 0))
      /\ Places(history', Append(said, 0)) = Places(history', said)
  BY <1>1, <1>3, <1>5, SameTurns DEF Marked
<1>7. Marked(history', Append(said, 0), undo, stack, system)
  BY <1>5, <1>6 DEF Marked
<1>8. Prompt(0)
  BY DEF EvalFails
<1> QED
  BY <1>2, <1>3, <1>4, <1>7, <1>8, PromptChat

LEMMA EvalRefusedChat == ChatInv /\ EvalRefused => ChatInv'
<1> SUFFICES ASSUME ChatInv, EvalRefused PROVE ChatInv'
  OBVIOUS
<1>1. sigint' \in BOOLEAN /\ pc # "prompt" /\ EvalFails
  BY DEF ChatInv, TypeOK, EvalRefused
<1> QED
  BY <1>1, EvalFailsChat

LEMMA EvalInterruptedChat == ChatInv /\ EvalInterrupted => ChatInv'
<1> SUFFICES ASSUME ChatInv, EvalInterrupted PROVE ChatInv'
  OBVIOUS
<1>1. sigint' \in BOOLEAN /\ pc # "prompt" /\ EvalFails
  BY DEF EvalInterrupted
<1> QED
  BY <1>1, EvalFailsChat

\* llama_decode adds to the present turn, and to nothing else.
LEMMA DecodeTurn ==
    ASSUME ChatInv, pc # "prompt", NEW n \in Nat, used + n <= ContextSize, Decode(n)
    PROVE  /\ history' \in Seq(Tokens) /\ Len(history') = Len(history) + n
           /\ used' <= ContextSize /\ before \in 0..used' /\ cells' = CellsOf(history')
           /\ SubSeq(history', 1, before) = SubSeq(history, 1, before)
           /\ \A i \in before + 1..used' : history'[i] = <<present, i - before>>
<1>1. /\ history \in Seq(Tokens) /\ said \in Seq(Nat) /\ Len(history) \in Nat
      /\ before \in 0..Len(history) /\ before \in Nat /\ cells = CellsOf(history) /\ Present
  BY InTurn
<1>2. present \in Nat /\ used = Len(history)
  BY <1>1 DEF present, used
<1> DEFINE new == [i \in 1..n |-> <<present, used - before + i>>]
           g == history \o new
<1>3. new \in Seq(Tokens) /\ Len(new) = n
      /\ \A i \in 1..n : new[i] = <<present, used - before + i>>
  <2>1. \A i \in 1..n : <<present, used - before + i>> \in Tokens
    BY <1>1, <1>2 DEF Tokens
  <2> QED
    BY <2>1
<1>4. history' = g /\ cells' = cells \cup {<<used + i - 1, new[i]>> : i \in 1..n}
  BY DEF Decode
<1> HIDE DEF new
<1>5. cells' = CellsOf(g)
  <2>1. CellsOf(history) \cup {<<Len(history) + i - 1, new[i]>> : i \in 1..Len(new)} = CellsOf(g)
    BY <1>1, <1>3, MoreCells
  <2>2. cells' = cells \cup {<<Len(history) + i - 1, new[i]>> : i \in 1..Len(new)}
    BY <1>2, <1>3, <1>4
  <2> HIDE DEF g
  <2> QED
    BY <1>1, <2>1, <2>2
<1>6. /\ g \in Seq(Tokens) /\ Len(g) = used + n
      /\ \A i \in 1..used : g[i] = history[i]
      /\ \A i \in used + 1..used + n : g[i] = new[i - used]
  <2>1. /\ g \in Seq(Tokens) /\ Len(g) = Len(history) + Len(new)
        /\ \A i \in 1..Len(history) + Len(new) :
              g[i] = IF i <= Len(history) THEN history[i] ELSE new[i - Len(history)]
    BY <1>1, <1>3, ConcatProperties
  <2>2. /\ \A i \in 1..used : i \in 1..used + n /\ i <= used
        /\ \A i \in used + 1..used + n : i \in 1..used + n /\ ~(i <= used)
    BY <1>1, <1>2
  <2> HIDE DEF g
  <2> QED
    BY <1>2, <1>3, <2>1, <2>2
<1> HIDE DEF g
<1>7. before \in 0..used + n /\ before \in 0..Len(g)
  BY <1>1, <1>2, <1>6
<1>8. \A i \in before + 1..used + n : g[i] = <<present, i - before>>
  <2> TAKE i \in before + 1..used + n
  <2>1. CASE i <= used
    <3>1. i \in 1..used /\ i \in before + 1..used
      BY <1>1, <1>2, <2>1
    <3> QED
      BY <1>1, <1>6, <3>1 DEF Present
  <2>2. CASE ~(i <= used)
    <3>1. i \in used + 1..used + n /\ i - used \in 1..n /\ used - before + (i - used) = i - before
      BY <1>1, <1>2, <2>2
    <3>2. g[i] = <<present, used - before + (i - used)>>
      BY <1>3, <1>6, <3>1
    <3> QED
      BY <3>1, <3>2
  <2> QED
    BY <2>1, <2>2
<1>9. SubSeq(g, 1, before) = SubSeq(history, 1, before)
  <2> DEFINE a == SubSeq(g, 1, before)
             b == SubSeq(history, 1, before)
  <2>1. a \in Seq(Tokens) /\ Len(a) = before /\ \A i \in 1..before : a[i] = g[i]
    BY <1>6, <1>7, CutHistory
  <2>2. b \in Seq(Tokens) /\ Len(b) = before /\ \A i \in 1..before : b[i] = history[i]
    BY <1>1, CutHistory
  <2>3. \A i \in 1..before : i \in 1..used
    BY <1>1, <1>2
  <2> HIDE DEF a, b
  <2>4. a = b
    BY <1>6, <2>1, <2>2, <2>3, SeqEqual
  <2> QED
    BY <2>4 DEF a, b
<1>10. used' = used + n
  BY <1>4, <1>6 DEF used
<1> QED
  BY <1>2, <1>4, <1>5, <1>6, <1>7, <1>8, <1>9, <1>10

\* Some tokens more, and the turn goes on.
LEMMA MoreOfTurn ==
    ASSUME ChatInv, pc # "prompt", pc' # "prompt", NEW n \in Nat, used + n <= ContextSize,
           Decode(n), UNCHANGED <<marks, manual, sigint, work, before, said>>,
           pc' \in {"eval", "reply", "sampled"}, parts' \in Seq(Nat), done' \in Nat,
           \A i \in 1..Len(parts') : parts'[i] # 0,
           pc' = "eval" /\ parts' # <<>> /\ done' # 0
               => done' < Head(parts') /\ used + n + (Head(parts') - done') <= ContextSize
    PROVE  ChatInv'
<1>1. /\ history' \in Seq(Tokens) /\ Len(history') = Len(history) + n
      /\ used' <= ContextSize /\ before \in 0..used' /\ cells' = CellsOf(history')
      /\ SubSeq(history', 1, before) = SubSeq(history, 1, before)
      /\ \A i \in before + 1..used' : history'[i] = <<present, i - before>>
  BY DecodeTurn
<1>2. /\ undo' = undo /\ stack' = stack /\ system' = system /\ before' = before /\ said' = said
      /\ manual' = manual /\ sigint' = sigint /\ work' = work
  BY DEF marks
<1>3. Kept' = Kept
  BY <1>1, <1>2 DEF Kept
<1>4. used' = used + n
  BY <1>1 DEF used
<1>5. Present'
  BY <1>1, <1>2, <1>4 DEF Present, present
<1>6. cells' \subseteq Nat \X Tokens
  <2>1. ASSUME NEW i \in 1..Len(history') PROVE i - 1 \in Nat /\ history'[i] \in Tokens
    <3>1. Len(history') \in Nat
      BY <1>1
    <3>2. history'[i] \in Tokens
      BY <1>1, ElementOfSeq
    <3>3. i - 1 \in Nat
      BY <3>1
    <3> QED
      BY <3>2, <3>3
  <2> QED
    BY <1>1, <2>1 DEF CellsOf
<1>7. TypeOK'
  BY <1>1, <1>2, <1>6 DEF ChatInv, TypeOK, Tokens
<1> QED
  BY <1>1, <1>2, <1>3, <1>5, <1>7 DEF ChatInv

\* A batch is not empty, is no longer than what is left, and fits.
LEMMA BatchFits ==
    ASSUME ChatInv, pc = "eval", parts # <<>>, ~Refused
    PROVE  LET left == Head(parts) - done
               n == Min({left, Batch})
           IN  /\ left \in Nat /\ used + left <= ContextSize
               /\ n \in Nat /\ n # 0 /\ n <= left /\ used + n <= ContextSize
<1> DEFINE left == Head(parts) - done
           n == Min({left, Batch})
<1>1. Present /\ Len(history) \in Nat /\ used = Len(history)
  BY InTurn DEF used
<1>2. /\ parts \in Seq(Nat) /\ done \in Nat /\ Batch \in Nat /\ Batch # 0 /\ ContextSize \in Nat
  BY ChatAssumption DEF ChatInv, TypeOK
<1>3. Head(parts) \in Nat /\ Head(parts) # 0
  <2>1. Head(parts) = parts[1] /\ 1 \in 1..Len(parts)
    BY <1>2
  <2> QED
    BY <1>1, <1>2, <2>1 DEF Present
<1>4. left \in Nat /\ left # 0 /\ used + left <= ContextSize
  <2>1. CASE done = 0
    <3>1. used + Head(parts) <= ContextSize
      BY <2>1 DEF Refused, Fits
    <3> QED
      BY <1>3, <2>1, <3>1
  <2>2. CASE done # 0
    <3>1. done < Head(parts) /\ used + (Head(parts) - done) <= ContextSize
      BY <1>1, <2>2 DEF Present
    <3> QED
      BY <1>2, <1>3, <3>1
  <2> QED
    BY <2>1, <2>2
<1>5. n = IF left <= Batch THEN left ELSE Batch
  <2> HIDE DEF left
  <2> QED
    BY <1>2, <1>4, SmallerOfTwo
<1>6. n \in Nat /\ n # 0 /\ n <= left /\ used + n <= ContextSize
  <2> HIDE DEF left, n
  <2> QED
    BY <1>1, <1>2, <1>4, <1>5
<1> QED
  BY <1>4, <1>6

LEMMA EvalBatchChat == ChatInv /\ EvalBatch => ChatInv'
<1> SUFFICES ASSUME ChatInv, EvalBatch PROVE ChatInv'
  OBVIOUS
<1> DEFINE left == Head(parts) - done
           n == Min({left, Batch})
<1>1. /\ pc = "eval" /\ parts # <<>> /\ ~Refused /\ Decode(n)
      /\ IF n = left THEN parts' = Tail(parts) /\ done' = 0
                     ELSE done' = done + n /\ UNCHANGED parts
      /\ UNCHANGED <<marks, manual, sigint, pc, work, before, said>>
  BY DEF EvalBatch
<1>2. Present /\ Len(history) \in Nat /\ used = Len(history)
  BY <1>1, InTurn DEF used
<1>3. /\ parts \in Seq(Nat) /\ done \in Nat /\ Batch \in Nat /\ Batch # 0 /\ ContextSize \in Nat
  BY ChatAssumption DEF ChatInv, TypeOK
<1>4. Head(parts) \in Nat /\ Head(parts) # 0
  <2>1. Head(parts) = parts[1] /\ 1 \in 1..Len(parts)
    BY <1>1, <1>3
  <2> QED
    BY <1>2, <1>3, <2>1 DEF Present
<1>5. /\ left \in Nat /\ used + left <= ContextSize
      /\ n \in Nat /\ n # 0 /\ n <= left /\ used + n <= ContextSize
  BY <1>1, BatchFits
<1> HIDE DEF n
<1>6. CASE n = left
  <2>1. parts' = Tail(parts) /\ done' = 0
    BY <1>1, <1>6
  <2>2. Tail(parts) \in Seq(Nat) /\ \A i \in 1..Len(Tail(parts)) : Tail(parts)[i] # 0
    <3>1. /\ Len(parts) \in Nat /\ Len(Tail(parts)) = Len(parts) - 1 /\ Tail(parts) \in Seq(Nat)
          /\ \A i \in 1..Len(Tail(parts)) : Tail(parts)[i] = parts[i + 1]
      BY <1>1, <1>3
    <3>2. \A i \in 1..Len(Tail(parts)) : i + 1 \in 1..Len(parts)
      BY <3>1
    <3> QED
      BY <1>2, <3>1, <3>2 DEF Present
  <2> QED
    BY <1>1, <1>5, <2>1, <2>2, MoreOfTurn
<1>7. CASE n # left
  <2>1. parts' = parts /\ done' = done + n
    BY <1>1, <1>7
  <2>2. done' \in Nat /\ done' < Head(parts') /\ used + n + (Head(parts') - done') <= ContextSize
    BY <1>2, <1>3, <1>4, <1>5, <1>7, <2>1, SMTT(30)
  <2>3. \A i \in 1..Len(parts') : parts'[i] # 0
    BY <1>2, <2>1 DEF Present
  <2> QED
    BY <1>1, <1>3, <1>5, <2>1, <2>2, <2>3, MoreOfTurn
<1> QED
  BY <1>6, <1>7

\* The turn ends with the history as it is.
LEMMA EndsAsItIs ==
    ASSUME ChatInv, pc # "prompt", sigint' \in BOOLEAN, UNCHANGED <<history, cells>>,
           Prompt(Len(history') - before)
    PROVE  ChatInv'
<1>1. /\ history \in Seq(Tokens) /\ Len(history) \in Nat
      /\ before \in 0..Len(history) /\ cells = CellsOf(history)
      /\ Present /\ Len(history) <= ContextSize
  BY InTurn
<1>2. /\ history' \in Seq(Tokens) /\ used' <= ContextSize /\ before \in 0..used'
      /\ cells' = CellsOf(history')
      /\ SubSeq(history', 1, before) = SubSeq(history, 1, before)
      /\ \A i \in before + 1..used' : history'[i] = <<present, i - before>>
  BY <1>1 DEF Present, used
<1> QED
  BY <1>2, TurnEnds

LEMMA EvalReturnsChat == ChatInv /\ EvalReturns => ChatInv'
<1> SUFFICES ASSUME ChatInv, EvalReturns PROVE ChatInv'
  OBVIOUS
<1>1. pc = "eval" /\ UNCHANGED <<history, cells, sigint>> /\ sigint' \in BOOLEAN
  BY DEF EvalReturns, ChatInv, TypeOK
<1>2. CASE work = "file" \/ manual
  <2>1. Prompt(Len(history') - before)
    BY <1>1, <1>2 DEF EvalReturns, used
  <2> QED
    BY <1>1, <2>1, EndsAsItIs
<1>3. CASE ~(work = "file" \/ manual)
  <2>1. pc' = "reply" /\ UNCHANGED <<marks, manual, evaluation, said>>
    BY <1>3 DEF EvalReturns
  <2>2. manual \in BOOLEAN /\ work \in {"line", "file"}
    BY DEF ChatInv, TypeOK
  <2> QED
    BY <1>1, <2>1, <2>2, SameChat DEF evaluation
<1> QED
  BY <1>2, <1>3

LEMMA ReplyInterruptedChat == ChatInv /\ ReplyInterrupted => ChatInv'
<1> SUFFICES ASSUME ChatInv, ReplyInterrupted PROVE ChatInv'
  OBVIOUS
<1>1. /\ pc # "prompt" /\ UNCHANGED <<history, cells>> /\ sigint' \in BOOLEAN
      /\ Prompt(Len(history') - before)
  BY DEF ReplyInterrupted, ReplyEnds
<1> QED
  BY <1>1, EndsAsItIs

LEMMA ReplyRefusedChat == ChatInv /\ ReplyRefused => ChatInv'
<1> SUFFICES ASSUME ChatInv, ReplyRefused PROVE ChatInv'
  OBVIOUS
<1>1. /\ pc # "prompt" /\ UNCHANGED <<history, cells>> /\ sigint' \in BOOLEAN
      /\ Prompt(Len(history') - before)
  BY DEF ReplyRefused, ReplyEnds
<1> QED
  BY <1>1, EndsAsItIs

LEMMA ReplyTokenChat == ChatInv /\ ReplyToken => ChatInv'
<1> SUFFICES ASSUME ChatInv, ReplyToken PROVE ChatInv'
  OBVIOUS
<1>1. pc = "sampled" /\ used + 1 <= ContextSize /\ Decode(1)
  BY DEF ReplyToken, Fits
<1>2. CASE pc' = "reply" /\ UNCHANGED <<marks, manual, sigint, evaluation, said>>
  <2>1. /\ parts' = parts /\ done' = done /\ parts \in Seq(Nat) /\ done \in Nat
        /\ UNCHANGED <<marks, manual, sigint, work, before, said>>
    BY <1>2 DEF evaluation, ChatInv, TypeOK
  <2>2. \A i \in 1..Len(parts') : parts'[i] # 0
    BY <1>1, <2>1, InTurn DEF Present
  <2> QED
    BY <1>1, <1>2, <2>1, <2>2, MoreOfTurn
<1>3. CASE ReplyEnds
  <2>1. sigint' \in BOOLEAN /\ Prompt(Len(history') - before)
    BY <1>3 DEF ReplyEnds
  <2>2. /\ history' \in Seq(Tokens)
        /\ used' <= ContextSize /\ before \in 0..used' /\ cells' = CellsOf(history')
        /\ SubSeq(history', 1, before) = SubSeq(history, 1, before)
        /\ \A i \in before + 1..used' : history'[i] = <<present, i - before>>
    BY <1>1, DecodeTurn
  <2> QED
    BY <1>1, <2>1, <2>2, TurnEnds
<1> QED
  BY <1>2, <1>3 DEF ReplyToken

LEMMA NextChat == ChatInv /\ [Next]_vars => ChatInv'
<1> SUFFICES ASSUME ChatInv, [Next]_vars PROVE ChatInv'
  OBVIOUS
<1>1. CASE Undo \/ Forget \/ Clear \/ Push \/ Pop \/ Manual
  BY <1>1, UndoChat, ForgetChat, ClearChat, PushChat, PopChat, ManualChat
<1>2. CASE \E what \in {"line", "file"}, message \in Messages : Say(what, message)
  BY <1>2, SayChat
<1>3. CASE EvalRefused \/ EvalInterrupted \/ EvalBatch \/ EvalReturns
  BY <1>3, EvalRefusedChat, EvalInterruptedChat, EvalBatchChat, EvalReturnsChat
<1>4. CASE ReplyInterrupted \/ Sample \/ ReplyRefused \/ ReplyToken \/ Interrupt
  BY <1>4, ReplyInterruptedChat, SampleChat, ReplyRefusedChat, ReplyTokenChat, InterruptChat
<1>5. CASE UNCHANGED vars
  <2>1. /\ UNCHANGED <<history, cells, marks, before, said, parts, done>>
        /\ manual' = manual /\ sigint' = sigint /\ work' = work /\ pc' = pc
    BY <1>5 DEF vars, evaluation
  <2>2. /\ manual \in BOOLEAN /\ sigint \in BOOLEAN /\ work \in {"line", "file"}
        /\ pc \in {"prompt", "eval", "reply", "sampled"}
    BY DEF ChatInv, TypeOK
  <2> QED
    BY <2>1, <2>2, SameChat
<1> QED
  BY <1>1, <1>2, <1>3, <1>4, <1>5 DEF Next

LEMMA ChatInvariant == Spec => []ChatInv
<1>1. Init => ChatInv
  BY InitChat
<1>2. ChatInv /\ [Next]_vars => ChatInv'
  BY NextChat
<1> QED
  BY <1>1, <1>2, PTL DEF Spec

\* Whatever is said, undone, forgotten, cleared, pushed, popped, refused or
\* interrupted, the marks stay in order and in the history, so that the assertions
\* of rewind, describe_position and describe_erasure hold, and what /clear goes back
\* to has nothing but the BOS token and the system prompt in it.
THEOREM MarksAreValid == Spec => []PositionsValid
<1>1. ChatInv => PositionsValid
  <2> SUFFICES ASSUME ChatInv PROVE PositionsValid
    OBVIOUS
  <2>1. Kept \in Seq(Tokens) /\ Len(Kept) \in Nat /\ Len(Kept) <= used /\ used \in Nat
        /\ \A i \in 1..Len(Kept) : Kept[i] = history[i]
    <3>1. history \in Seq(Tokens) /\ used = Len(history) /\ used \in Nat
      BY DEF ChatInv, TypeOK, Tokens, used
    <3>2. CASE pc = "prompt"
      BY <3>1, <3>2 DEF Kept
    <3>3. CASE pc # "prompt"
      <4>1. before \in 0..Len(history) /\ Kept = SubSeq(history, 1, before)
        BY <3>3, InTurn DEF Kept
      <4>2. Kept \in Seq(Tokens) /\ Len(Kept) = before /\ \A i \in 1..before : Kept[i] = history[i]
        BY <3>1, <4>1, CutHistory
      <4> QED
        BY <3>1, <4>1, <4>2
    <3> QED
      BY <3>2, <3>3
  <2>2. Marked(Kept, said, undo, stack, system)
    BY DEF ChatInv
  <2> HIDE DEF Kept
  <2>3. /\ undo \in Seq(Nat) /\ Ascending(undo) /\ \A i \in 1..Len(undo) : undo[i] \in 0..Len(Kept)
        /\ stack \in Seq(Nat) /\ Ascending(stack)
        /\ \A i \in 1..Len(stack) : stack[i] \in 0..Len(Kept)
        /\ system \in 0..Len(Kept)
    BY <2>1, <2>2, MarkedTypes
  <2>4. \A x \in 0..Len(Kept) : x <= used
    BY <2>1
  <2>5. \A i \in 1..system : history[i][1] <= 2
    <3>1. \A i \in 1..system : i \in 1..Len(Kept)
      BY <2>1, <2>3
    <3> QED
      BY <2>1, <2>2, <3>1 DEF Marked
  <2> QED
    BY <2>3, <2>4, <2>5 DEF ChatInv, PositionsValid
<1> QED
  BY <1>1, ChatInvariant, PTL

\* The KV cache holds the history, token for token and at every position, also
\* behind what /forget erases and while a message is evaluated batch by batch.
THEOREM CacheKeepsHistory == Spec => []CacheIsHistory
<1>1. ChatInv => CacheIsHistory
  BY CacheMeaning DEF ChatInv
<1> QED
  BY <1>1, ChatInvariant, PTL

-----------------------------------------------------------------------------
\* What WholeTurns flattens, for the turns of a history with lengths L.
TurnsOf(h, L) ==
    [t \in 1..Len(L) |->
        IF t \in {h[i][1] : i \in 1..Len(h)} THEN [k \in 1..L[t] |-> <<t, k>>] ELSE <<>>]

\* Where the turns up to t end in a history.
EndsAt(h, t, c) ==
    /\ c \in 0..Len(h)
    /\ \A i \in 1..c : h[i][1] <= t
    /\ c # Len(h) => h[c + 1][1] > t /\ h[c + 1][2] = 1

\* The tokens of a turn.
Block(t, n) == [k \in 1..n |-> <<t, k>>]

LEMMA BlockTokens ==
    ASSUME NEW t \in Nat, NEW n \in Nat
    PROVE  /\ Block(t, n) \in Seq(Tokens) /\ Len(Block(t, n)) = n
           /\ \A k \in 1..n : Block(t, n)[k] = <<t, k>>
<1>1. Block(t, n) \in [1..n -> Tokens]
  BY DEF Block, Tokens
<1>2. Block(t, n) \in Seq(Tokens) /\ Len(Block(t, n)) = n
  BY <1>1
<1> QED
  BY <1>2 DEF Block

BeginsAfter(h, t, c) ==
    c \in 0..Len(h) /\ c # Len(h) /\ h[c + 1][1] = t /\ h[c + 1][2] = 1

\* A turn that begins is there to its end.
LEMMA TurnIsThere ==
    ASSUME NEW L \in Seq(Nat), NEW h \in Seq(Tokens), InTurns(h, L),
           NEW c, NEW t, BeginsAfter(h, t, c)
    PROVE  /\ t \in 1..Len(L) /\ L[t] \in Nat /\ c + L[t] \in c + 1..Len(h)
           /\ \A k \in 1..L[t] : h[c + k] = <<t, k>>
<1>0. c \in 0..Len(h) /\ c # Len(h) /\ h[c + 1][1] = t /\ h[c + 1][2] = 1
  BY DEF BeginsAfter
<1>1. Len(h) \in Nat /\ c \in Nat /\ c + 1 \in 1..Len(h)
  BY <1>0
<1>2. \A i \in 1..Len(h) : /\ h[i] \in Tokens
                          /\ h[i][1] \in 1..Len(L) /\ h[i][2] \in 1..L[h[i][1]]
  BY DEF InTurns
<1>3. t \in 1..Len(L) /\ L[t] \in Nat /\ 1 \in 1..L[t]
  <2>1. h[c + 1][1] \in 1..Len(L) /\ h[c + 1][2] \in 1..L[h[c + 1][1]]
    BY <1>1, <1>2
  <2>2. t \in 1..Len(L) /\ 1 \in 1..L[t]
    BY <1>0, <2>1
  <2> QED
    BY <2>2
<1> DEFINE T == {k \in Nat : k + 1 <= L[t]
                     => c + (k + 1) <= Len(h) /\ h[c + (k + 1)] = <<t, k + 1>>}
<1>4. 0 \in T
  <2>1. h[c + 1] = <<t, 1>>
    BY <1>0, <1>1, <1>2 DEF Tokens
  <2> QED
    BY <1>1, <2>1
<1>5. ASSUME NEW k \in Nat, k \in T PROVE k + 1 \in T
  <2> SUFFICES ASSUME k + 1 + 1 <= L[t]
               PROVE  c + (k + 1 + 1) <= Len(h) /\ h[c + (k + 1 + 1)] = <<t, k + 1 + 1>>
    OBVIOUS
  <2> DEFINE i == c + (k + 1)
             j == c + (k + 1 + 1)
  <2>1. k + 1 <= L[t] /\ k + 1 # L[t]
    BY <1>3
  <2>2. c + (k + 1) <= Len(h) /\ h[c + (k + 1)] = <<t, k + 1>>
    BY <1>5, <2>1
  <2>3. i \in 1..Len(h) /\ j = i + 1 /\ i \in Nat /\ h[i] = <<t, k + 1>>
    BY <1>1, <2>2
  <2> HIDE DEF i, j
  <2>4. h[i][1] = t /\ h[i][2] = k + 1
    BY <2>3
  <2>5. i # Len(h)
    <3> SUFFICES ASSUME i = Len(h) PROVE FALSE
      OBVIOUS
    <3>1. Len(h) \in Places(h, L) /\ i # 0
      BY <2>3 DEF InTurns
    <3>2. h[i][2] = L[h[i][1]]
      BY <3>1 DEF Places
    <3> QED
      BY <2>1, <2>4, <3>2
  <2>6. j \in 1..Len(h)
    BY <1>1, <2>3, <2>5
  <2>7. Follows(h[i], h[j], L)
    BY <2>3, <2>6 DEF InTurns
  <2>8. h[j] = <<t, k + 1 + 1>>
    BY <2>1, <2>4, <2>7 DEF Follows
  <2> QED
    BY <1>1, <2>6, <2>8 DEF j
<1>6. Nat \subseteq T
  <2> HIDE DEF T
  <2> QED
    BY <1>4, <1>5, SetInduction
<1>7. \A k \in 1..L[t] : c + k <= Len(h) /\ h[c + k] = <<t, k>>
  <2> TAKE k \in 1..L[t]
  <2>1. k - 1 \in Nat /\ (k - 1) + 1 = k /\ k <= L[t]
    BY <1>3
  <2>2. k - 1 \in T
    BY <1>6, <2>1
  <2>3. (k - 1) + 1 <= L[t]
          => c + ((k - 1) + 1) <= Len(h) /\ h[c + ((k - 1) + 1)] = <<t, (k - 1) + 1>>
    BY <2>2
  <2> QED
    BY <2>1, <2>3
<1>8. c + L[t] \in c + 1..Len(h)
  <2>1. L[t] \in 1..L[t]
    BY <1>3
  <2>2. c + L[t] <= Len(h)
    BY <1>7, <2>1
  <2> QED
    BY <1>1, <1>3, <2>2
<1> QED
  BY <1>3, <1>7, <1>8

\* The turns up to the next one, if it is there.
LEMMA NextTurnEnds ==
    ASSUME NEW L \in Seq(Nat), NEW h \in Seq(Tokens), InTurns(h, L),
           NEW t \in Nat, t + 1 \in 1..Len(L), NEW c, EndsAt(h, t, c)
    PROVE  \E e : EndsAt(h, t + 1, e) /\ SubSeq(h, 1, e) = SubSeq(h, 1, c) \o TurnsOf(h, L)[t + 1]
<1> DEFINE u == t + 1
           kept == {h[i][1] : i \in 1..Len(h)}
           turn == TurnsOf(h, L)[u]
<1>1. Len(h) \in Nat /\ c \in 0..Len(h) /\ c \in Nat /\ u \in Nat /\ u > t
  BY DEF EndsAt
<1>2. turn = IF u \in kept THEN [k \in 1..L[u] |-> <<u, k>>] ELSE <<>>
  BY DEF TurnsOf
<1>3. /\ \A i \in 1..c : h[i][1] <= t
      /\ c # Len(h) => h[c + 1][1] > t /\ h[c + 1][2] = 1
  BY DEF EndsAt
<1>4. \A i \in 1..Len(h) : h[i][1] \in Nat
  BY DEF Tokens
<1>5. SubSeq(h, 1, c) \in Seq(Tokens) /\ Len(SubSeq(h, 1, c)) = c
      /\ \A i \in 1..c : SubSeq(h, 1, c)[i] = h[i]
  BY <1>1, CutHistory
<1> HIDE DEF turn
<1>6. CASE u \notin kept
  <2>1. turn = <<>>
    BY <1>2, <1>6
  <2>2. SubSeq(h, 1, c) \o turn = SubSeq(h, 1, c)
    BY <1>5, <2>1, ConcatEmptySeq
  <2>3. EndsAt(h, u, c)
    <3>1. \A i \in 1..c : h[i][1] <= u
      <4>1. \A i \in 1..c : i \in 1..Len(h)
        BY <1>1
      <4> QED
        BY <1>1, <1>3, <1>4, <4>1
    <3>2. ASSUME c # Len(h) PROVE h[c + 1][1] > u
      <4>1. c + 1 \in 1..Len(h)
        BY <1>1, <3>2
      <4>2. h[c + 1][1] # u /\ h[c + 1][1] \in Nat
        BY <1>4, <1>6, <4>1
      <4> QED
        BY <1>1, <1>3, <3>2, <4>2
    <3> QED
      BY <1>1, <1>3, <3>1, <3>2 DEF EndsAt
  <2> QED
    BY <2>2, <2>3 DEF turn
<1>7. CASE u \in kept
  <2>1. PICK i \in 1..Len(h) : h[i][1] = u
    BY <1>7
  <2>2. i > c
    <3> SUFFICES ASSUME ~(i > c) PROVE FALSE
      OBVIOUS
    <3>1. i \in 1..c
      BY <1>1
    <3> QED
      BY <1>1, <1>3, <2>1, <3>1
  <2>3. c # Len(h) /\ c + 1 \in 1..Len(h) /\ c + 1 <= i
    BY <1>1, <2>2
  <2>4. h[c + 1][1] = u
    <3>1. h[c + 1][1] <= h[i][1]
      BY <2>3 DEF InTurns
    <3>2. h[c + 1][1] > t /\ h[c + 1][1] \in Nat
      BY <1>3, <1>4, <2>3
    <3> QED
      BY <1>1, <2>1, <3>1, <3>2
  <2>5. h[c + 1][2] = 1
    BY <1>3, <2>3
  <2> DEFINE e == c + L[u]
  <2> HIDE DEF u
  <2>6. /\ L[u] \in Nat /\ e \in c + 1..Len(h)
        /\ \A k \in 1..L[u] : h[c + k] = <<u, k>>
    <3>1. BeginsAfter(h, u, c)
      BY <1>1, <2>3, <2>4, <2>5 DEF BeginsAfter
    <3> QED
      BY <3>1, TurnIsThere
  <2>7. /\ turn \in Seq(Tokens) /\ Len(turn) = L[u]
        /\ \A k \in 1..L[u] : turn[k] = <<u, k>>
    <3>1. turn = Block(u, L[u])
      BY <1>2, <1>7 DEF Block
    <3> QED
      BY <1>1, <2>6, <3>1, BlockTokens
  <2>8. e \in Nat /\ e - c = L[u] /\ e \in 1..Len(h)
    BY <1>1, <2>6, SMTT(30)
  <2>9. \A k \in c + 1..e : h[k] = <<u, k - c>>
    <3> TAKE k \in c + 1..e
    <3>1. k - c \in 1..L[u] /\ c + (k - c) = k
      BY <1>1, <2>6, <2>8, SMTT(30)
    <3> QED
      BY <2>6, <3>1
  <2>10. SubSeq(h, 1, e) = SubSeq(h, 1, c) \o turn
    <3> DEFINE a == SubSeq(h, 1, e)
               low == SubSeq(h, 1, c)
               b == low \o turn
    <3>1. a \in Seq(Tokens) /\ Len(a) = e /\ \A k \in 1..e : a[k] = h[k]
      <4>1. e \in 0..Len(h)
        BY <2>8
      <4> HIDE DEF e
      <4> QED
        BY <4>1, CutHistory
    <3>2. /\ b \in Seq(Tokens) /\ Len(b) = Len(low) + Len(turn)
          /\ \A k \in 1..Len(low) + Len(turn) :
                b[k] = IF k <= Len(low) THEN low[k] ELSE turn[k - Len(low)]
      BY <1>5, <2>7, ConcatProperties
    <3> HIDE DEF a, low, b
    <3>3. Len(low) + Len(turn) = e /\ Len(low) = c
      BY <1>5, <2>7 DEF low
    <3> HIDE DEF e
    <3>4. ASSUME NEW k \in 1..e PROVE a[k] = b[k]
      <4>1. CASE k <= c
        <5>1. k \in 1..c
          BY <1>1, <2>8, <4>1
        <5>2. b[k] = low[k]
          BY <3>2, <3>3, <4>1
        <5> QED
          BY <1>5, <3>1, <5>1, <5>2 DEF low
      <4>2. CASE ~(k <= c)
        <5>1. k \in c + 1..e /\ k - c \in 1..L[u]
          BY <1>1, <2>8, <4>2
        <5>2. b[k] = turn[k - c]
          BY <3>2, <3>3, <4>2
        <5> QED
          BY <2>7, <2>9, <3>1, <5>1, <5>2
      <4> QED
        BY <4>1, <4>2
    <3>5. a = b
      BY <3>1, <3>2, <3>3, <3>4, SeqEqual
    <3> QED
      BY <3>5 DEF a, b, low
  <2>11. EndsAt(h, u, e)
    <3>1. ASSUME NEW k \in 1..e PROVE h[k][1] <= u
      <4>1. CASE k \in 1..c
        <5>1. k \in 1..Len(h)
          BY <1>1, <4>1
        <5> QED
          BY <1>1, <1>3, <1>4, <4>1, <5>1
      <4>2. CASE k \in c + 1..e
        BY <1>1, <2>9, <4>2
      <4> QED
        BY <1>1, <2>8, <4>1, <4>2
    <3>2. ASSUME e # Len(h) PROVE h[e + 1][1] > u /\ h[e + 1][2] = 1
      <4>1. h[e] = <<u, L[u]>> /\ e # 0
        <5>1. e \in c + 1..e
          BY <1>1, <2>6
        <5> QED
          BY <2>8, <2>9, <5>1
      <4>2. e \in Places(h, L)
        BY <2>8, <4>1 DEF Places
      <4>3. h[e + 1][2] = 1 /\ h[e][1] < h[e + 1][1]
        BY <3>2, <4>1, <4>2, TurnBegins
      <4>4. e + 1 \in 1..Len(h)
        BY <1>1, <2>8, <3>2, SMTT(30)
      <4> HIDE DEF e
      <4>5. h[e + 1][1] \in Nat
        BY <1>4, <4>4
      <4> QED
        BY <1>1, <4>1, <4>3, <4>5
    <3>3. e \in 0..Len(h)
      BY <2>8
    <3> QED
      BY <3>1, <3>2, <3>3 DEF EndsAt
  <2> QED
    BY <2>10, <2>11 DEF turn, u
<1> QED
  BY <1>6, <1>7

LEMMA TurnsFlatten ==
    ASSUME NEW L \in Seq(Nat), NEW h \in Seq(Tokens), InTurns(h, L)
    PROVE  h = FlattenSeq(TurnsOf(h, L))
<1> DEFINE turns == TurnsOf(h, L)
           N == Len(L)
<1>1. Len(h) \in Nat /\ N \in Nat
  OBVIOUS
<1>2. turns \in Seq(Seq(Tokens)) /\ Len(turns) = N
  <2>1. ASSUME NEW t \in 1..N PROVE turns[t] \in Seq(Tokens)
    <3>1. Block(t, L[t]) \in Seq(Tokens) /\ <<>> \in Seq(Tokens)
      BY BlockTokens
    <3> QED
      BY <3>1 DEF TurnsOf, Block
  <2>2. turns = [t \in 1..N |-> turns[t]]
    BY DEF TurnsOf
  <2> HIDE DEF turns, N
  <2>3. turns \in [1..N -> Seq(Tokens)]
    BY <2>1, <2>2
  <2> QED
    BY <1>1, <2>3
<1> HIDE DEF turns, N
<1>3. PICK f \in Flattenings(Tokens, turns) : FlattenSeq(turns) = f[Len(turns)]
  BY <1>2, FlattenSteps
<1>4. /\ f[0] = <<>> /\ \A i \in 1..N : f[i] = f[i - 1] \o turns[i]
  BY <1>2, <1>3 DEF Flattenings
<1> DEFINE Good(t) == \E c : EndsAt(h, t, c) /\ f[t] = SubSeq(h, 1, c)
           T == {t \in Nat : t <= N => Good(t)}
<1>5. 0 \in T
  <2>1. SubSeq(h, 1, 0) = <<>> /\ 0 \in 0..Len(h)
    BY <1>1
  <2>2. EndsAt(h, 0, 0)
    <3>1. ASSUME 0 # Len(h) PROVE h[0 + 1][1] > 0 /\ h[0 + 1][2] = 1
      <4>1. 1 \in 1..Len(h) /\ h # <<>>
        BY <1>1, <3>1
      <4>2. h[1][2] = 1 /\ h[1][1] \in 1..Len(L)
        BY <4>1 DEF InTurns
      <4> QED
        BY <4>2
    <3> QED
      BY <2>1, <3>1 DEF EndsAt
  <2> QED
    BY <1>4, <2>1, <2>2
<1>6. ASSUME NEW t \in Nat, t \in T PROVE t + 1 \in T
  <2> SUFFICES ASSUME t + 1 <= N PROVE Good(t + 1)
    OBVIOUS
  <2>1. t + 1 \in 1..N /\ (t + 1) - 1 = t /\ t <= N
    BY <1>1
  <2>2. PICK c : EndsAt(h, t, c) /\ f[t] = SubSeq(h, 1, c)
    BY <1>6, <2>1
  <2>3. PICK e : EndsAt(h, t + 1, e) /\ SubSeq(h, 1, e) = SubSeq(h, 1, c) \o TurnsOf(h, L)[t + 1]
    BY <2>1, <2>2, NextTurnEnds DEF N
  <2>4. f[t + 1] = f[(t + 1) - 1] \o turns[t + 1]
    BY <1>4, <2>1
  <2> QED
    BY <2>1, <2>2, <2>3, <2>4 DEF turns
<1>7. N \in T
  <2>1. Nat \subseteq T
    <3> HIDE DEF T
    <3> QED
      BY <1>5, <1>6, SetInduction
  <2> QED
    BY <1>1, <2>1
<1>8. PICK c : EndsAt(h, N, c) /\ f[N] = SubSeq(h, 1, c)
  BY <1>1, <1>7
<1>9. c = Len(h)
  <2> SUFFICES ASSUME c # Len(h) PROVE FALSE
    OBVIOUS
  <2>1. c + 1 \in 1..Len(h) /\ h[c + 1][1] > N
    BY <1>1, <1>8 DEF EndsAt
  <2>2. h[c + 1][1] \in 1..Len(L)
    BY <2>1 DEF InTurns
  <2> QED
    BY <1>1, <2>1, <2>2 DEF N
<1>10. SubSeq(h, 1, Len(h)) = h
  <2> DEFINE g == SubSeq(h, 1, Len(h))
  <2>1. Len(h) \in 0..Len(h)
    BY <1>1
  <2>2. g \in Seq(Tokens) /\ Len(g) = Len(h) /\ \A i \in 1..Len(h) : g[i] = h[i]
    BY <2>1, CutHistory
  <2> HIDE DEF g
  <2>3. g = h
    BY <2>2, SeqEqual
  <2> QED
    BY <2>3 DEF g
<1> QED
  BY <1>2, <1>3, <1>8, <1>9, <1>10 DEF turns

\* At every prompt the history consists of whole turns in the order in which they
\* were said: no command cuts a turn in two, and nothing is left of a message that
\* was refused or interrupted.
THEOREM HistoryIsWholeTurns == Spec => []WholeTurns
<1>1. ChatInv => WholeTurns
  <2> SUFFICES ASSUME ChatInv, pc = "prompt"
               PROVE  history = FlattenSeq(
                                    [t \in 1..Len(said) |->
                                        IF t \in {history[i][1] : i \in 1..used}
                                        THEN Whole(t) ELSE <<>>])
    BY DEF WholeTurns
  <2>1. history \in Seq(Tokens) /\ said \in Seq(Nat) /\ InTurns(history, said)
    BY AtPrompt DEF Marked
  <2>2. history = FlattenSeq(TurnsOf(history, said))
    BY <2>1, TurnsFlatten
  <2> QED
    BY <2>2 DEF TurnsOf, Whole, used
<1> QED
  BY <1>1, ChatInvariant, PTL


-----------------------------------------------------------------------------
\* The stack of /undo lists the places between the turns, from the first of them on
\* that it has.  Before that one there is nothing that a user has said, and while
\* the system prompt is there it is the end of the BOS token.
Listed(h, L, u) ==
    /\ u # <<>>
    /\ \A i, j \in 1..Len(u) : i < j => u[i] < u[j]
    /\ \A m \in Places(h, L) : u[1] <= m => \E i \in 1..Len(u) : u[i] = m
    /\ \A i \in 1..u[1] : h[i][1] <= 2
    /\ \A i, j \in 1..Len(h) : h[j][1] = 2 => (i <= u[1] <=> h[i][1] = 1)

ListInv == Len(said) >= 2 /\ Listed(Kept, said, undo)

\* fix_stack leaves all entries that are not too high.
LEMMA FixedPrefix ==
    ASSUME NEW marked \in Seq(Nat), NEW n \in Nat,
           NEW i \in 1..Len(marked), marked[i] <= n
    PROVE  i <= Len(FixStack(marked, n))
<1> DEFINE S == {0} \cup {j \in 1..Len(marked) : marked[j] <= n}
<1>1. Len(marked) \in Nat
  OBVIOUS
<1>2. S \in SUBSET (0..Len(marked)) /\ i \in S /\ S # {}
  BY <1>1
<1>3. FixStack(marked, n) = SubSeq(marked, 1, Max(S))
  BY DEF FixStack, Upto
<1> HIDE DEF S
<1>4. Max(S) \in 0..Len(marked) /\ i <= Max(S)
  BY <1>1, <1>2, MaxIsGreatest
<1>5. Len(SubSeq(marked, 1, Max(S))) = Max(S)
  BY <1>1, <1>4
<1> QED
  BY <1>3, <1>4, <1>5

\* What is cut off and recorded: the entries up to n, and n.
LEMMA ListedCut ==
    ASSUME NEW L \in Seq(Nat), NEW h \in Seq(Tokens), NEW u \in Stacks(Places(h, L)),
           Listed(h, L, u), NEW n \in Places(h, L), NEW v \in Stacks(Places(h, L)),
           Len(v) <= Len(u), \A i \in 1..Len(v) : v[i] = u[i],
           \A i \in Len(v) + 1..Len(u) : u[i] >= n
    PROVE  Listed(SubSeq(h, 1, n), L, RecordUndo(FixStack(v, n), n))
<1> DEFINE g == SubSeq(h, 1, n)
           P == Places(h, L)
           w == FixStack(v, n)
           r == RecordUndo(w, n)
<1>1. /\ P \in SUBSET Nat /\ P \in SUBSET (0..Len(h)) /\ Len(h) \in Nat
      /\ n \in 0..Len(h) /\ n \in Nat
  BY PlacesAreNat
<1>2. g \in Seq(Tokens) /\ Len(g) = n /\ \A i \in 1..n : g[i] = h[i]
  BY <1>1, CutHistory
<1>3. \A m \in Places(g, L) : m \in P /\ m <= n
  <2> TAKE m \in Places(g, L)
  <2>1. m \in 0..n /\ (m = 0 \/ g[m][2] = L[g[m][1]])
    BY <1>2 DEF Places
  <2>2. m \in 0..Len(h) /\ (m # 0 => m \in 1..n)
    BY <1>1, <2>1
  <2> HIDE DEF g
  <2> QED
    BY <1>2, <2>1, <2>2 DEF Places
<1>4. /\ u \in Seq(P) /\ v \in Seq(P) /\ Len(u) \in Nat /\ Len(v) \in Nat
      /\ \A i \in 1..Len(u) : u[i] \in P
      /\ \A i \in 1..Len(v) : v[i] \in P
  BY DEF Stacks
<1> HIDE DEF g, P, w, r
<1>5. /\ w \in Stacks(P) /\ Len(w) \in Nat /\ Len(w) <= Len(v)
      /\ \A i \in 1..Len(w) : w[i] = v[i] /\ w[i] <= n
  <2>1. v \in Stacks(P)
    BY DEF P
  <2>2. /\ w \in Stacks(P) /\ Len(w) <= Len(v)
        /\ \A i \in 1..Len(w) : w[i] = v[i] /\ v[i] <= n
    BY <1>1, <2>1, FixedStack DEF w
  <2> QED
    BY <2>2 DEF Stacks
<1>6. \A i \in 1..Len(v) : v[i] <= n => i <= Len(w)
  <2>1. v \in Seq(Nat)
    <3>1. v \in Stacks(P) /\ \A i \in 1..Len(v) : v[i] \in P => v[i] \in Nat
      BY <1>1, <1>4 DEF P
    <3>2. v \in Stacks(Nat)
      BY <3>1, WiderStacks
    <3> QED
      BY <3>2 DEF Stacks
  <2> QED
    BY <1>1, <2>1, FixedPrefix DEF w
<1>7. \A i \in 1..Len(w) : /\ i \in 1..Len(v) /\ i \in 1..Len(u)
                           /\ w[i] = u[i] /\ w[i] \in Nat /\ w[i] <= n
  <2> TAKE i \in 1..Len(w)
  <2>1. i \in 1..Len(v) /\ i \in 1..Len(u)
    BY <1>4, <1>5
  <2>2. u[i] \in P
    BY <1>4, <2>1
  <2> QED
    BY <1>1, <1>5, <2>1, <2>2
<1>8. /\ Len(r) \in Nat /\ r # <<>> /\ Len(r) # 0
      /\ Len(w) <= Len(r) /\ \A i \in 1..Len(w) : r[i] = w[i]
      /\ r[Len(r)] = n
      /\ \A i, j \in 1..Len(r) : i < j => r[i] < r[j] 
  <2>1. w \in Seq(P)
    BY <1>5 DEF Stacks
  <2>2. \A i, j \in 1..Len(w) : i < j => w[i] < w[j]
    BY <1>7 DEF Listed
  <2>3. CASE w = <<>> \/ Last(w) # n
    <3>1. r = Append(w, n)
      BY <2>3 DEF r, RecordUndo
    <3>2. /\ Len(r) = Len(w) + 1 /\ r[Len(w) + 1] = n /\ r \in Seq(P)
          /\ \A i \in 1..Len(w) : r[i] = w[i]
      <4>1. n \in P
        BY DEF P
      <4> QED
        BY <2>1, <3>1, <4>1
    <3>3. \A i \in 1..Len(w) : w[i] < n
      <4> TAKE i \in 1..Len(w)
      <4>1. Len(w) \in 1..Len(w) /\ w # <<>> /\ Last(w) = w[Len(w)]
        BY <1>5, <2>1 DEF Last
      <4>2. w[Len(w)] # n /\ w[Len(w)] <= n /\ w[Len(w)] \in Nat /\ w[i] \in Nat
        BY <1>7, <2>3, <4>1
      <4>3. w[i] <= w[Len(w)]
        <5>1. CASE i = Len(w)
          BY <4>2, <5>1
        <5>2. CASE i # Len(w)
          <6>1. i < Len(w) /\ i \in 1..Len(w)
            BY <4>1, <5>2
          <6>2. w[i] < w[Len(w)]
            BY <2>2, <4>1, <6>1
          <6> QED
            BY <4>2, <6>2
        <5> QED
          BY <5>1, <5>2
      <4> QED
        BY <1>1, <4>2, <4>3
    <3>4. ASSUME NEW i \in 1..Len(r), NEW j \in 1..Len(r), i < j PROVE r[i] < r[j]
      <4>1. i \in 1..Len(w) /\ (j \in 1..Len(w) \/ j = Len(w) + 1)
        BY <1>5, <3>2, <3>4
      <4> QED
        BY <2>2, <3>2, <3>3, <3>4, <4>1
    <3>5. r # <<>>
      BY <1>5, <3>2
    <3> QED
      BY <1>5, <3>2, <3>4, <3>5
  <2>4. CASE ~(w = <<>> \/ Last(w) # n)
    <3>1. r = w
      BY <2>4 DEF r, RecordUndo
    <3>2. w # <<>> /\ w[Len(w)] = n /\ Len(w) # 0
      BY <2>1, <2>4 DEF Last
    <3> QED
      BY <1>5, <2>2, <3>1, <3>2
  <2> QED
    BY <2>3, <2>4
<1>9. CASE Len(w) # 0
  <2>1. 1 \in 1..Len(w) /\ r[1] = u[1] /\ u[1] \in Nat /\ u[1] <= n
    <3>1. 1 \in 1..Len(w)
      BY <1>5, <1>9
    <3> QED
      BY <1>7, <1>8, <3>1
  <2>2. ASSUME NEW m \in Places(g, L), r[1] <= m PROVE \E i \in 1..Len(r) : r[i] = m
    <3>1. m \in P /\ m <= n /\ m \in Nat /\ u[1] <= m
      BY <1>1, <1>3, <2>1, <2>2
    <3>2. PICK i \in 1..Len(u) : u[i] = m
      BY <3>1 DEF Listed, P
    <3>3. CASE i <= Len(v)
      <4>1. i \in 1..Len(v) /\ v[i] = m
        BY <1>4, <3>2, <3>3
      <4>2. i \in 1..Len(w)
        BY <1>5, <1>6, <3>1, <4>1
      <4>3. i \in 1..Len(r)
        BY <1>5, <1>8, <4>2
      <4> QED
        BY <1>7, <1>8, <3>2, <4>2, <4>3
    <3>4. CASE ~(i <= Len(v))
      <4>1. i \in Len(v) + 1..Len(u)
        BY <1>4, <3>4
      <4>2. m >= n
        BY <3>2, <4>1
      <4>3. m = n /\ Len(r) \in 1..Len(r)
        BY <1>1, <1>8, <3>1, <4>2
      <4> QED
        BY <1>8, <4>3
    <3> QED
      BY <3>3, <3>4
  <2>3. \A i \in 1..r[1] : g[i][1] <= 2
    <3> TAKE i \in 1..r[1]
    <3>1. i \in 1..n /\ i \in 1..u[1]
      BY <1>1, <2>1
    <3> QED
      BY <1>2, <3>1 DEF Listed
  <2>4. \A i, j \in 1..Len(g) : g[j][1] = 2 => (i <= r[1] <=> g[i][1] = 1)
    <3> TAKE i, j \in 1..Len(g)
    <3>1. i \in 1..n /\ j \in 1..n /\ i \in 1..Len(h) /\ j \in 1..Len(h)
      BY <1>1, <1>2
    <3> QED
      BY <1>2, <2>1, <3>1 DEF Listed
  <2> QED
    BY <1>8, <2>2, <2>3, <2>4 DEF Listed, g, r, w
<1>10. CASE Len(w) = 0
  <2>1. Len(r) = 1 /\ r[1] = n
    <3>1. w = <<>>
      BY <1>5, <1>10 DEF Stacks
    <3>2. r = Append(<<>>, n)
      BY <3>1 DEF r, RecordUndo
    <3> QED
      BY <1>8, <3>2
  <2>2. n <= u[1] /\ u[1] \in Nat
    <3>1. 1 \in 1..Len(u)
      BY <1>4 DEF Listed
    <3>2. u[1] \in P
      BY <1>4, <3>1
    <3>3. u[1] \in Nat
      BY <1>1, <3>2
    <3>4. CASE Len(v) = 0
      <4>1. 1 \in Len(v) + 1..Len(u)
        BY <1>4, <3>1, <3>4
      <4> QED
        BY <1>1, <3>3, <4>1
    <3>5. CASE Len(v) # 0
      <4>1. 1 \in 1..Len(v)
        BY <1>4, <3>5
      <4>2. ~(v[1] <= n) /\ v[1] = u[1]
        BY <1>6, <1>10, <4>1
      <4> QED
        BY <1>1, <3>3, <4>2
    <3> QED
      BY <3>4, <3>5
  <2>3. ASSUME NEW m \in Places(g, L), r[1] <= m PROVE \E i \in 1..Len(r) : r[i] = m
    <3>1. m \in P /\ m <= n /\ m \in Nat
      BY <1>1, <1>3
    <3>2. m = n
      BY <1>1, <2>1, <2>3, <3>1
    <3> QED
      BY <2>1, <3>2
  <2>4. \A i \in 1..r[1] : g[i][1] <= 2
    <3> TAKE i \in 1..r[1]
    <3>1. i \in 1..n /\ i \in 1..u[1]
      BY <1>1, <2>1, <2>2
    <3> QED
      BY <1>2, <3>1 DEF Listed
  <2>5. \A i, j \in 1..Len(g) : g[j][1] = 2 => (i <= r[1] <=> g[i][1] = 1)
    <3> TAKE i, j \in 1..Len(g)
    <3>1. i \in 1..n /\ j \in 1..n /\ i \in 1..Len(h) /\ j \in 1..Len(h) /\ j <= u[1]
      BY <1>1, <1>2, <2>2
    <3>2. h[j][1] = 2 => h[j][1] = 1
      BY <3>1 DEF Listed
    <3> QED
      BY <1>2, <3>1, <3>2
  <2> QED
    BY <1>8, <2>3, <2>4, <2>5 DEF Listed, g, r, w
<1> QED
  BY <1>9, <1>10

\* The end of the present turn is listed with the others.
LEMMA ListedEnd ==
    ASSUME NEW L \in Seq(Nat), Len(L) >= 2, NEW h \in Seq(Tokens), NEW b \in 0..Len(h),
           InTurns(SubSeq(h, 1, b), L),
           \A i \in b + 1..Len(h) : h[i] = <<Len(L) + 1, i - b>>,
           NEW u \in Stacks(Places(SubSeq(h, 1, b), L)), Listed(SubSeq(h, 1, b), L, u)
    PROVE  Listed(h, Append(L, Len(h) - b), RecordUndo(u, Len(h)))
<1> DEFINE g == SubSeq(h, 1, b)
           n == Len(h)
           M == Append(L, n - b)
           t == Len(L) + 1
           r == RecordUndo(u, n)
           P == Places(g, L)
<1>1. g \in Seq(Tokens) /\ Len(g) = b /\ \A i \in 1..b : g[i] = h[i]
  BY CutHistory
<1>2. n \in Nat /\ b \in Nat /\ n - b \in Nat /\ b <= n
  OBVIOUS
<1>3. /\ Len(L) \in Nat /\ t \in Nat /\ t > 2 /\ M[t] = n - b
      /\ \A s \in 1..Len(L) : M[s] = L[s]
  BY <1>2
<1>4. P \in SUBSET Nat /\ P \in SUBSET (0..b)
  BY <1>1, PlacesAreNat
<1>5. /\ u \in Seq(P) /\ Len(u) \in Nat /\ Len(u) # 0 /\ 1 \in 1..Len(u)
      /\ \A i \in 1..Len(u) : u[i] \in P
      /\ u \in Seq(Nat)
  <2>1. u \in Seq(P) /\ u # <<>> /\ u \in Stacks(P)
    BY DEF Stacks, Listed
  <2> HIDE DEF P
  <2>2. \A i \in 1..Len(u) : u[i] \in P => u[i] \in Nat
    BY <1>4
  <2>3. u \in Seq(Nat)
    BY <2>1, <2>2, WiderStacks DEF Stacks
  <2> QED
    BY <2>1, <2>3
<1>6. \A i \in 1..b : h[i][1] \in 1..Len(L)
  BY <1>1 DEF InTurns, g
<1>7. \A i \in b + 1..n : h[i][1] = t /\ h[i][2] = i - b
  BY <1>2, <1>3
<1>8. \A m \in Places(h, M) : m \in P \/ m = n
  <2> TAKE m \in Places(h, M)
  <2>1. m \in 0..n /\ (m = 0 \/ h[m][2] = M[h[m][1]])
    BY DEF Places
  <2>2. CASE m = 0
    BY <1>1, <1>2, <2>2 DEF Places
  <2>3. CASE m \in 1..b
    <3>1. h[m][1] \in 1..Len(L) /\ h[m] = g[m] /\ h[m][2] = M[h[m][1]]
      BY <1>1, <1>2, <1>6, <2>1, <2>3
    <3>2. g[m][2] = L[g[m][1]] /\ m \in 0..Len(g)
      BY <1>1, <1>2, <1>3, <2>3, <3>1
    <3> QED
      BY <3>2 DEF Places
  <2>4. CASE m \in b + 1..n
    <3>1. h[m][1] = t /\ h[m][2] = m - b /\ m # 0
      BY <1>2, <1>7, <2>4
    <3>2. m - b = n - b
      BY <1>3, <2>1, <3>1
    <3> QED
      BY <1>2, <2>4, <3>2
  <2> QED
    BY <1>2, <2>1, <2>2, <2>3, <2>4
<1>9. \A i \in 1..Len(u) : u[i] \in Nat /\ u[i] <= b /\ u[i] <= n
  <2> TAKE i \in 1..Len(u)
  <2>1. u[i] \in 0..b
    <3> HIDE DEF P
    <3>1. u[i] \in P
      BY <1>5
    <3> QED
      BY <1>4, <3>1
  <2> QED
    BY <1>2, <2>1
<1> HIDE DEF g, n, M, t, r, P
<1>10. /\ r # <<>> /\ Len(u) \in 0..Len(r) /\ \A i \in 1..Len(u) : r[i] = u[i]
       /\ Len(r) \in 1..Len(r) /\ r[Len(r)] = n
       /\ \A i, j \in 1..Len(r) : i < j => r[i] < r[j]
  <2>1. \A i, j \in 1..Len(u) : i < j => u[i] < u[j]
    BY DEF Listed
  <2>2. Last(u) = u[Len(u)] /\ u # <<>>
    BY DEF Last, Listed
  <2>3. CASE u[Len(u)] # n
    <3>1. r = Append(u, n)
      BY <2>2, <2>3 DEF r, RecordUndo
    <3>3. /\ Len(r) = Len(u) + 1 /\ r[Len(u) + 1] = n /\ r # <<>>
          /\ \A i \in 1..Len(u) : r[i] = u[i]
      BY <1>2, <1>5, <3>1
    <3>4. \A i \in 1..Len(u) : u[i] < n
      <4> TAKE i \in 1..Len(u)
      <4>1. Len(u) \in 1..Len(u) /\ (i = Len(u) \/ i < Len(u))
        BY <1>5
      <4>2. u[Len(u)] < n /\ u[Len(u)] \in Nat
        BY <1>2, <1>9, <2>3, <4>1
      <4>3. CASE i = Len(u)
        BY <4>2, <4>3
      <4>4. CASE i < Len(u)
        <5>1. u[i] < u[Len(u)] /\ u[i] \in Nat
          BY <1>9, <2>1, <4>1, <4>4
        <5> QED
          BY <1>2, <4>2, <5>1
      <4> QED
        BY <4>1, <4>3, <4>4
    <3>5. ASSUME NEW i \in 1..Len(r), NEW j \in 1..Len(r), i < j PROVE r[i] < r[j]
      <4>1. i \in 1..Len(u) /\ (j \in 1..Len(u) \/ j = Len(u) + 1)
        BY <1>5, <3>3, <3>5
      <4> QED
        BY <2>1, <3>3, <3>4, <3>5, <4>1
    <3> QED
      BY <1>5, <3>3, <3>5
  <2>4. CASE u[Len(u)] = n
    <3>1. r = u
      BY <2>2, <2>4 DEF r, RecordUndo
    <3> QED
      BY <1>5, <2>1, <2>2, <2>4, <3>1
  <2> QED
    BY <2>3, <2>4
<1>11. r[1] = u[1] /\ u[1] \in 0..b
  BY <1>2, <1>5, <1>9, <1>10
<1>12. ASSUME NEW m \in Places(h, M), r[1] <= m PROVE \E i \in 1..Len(r) : r[i] = m
  <2>1. CASE m = n
    BY <1>10, <2>1
  <2>2. CASE m \in P
    <3>1. PICK i \in 1..Len(u) : u[i] = m
      BY <1>11, <1>12, <2>2 DEF Listed, P, g
    <3>2. i \in 1..Len(r)
      BY <1>5, <1>10
    <3> QED
      BY <1>10, <3>1, <3>2
  <2> QED
    BY <1>8, <2>1, <2>2
<1>13. \A i \in 1..r[1] : h[i][1] <= 2
  <2> TAKE i \in 1..r[1]
  <2>1. i \in 1..b /\ i \in 1..u[1]
    BY <1>2, <1>11
  <2>2. g[i][1] <= 2
    BY <2>1 DEF Listed, g
  <2> QED
    BY <1>1, <2>1, <2>2
<1>14. ASSUME NEW i \in 1..n, NEW j \in 1..n, h[j][1] = 2 PROVE i <= r[1] <=> h[i][1] = 1
  <2>1. j \in 1..b
    <3> SUFFICES ASSUME j \notin 1..b PROVE FALSE
      OBVIOUS
    <3>1. j \in b + 1..n
      BY <1>2
    <3> QED
      BY <1>3, <1>7, <1>14, <3>1
  <2>2. CASE i \in 1..b
    <3>1. i \in 1..Len(g) /\ j \in 1..Len(g) /\ g[j][1] = 2 /\ g[i] = h[i]
      BY <1>1, <1>14, <2>1, <2>2
    <3>2. i <= u[1] <=> g[i][1] = 1
      BY <3>1 DEF Listed, g
    <3> QED
      BY <1>11, <3>1, <3>2
  <2>3. CASE i \notin 1..b
    <3>1. i \in b + 1..n /\ ~(i <= u[1])
      BY <1>2, <1>11, <2>3
    <3> QED
      BY <1>3, <1>7, <1>11, <3>1
  <2> QED
    BY <2>2, <2>3
<1>15. Listed(h, M, r)
  BY <1>10, <1>12, <1>13, <1>14 DEF Listed, n
<1> QED
  BY <1>15 DEF M, n, r

\* adjust_stack as /forget calls it: the third entry takes the place of the second.
LEMMA ForgottenMark ==
    ASSUME NEW u \in Seq(Nat), Len(u) >= 3, \A i, j \in 1..Len(u) : i < j => u[i] < u[j]
    PROVE  LET v == AdjustStack(u[2], u[3], u)
           IN  /\ v \in Seq(Nat) /\ Len(v) = Len(u) - 1 /\ v[1] = u[1]
               /\ \A i \in 2..Len(u) - 1 : v[i] = u[i + 1] - (u[3] - u[2])
<1> DEFINE N == Len(u)
           begin == u[2]
           end == u[3]
           d == end - begin
           Good(n, s) == /\ s \in Seq(Nat) /\ Len(s) = n - 1 /\ s[1] = u[1]
                         /\ \A i \in 2..n - 1 : s[i] = u[i + 1] - d
<1>1. /\ N \in Nat /\ 1 \in 1..N /\ 2 \in 1..N /\ \A i \in 1..N : u[i] \in Nat
      /\ begin \in Nat /\ end \in Nat /\ d \in Nat /\ u[1] \in Nat
      /\ begin <= end /\ begin < end /\ u[1] < begin /\ \A i \in 4..N : end < u[i]
  <2>1. N \in Nat /\ 1 \in 1..N /\ 2 \in 1..N /\ 3 \in 1..N /\ \A i \in 1..N : u[i] \in Nat
    OBVIOUS
  <2>2. \A i \in 4..N : i \in 1..N /\ 3 < i
    OBVIOUS
  <2> QED
    BY <2>1, <2>2
<1> HIDE DEF begin, end, d
<1>2. PICK b \in [0..N -> Seq(Nat)] :
         /\ b[0] = <<>>
         /\ \A i \in 1..N : b[i] = Built(begin, end, u[i], b[i - 1])
         /\ AdjustStack(begin, end, u) = b[N]
  <2>1. begin \in Nat /\ end \in Nat /\ begin <= end
    BY <1>1
  <2> QED
    BY <2>1, AdjustSteps
<1> HIDE DEF N
<1>3. b[1] = <<u[1]>>
  <2>1. b[1] = Built(begin, end, u[1], b[1 - 1]) /\ 1 - 1 = 0
    BY <1>1, <1>2
  <2>2. Adjusted(begin, end, u[1]) = u[1]
    BY <1>1 DEF Adjusted
  <2> QED
    <3>1. b[1] = Built(begin, end, u[1], <<>>)
      BY <1>2, <2>1
    <3>2. ~(begin <= u[1])
      BY <1>1
    <3>3. b[1] = Append(<<>>, u[1])
      BY <2>2, <3>1, <3>2 DEF Built
    <3> QED
      BY <3>3
<1>4. b[2] = <<u[1]>>
  <2>1. b[2] = Built(begin, end, begin, b[1])
    <3>1. 2 \in 1..N /\ 2 - 1 = 1 /\ u[2] = begin
      BY <1>1 DEF begin
    <3> QED
      BY <1>2, <3>1
  <2> QED
    BY <1>1, <1>3, <2>1 DEF Built
<1>5. Good(2, b[2])
  BY <1>1, <1>4
<1>6. ASSUME NEW n \in Nat, n >= 2, n + 1 <= N, Good(n, b[n]) PROVE Good(n + 1, b[n + 1])
  <2>1. n + 1 \in 1..N /\ (n + 1) - 1 = n /\ n \in 1..N
    BY <1>1, <1>6
  <2>2. u[n + 1] \in Nat /\ u[n + 1] >= end
    <3>1. n + 1 = 3 \/ n + 1 \in 4..N
      BY <1>1, <1>6
    <3>2. u[n + 1] \in Nat
      BY <1>1, <2>1
    <3> QED
      BY <1>1, <3>1, <3>2 DEF end
  <2>3. b[n + 1] = Built(begin, end, u[n + 1], b[n])
    BY <1>2, <2>1
  <2>4. b[n + 1] = Append(b[n], u[n + 1] - d)
    <3>1. ~(begin <= u[n + 1] /\ u[n + 1] < end)
      BY <1>1, <2>2
    <3>2. Adjusted(begin, end, u[n + 1]) = u[n + 1] - d
      BY <2>2 DEF Adjusted, d
    <3> QED
      BY <2>3, <3>1, <3>2 DEF Built
  <2>5. u[n + 1] - d \in Nat /\ b[n] \in Seq(Nat)
    <3>1. b[n] \in Seq(Nat)
      BY <1>6
    <3>2. u[n + 1] - d \in Nat
      <4>1. begin \in Nat /\ end \in Nat /\ d = end - begin
        BY <1>1 DEF d
      <4> QED
        BY <2>2, <4>1
    <3> QED
      BY <3>1, <3>2
  <2>6. /\ b[n + 1] \in Seq(Nat) /\ Len(b[n + 1]) = n /\ b[n + 1][n] = u[n + 1] - d
        /\ \A i \in 1..n - 1 : b[n + 1][i] = b[n][i]
    <3>1. Len(b[n]) = n - 1
      BY <1>6
    <3> QED
      BY <2>4, <2>5, <3>1
  <2>7. b[n + 1][1] = u[1]
    BY <1>6, <2>6
  <2>8. \A i \in 2..n : b[n + 1][i] = u[i + 1] - d
    <3> TAKE i \in 2..n
    <3>1. i = n \/ (i \in 1..n - 1 /\ i \in 2..n - 1)
      BY <1>6
    <3> QED
      BY <1>6, <2>6, <3>1
  <2> QED
    BY <2>1, <2>6, <2>7, <2>8
<1>7. Good(N, b[N])
  <2> DEFINE T == {k \in Nat : k + 2 <= N => Good(k + 2, b[k + 2])}
  <2> HIDE DEF Good
  <2>1. 0 \in T
    BY <1>5
  <2>2. ASSUME NEW k \in Nat, k \in T PROVE k + 1 \in T
    <3> SUFFICES ASSUME (k + 1) + 2 <= N PROVE Good((k + 1) + 2, b[(k + 1) + 2])
      OBVIOUS
    <3>1. /\ k + 2 <= N /\ k + 2 \in Nat /\ k + 2 >= 2 /\ (k + 2) + 1 <= N
          /\ (k + 1) + 2 = (k + 2) + 1
      BY <1>1
    <3>2. Good(k + 2, b[k + 2])
      BY <2>2, <3>1
    <3>3. Good((k + 2) + 1, b[(k + 2) + 1])
      BY <1>6, <3>1, <3>2
    <3> QED
      BY <3>1, <3>3
  <2>3. Nat \subseteq T
    <3> HIDE DEF T
    <3> QED
      BY <2>1, <2>2, SetInduction
  <2>4. N - 2 \in Nat /\ (N - 2) + 2 = N
    BY <1>1
  <2>5. N - 2 \in T
    BY <2>3, <2>4
  <2>6. (N - 2) + 2 <= N => Good((N - 2) + 2, b[(N - 2) + 2])
    BY <2>5
  <2> QED
    BY <1>1, <2>4, <2>6
<1> QED
  BY <1>2, <1>7 DEF N, begin, end, d

\* /forget takes out of the list what it takes out of the history.
LEMMA ListedErased ==
    ASSUME NEW L \in Seq(Nat), NEW h \in Seq(Tokens), NEW u \in Stacks(Places(h, L)),
           InTurns(h, L), Listed(h, L, u), Len(u) >= 3
    PROVE  LET g == Erased(h, u[2], u[3])
               v == AdjustStack(u[2], u[3], u)
           IN  Listed(g, L, RecordUndo(FixStack(v, Len(g)), Len(g)))
<1> DEFINE P == Places(h, L)
           begin == u[2]
           end == u[3]
           d == end - begin
           g == Erased(h, begin, end)
           n == Len(g)
           v == AdjustStack(begin, end, u)
           w == FixStack(v, n)
<1>1. /\ P \in SUBSET Nat /\ P \in SUBSET (0..Len(h)) /\ Len(h) \in Nat
  BY PlacesAreNat
<1>2. /\ u \in Seq(Nat) /\ Len(u) \in Nat /\ \A i \in 1..Len(u) : u[i] \in P
      /\ \A i, j \in 1..Len(u) : i < j => u[i] < u[j]
      /\ 1 \in 1..Len(u) /\ 2 \in 1..Len(u) /\ 3 \in 1..Len(u)
  <2>1. u \in Seq(P) /\ u \in Stacks(P)
    BY DEF Stacks
  <2> HIDE DEF P
  <2>2. \A i \in 1..Len(u) : u[i] \in P => u[i] \in Nat
    BY <1>1
  <2>3. u \in Seq(Nat)
    BY <2>1, <2>2, WiderStacks DEF Stacks
  <2> QED
    BY <2>1, <2>3 DEF Listed
<1>3. /\ begin \in P /\ end \in P /\ begin \in Nat /\ end \in Nat /\ d \in Nat
      /\ begin < end /\ u[1] < begin /\ u[1] \in Nat
      /\ begin \in 0..Len(h) /\ end \in begin..Len(h) /\ Len(h) - d \in Nat
  <2>1. begin \in P /\ end \in P /\ begin < end /\ u[1] < begin /\ u[1] \in P
    BY <1>2
  <2>2. begin \in 0..Len(h) /\ end \in 0..Len(h) /\ u[1] \in 0..Len(h)
    BY <1>1, <2>1
  <2> HIDE DEF begin, end, P
  <2> QED
    BY <1>1, <2>1, <2>2
<1>4. /\ v \in Seq(Nat) /\ Len(v) = Len(u) - 1 /\ v[1] = u[1]
      /\ \A i \in 2..Len(u) - 1 : v[i] = u[i + 1] - d
  BY <1>2, ForgottenMark
<1> HIDE DEF P, begin, end, g
<1>5. /\ n = Len(h) - d /\ g \in Seq(Tokens) /\ begin <= n
      /\ \A i \in 1..begin : g[i] = h[i]
      /\ \A i \in begin + 1..n : g[i] = h[i + d]
  <2>1. /\ n = Len(h) - d /\ g \in Seq(Tokens)
        /\ \A i \in 1..begin : g[i] = h[i]
        /\ \A i \in begin + 1..n : g[i] = h[i + d]
    <3>1. begin \in 0..Len(h) /\ end \in begin..Len(h)
      BY <1>3
    <3> HIDE DEF n
    <3>2. /\ Len(g) = Len(h) - d /\ g \in Seq(Tokens)
          /\ \A i \in 1..begin : g[i] = h[i]
          /\ \A i \in begin + 1..Len(h) - d : g[i] = h[i + d]
      BY <3>1, ErasedHistory DEF g
    <3> QED
      BY <3>2 DEF n
  <2> QED
    BY <1>1, <1>3, <2>1
<1> HIDE DEF d, n
<1>6. \A m \in Places(g, L) : /\ m <= begin => m \in P
                              /\ m > begin => m + d \in P
  <2> TAKE m \in Places(g, L)
  <2>1. m \in 0..n /\ (m = 0 \/ g[m][2] = L[g[m][1]])
    BY DEF Places, n
  <2>2. CASE m <= begin
    <3>1. m \in 0..Len(h) /\ (m # 0 => m \in 1..begin)
      BY <1>1, <1>3, <1>5, <2>1, <2>2
    <3>2. m = 0 \/ h[m][2] = L[h[m][1]]
      BY <1>5, <2>1, <3>1
    <3>3. m \in P
      BY <3>1, <3>2 DEF P, Places
    <3> QED
      BY <1>3, <2>1, <2>2, <3>3
  <2>3. CASE m > begin
    <3>1. m \in begin + 1..n /\ m # 0 /\ m + d \in 0..Len(h)
      BY <1>1, <1>3, <1>5, <2>1, <2>3
    <3>2. h[m + d][2] = L[h[m + d][1]]
      BY <1>5, <2>1, <3>1
    <3>3. m + d \in P
      BY <3>1, <3>2 DEF P, Places
    <3> QED
      BY <1>3, <2>1, <2>3, <3>3
  <2> QED
    BY <1>3, <2>1, <2>2, <2>3
<1>7. /\ v \in Seq(Nat) /\ Len(v) \in Nat /\ 1 \in 1..Len(v)
      /\ \A i \in 1..Len(v) : v[i] \in Nat /\ v[i] <= n
      /\ \A i, j \in 1..Len(v) : i < j => v[i] < v[j]
      /\ \A m \in Places(g, L) : v[1] <= m => \E i \in 1..Len(v) : v[i] = m
  <2> HIDE DEF v
  <2>1. Len(v) \in Nat /\ 1 \in 1..Len(v) /\ Len(v) = Len(u) - 1
    BY <1>2, <1>4
  <2>2. \A i \in 2..Len(v) : /\ i + 1 \in 1..Len(u) /\ v[i] = u[i + 1] - d
                             /\ u[i + 1] \in P /\ u[i + 1] >= end
    <3> TAKE i \in 2..Len(v)
    <3>1. i + 1 \in 1..Len(u) /\ i \in 2..Len(u) - 1
      BY <1>2, <2>1
    <3>2. u[i + 1] \in P /\ v[i] = u[i + 1] - d
      BY <1>2, <1>4, <3>1
    <3>3. u[i + 1] >= end
      <4>1. CASE i + 1 = 3
        <5>1. u[i + 1] = end
          BY <4>1 DEF end
        <5> QED
          BY <1>3, <5>1
      <4>2. CASE i + 1 # 3
        <5>1. 3 < i + 1 /\ u[3] = end
          BY <2>1, <4>2 DEF end
        <5>2. u[3] < u[i + 1]
          BY <1>2, <3>1, <5>1
        <5>3. u[i + 1] \in Nat
          BY <1>1, <3>2
        <5> QED
          BY <1>3, <5>1, <5>2, <5>3
      <4> QED
        BY <4>1, <4>2
    <3> QED
      BY <3>1, <3>2, <3>3
  <2>3. \A i \in 2..Len(v) : v[i] \in Nat /\ v[i] <= n /\ v[i] >= begin
    <3> TAKE i \in 2..Len(v)
    <3>1. /\ u[i + 1] \in Nat /\ u[i + 1] <= Len(h)
          /\ u[i + 1] >= end /\ v[i] = u[i + 1] - d
      <4>1. u[i + 1] \in 0..Len(h)
        BY <1>1, <2>2
      <4> QED
        BY <1>1, <2>2, <4>1
    <3>2. /\ d = end - begin /\ n = Len(h) - d /\ Len(h) \in Nat
          /\ begin \in Nat /\ end \in Nat
      BY <1>1, <1>3, <1>5 DEF d
    <3>3. \A x \in Nat : end <= x /\ x <= Len(h)
                            => x - d \in Nat /\ x - d <= n /\ x - d >= begin
      BY <3>2
    <3> QED
      BY <3>1, <3>3
  <2>4. v[1] \in Nat /\ v[1] <= n /\ v[1] < begin
    <3>1. n \in Nat
      BY <1>1, <1>3, <1>5
    <3> QED
      BY <1>3, <1>4, <1>5, <3>1
  <2>5. \A i \in 1..Len(v) : i = 1 \/ i \in 2..Len(v)
    BY <2>1
  <2>6. \A i \in 1..Len(v) : v[i] \in Nat /\ v[i] <= n
    BY <2>3, <2>4, <2>5
  <2>7. ASSUME NEW i \in 1..Len(v), NEW j \in 1..Len(v), i < j PROVE v[i] < v[j]
    <3>1. j \in 2..Len(v)
      BY <2>1, <2>7
    <3>2. CASE i = 1
      BY <1>3, <2>3, <2>4, <3>1, <3>2
    <3>3. CASE i \in 2..Len(v)
      <4>1. /\ i + 1 \in 1..Len(u) /\ j + 1 \in 1..Len(u) /\ i + 1 < j + 1
            /\ v[i] = u[i + 1] - d /\ v[j] = u[j + 1] - d
        BY <2>1, <2>2, <2>7, <3>1, <3>3
      <4>2. u[i + 1] < u[j + 1] /\ u[i + 1] \in Nat /\ u[j + 1] \in Nat
        BY <1>1, <1>2, <4>1
      <4>3. d \in Nat
        BY <1>3
      <4>4. u[i + 1] - d < u[j + 1] - d
        BY <4>2, <4>3
      <4> QED
        BY <4>1, <4>4
    <3> QED
      BY <2>5, <3>2, <3>3
  <2>8. ASSUME NEW m \in Places(g, L), v[1] <= m PROVE \E i \in 1..Len(v) : v[i] = m
    <3>0. m \in Nat
      BY PlacesAreNat, <1>5
    <3>1. CASE m < begin
      <4>1. m \in P /\ u[1] <= m
        BY <1>3, <1>4, <1>6, <2>8, <3>0, <3>1
      <4>2. PICK i \in 1..Len(u) : u[i] = m
        BY <4>1 DEF Listed, P
      <4>3. i = 1
        <5> SUFFICES ASSUME i # 1 PROVE FALSE
          OBVIOUS
        <5>1. i = 2 \/ 2 < i
          BY <1>2
        <5>2. u[2] = begin
          BY DEF begin
        <5>3. u[i] >= begin
          BY <1>2, <1>3, <3>0, <4>2, <5>1, <5>2
        <5> QED
          BY <1>3, <3>0, <3>1, <4>2, <5>3
      <4> QED
        BY <1>4, <2>1, <4>2, <4>3
    <3>2. CASE m >= begin
      <4>1. m + d \in P /\ m + d >= end
        <5>1. d = end - begin
          BY DEF d
        <5>2. CASE m = begin
          BY <1>3, <5>1, <5>2
        <5>3. CASE m # begin
          <6>1. m > begin
            BY <1>3, <3>0, <3>2, <5>3
          <6> QED
            BY <1>3, <1>6, <3>0, <5>1, <6>1
        <5> QED
          BY <5>2, <5>3
      <4>2. PICK k \in 1..Len(u) : u[k] = m + d
        <5>1. u[1] <= m + d
          BY <1>3, <3>0, <3>2
        <5> QED
          BY <4>1, <5>1 DEF Listed, P
      <4>3. k >= 3
        <5> SUFFICES ASSUME k < 3 PROVE FALSE
          BY <1>2
        <5>1. u[k] < u[3] /\ u[3] = end
          BY <1>2 DEF end
        <5> QED
          BY <1>3, <3>0, <4>1, <4>2, <5>1
      <4>4. k - 1 \in 2..Len(v) /\ (k - 1) + 1 = k /\ k - 1 \in 1..Len(v)
        BY <1>2, <2>1, <4>3
      <4>5. v[k - 1] = u[k] - d
        BY <2>2, <4>4
      <4>6. v[k - 1] = m
        BY <1>3, <3>0, <4>2, <4>5
      <4> QED
        BY <4>4, <4>6
    <3> QED
      BY <1>3, <3>0, <3>1, <3>2
  <2> QED
    BY <1>4, <2>1, <2>6, <2>7, <2>8
<1>8. RecordUndo(FixStack(v, n), n) = v
  <2> HIDE DEF v, w
  <2> DEFINE N == Len(v)
  <2>1. N \in Nat /\ N # 0 /\ N \in 1..N /\ n \in Nat
    BY <1>1, <1>3, <1>5, <1>7
  <2>2. w = v
    <3>1. N <= Len(w)
      BY <1>7, <2>1, FixedPrefix DEF w
    <3>2. v \in Stacks(Nat)
      <4>1. \A i, j \in 1..Len(v) : i <= j => v[i] <= v[j]
        <5> TAKE i, j \in 1..Len(v)
        <5>1. i < j => v[i] < v[j]
          BY <1>7
        <5>2. v[i] \in Nat /\ v[j] \in Nat
          BY <1>7
        <5>3. i = j => v[i] = v[j]
          OBVIOUS
        <5> QED
          BY <1>7, <5>1, <5>2, <5>3
      <4> QED
        BY <1>7, <4>1, StackEntries
    <3>3. w \in Stacks(Nat) /\ Len(w) <= N /\ \A i \in 1..Len(w) : w[i] = v[i]
      BY <2>1, <3>2, FixedStack DEF w
    <3>4. w \in Seq(Nat) /\ Len(w) = N
      BY <2>1, <3>1, <3>3 DEF Stacks
    <3> QED
      BY <1>7, <3>3, <3>4, SeqEqual
  <2>3. v # <<>> /\ Last(v) = v[N]
    BY <2>1 DEF Last
  <2>4. v[N] = n
    <3>1. Len(u) \in 1..Len(u)
      BY <1>2
    <3>2. u[Len(u)] = Len(h)
      <4>1. Len(h) \in P /\ u[1] <= Len(h)
        BY <1>1, <1>3 DEF P, InTurns
      <4>2. PICK i \in 1..Len(u) : u[i] = Len(h)
        BY <4>1 DEF Listed, P
      <4>3. i = Len(u)
        <5> SUFFICES ASSUME i # Len(u) PROVE FALSE
          OBVIOUS
        <5>1. i < Len(u)
          BY <1>2
        <5>2. u[i] < u[Len(u)] /\ u[Len(u)] \in 0..Len(h)
          BY <1>1, <1>2, <3>1, <5>1
        <5> QED
          BY <1>1, <4>2, <5>2
      <4> QED
        BY <4>2, <4>3
    <3>3. N = Len(u) - 1 /\ N \in 2..Len(u) - 1 /\ N + 1 = Len(u)
      BY <1>2, <1>4
    <3> QED
      BY <1>4, <1>5, <3>2, <3>3
  <2> QED
    BY <2>2, <2>3, <2>4 DEF w, RecordUndo
<1>9. \A i \in 1..v[1] : i \in 1..begin /\ g[i] = h[i] /\ g[i][1] <= 2
  <2> TAKE i \in 1..v[1]
  <2>1. i \in 1..u[1] /\ i \in 1..begin
    BY <1>3, <1>4
  <2>2. h[i][1] <= 2
    BY <2>1 DEF Listed
  <2> QED
    BY <1>5, <2>1, <2>2
<1>10. ASSUME NEW i \in 1..n, NEW j \in 1..n, g[j][1] = 2 PROVE i <= v[1] <=> g[i][1] = 1
  <2> DEFINE From(k) == IF k <= begin THEN k ELSE k + d
  <2>1. ASSUME NEW k \in 1..n
        PROVE  From(k) \in 1..Len(h) /\ g[k] = h[From(k)] /\ (From(k) <= u[1] <=> k <= u[1])
    <3>1. CASE k <= begin
      <4>1. k \in 1..begin /\ k \in 1..Len(h) /\ From(k) = k
        BY <1>1, <1>3, <1>5, <3>1
      <4> QED
        BY <1>5, <4>1
    <3>2. CASE ~(k <= begin)
      <4>1. /\ k \in begin + 1..n /\ k + d \in 1..Len(h) /\ From(k) = k + d
            /\ ~(k <= u[1]) /\ ~(k + d <= u[1])
        BY <1>1, <1>3, <1>5, <3>2
      <4> QED
        BY <1>5, <4>1
    <3> QED
      BY <3>1, <3>2
  <2> HIDE DEF From
  <2>2. h[From(j)][1] = 2 /\ g[i][1] = h[From(i)][1]
    BY <1>10, <2>1
  <2>3. From(i) <= u[1] <=> h[From(i)][1] = 1
    BY <2>1, <2>2 DEF Listed
  <2> QED
    BY <1>4, <2>1, <2>2, <2>3
<1>11. v # <<>>
  BY <1>7
<1> HIDE DEF v, w
<1>12. Listed(g, L, v)
  BY <1>7, <1>9, <1>10, <1>11 DEF Listed, n
<1> QED
  BY <1>8, <1>12 DEF n, g, v, w, begin, end

-----------------------------------------------------------------------------
\* What ListInv says at the prompt: the last entry is the end of the history.
LEMMA ListAtPrompt ==
    ASSUME ChatInv, ListInv, pc = "prompt"
    PROVE  /\ Listed(history, said, undo) /\ InTurns(history, said) /\ Len(said) >= 2
           /\ undo \in Seq(Nat) /\ Len(undo) \in Nat /\ 1 \in 1..Len(undo)
           /\ Len(undo) \in 1..Len(undo)
           /\ \A i \in 1..Len(undo) : undo[i] \in Places(history, said) /\ undo[i] \in 0..used
           /\ \A i, j \in 1..Len(undo) : i < j => undo[i] < undo[j]
           /\ undo[Len(undo)] = used
<1> DEFINE P == Places(history, said)
<1>1. /\ history \in Seq(Tokens) /\ Len(history) \in Nat
      /\ Marked(history, said, undo, stack, system)
      /\ undo \in Stacks(P) /\ Len(history) \in P
      /\ P \in SUBSET Nat /\ P \in SUBSET (0..Len(history))
  BY AtPrompt
<1>2. Listed(history, said, undo) /\ Len(said) >= 2
  BY DEF ListInv, Kept
<1>3. undo \in Seq(Nat)
  BY <1>1, MarkedTypes
<1>4. undo \in Seq(P) /\ undo # <<>>
  BY <1>1, <1>2 DEF Stacks, Listed
<1> HIDE DEF P
<1>5. /\ Len(undo) \in Nat /\ 1 \in 1..Len(undo) /\ Len(undo) \in 1..Len(undo)
      /\ \A i \in 1..Len(undo) : undo[i] \in P
  BY <1>4
<1>6. \A i \in 1..Len(undo) : undo[i] \in 0..used
  BY <1>1, <1>5 DEF used
<1>7. \A i, j \in 1..Len(undo) : i < j => undo[i] < undo[j]
  BY <1>2 DEF Listed
<1>8. undo[Len(undo)] = used
  <2>1. used \in P /\ used \in Nat
    BY <1>1 DEF used
  <2>2. undo[1] <= used
    BY <1>5, <1>6, <2>1
  <2>3. PICK i \in 1..Len(undo) : undo[i] = used
    BY <1>2, <2>1, <2>2 DEF Listed, P
  <2>4. i = Len(undo)
    <3> SUFFICES ASSUME i # Len(undo) PROVE FALSE
      OBVIOUS
    <3>1. i < Len(undo)
      BY <1>5
    <3>2. undo[i] < undo[Len(undo)] /\ undo[Len(undo)] \in 0..used
      BY <1>5, <1>6, <1>7, <3>1
    <3> QED
      BY <2>1, <2>3, <3>2
  <2> QED
    BY <2>3, <2>4
<1> QED
  BY <1>1, <1>2, <1>3, <1>5, <1>6, <1>7, <1>8 DEF P, Marked

\* Going back to a place, by a command.
LEMMA RewindList ==
    ASSUME ChatInv, ListInv, Command, NEW n \in Places(history, said), Rewind(n),
           NEW v \in Stacks(Places(history, said)), NEW w, FixStacks(v, w, n),
           Len(v) <= Len(undo), \A i \in 1..Len(v) : v[i] = undo[i],
           \A i \in Len(v) + 1..Len(undo) : undo[i] >= n
    PROVE  ListInv'
<1>1. pc = "prompt" /\ pc' = "prompt" /\ said' = said
  BY DEF Command
<1>2. /\ history \in Seq(Tokens) /\ said \in Seq(Nat)
      /\ undo \in Stacks(Places(history, said))
  BY <1>1, AtPrompt
<1>3. Listed(history, said, undo) /\ Len(said) >= 2
  BY <1>1, ListAtPrompt
<1>4. history' = SubSeq(history, 1, n) /\ undo' = RecordUndo(FixStack(v, n), n)
  BY DEF Rewind, FixStacks
<1>5. Listed(SubSeq(history, 1, n), said, RecordUndo(FixStack(v, n), n))
  BY <1>2, <1>3, ListedCut
<1> QED
  BY <1>1, <1>3, <1>4, <1>5 DEF ListInv, Kept

\* /undo goes back to the last entry but one, if there are two.
LEMMA UndoList ==
    ASSUME ChatInv, ListInv, Undo
    PROVE  /\ ListInv'
           /\ Len(undo) > 1 => history' = SubSeq(history, 1, undo[Len(undo) - 1])
<1> DEFINE N == Len(undo)
           P == Places(history, said)
           S == {i \in 1..N : undo[i] # used}
           k == Max({0} \cup S)
           earlier == Upto(undo, k)
<1>1. /\ Command
      /\ IF earlier = <<>>
         THEN undo' = <<used>> /\ UNCHANGED <<history, cells, stack, system>>
         ELSE Rewind(Last(earlier)) /\ FixStacks(Front(earlier), stack, Last(earlier))
  BY DEF Undo
<1>2. pc = "prompt" /\ pc' = "prompt" /\ said' = said
  BY <1>1 DEF Command
<1>3. undo \in Stacks(P) /\ P \in SUBSET Nat /\ used \in Nat
  BY <1>2, AtPrompt DEF used
<1>4. /\ Listed(history, said, undo) /\ Len(said) >= 2
      /\ N \in Nat /\ 1 \in 1..N /\ N \in 1..N
      /\ \A i \in 1..N : undo[i] \in P /\ undo[i] \in 0..used
      /\ \A i, j \in 1..N : i < j => undo[i] < undo[j]
      /\ undo[N] = used
  BY <1>2, ListAtPrompt
<1> HIDE DEF N, P
<1>5. k = N - 1
  <2>1. N \notin S /\ \A i \in 1..N - 1 : i \in S
    <3>1. \A i \in 1..N - 1 : i \in 1..N /\ i < N /\ undo[i] < used /\ undo[i] \in 0..used
      BY <1>4
    <3> QED
      BY <1>3, <1>4, <3>1
  <2>2. S \in SUBSET (1..N)
    OBVIOUS
  <2>3. k \in 0..N /\ (k # 0 => k \in S)
    <3> HIDE DEF S
    <3> QED
      BY <1>4, <2>2, HighestEntry
  <2>4. {0} \cup S \in SUBSET (0..N) /\ {0} \cup S # {}
    BY <1>4
  <2>5. \A x \in {0} \cup S : x <= k
    <3> DEFINE T == {0} \cup S
    <3>1. T \in SUBSET (0..N) /\ T # {}
      BY <2>4
    <3> HIDE DEF T
    <3> QED
      BY <1>4, <3>1, MaxIsGreatest DEF T
  <2>6. N - 1 \in {0} \cup S
    BY <1>4, <2>1
  <2> HIDE DEF S, k
  <2> QED
    BY <1>4, <2>1, <2>3, <2>5, <2>6
<1> HIDE DEF k
<1>6. /\ earlier \in Stacks(P) /\ Len(earlier) = N - 1
      /\ \A i \in 1..N - 1 : earlier[i] = undo[i]
  <2>1. N - 1 \in 0..Len(undo) /\ Len(undo) = N
    BY <1>4 DEF N
  <2> QED
    BY <1>3, <1>5, <2>1, UptoStack
<1> HIDE DEF earlier
<1>7. CASE earlier = <<>>
  <2>1. N = 1 /\ undo' = <<used>> /\ history' = history
    BY <1>1, <1>4, <1>6, <1>7
  <2>2. Len(<<used>>) = 1 /\ <<used>>[1] = used /\ <<used>> # <<>> /\ undo[1] = used
    BY <1>4, <2>1
  <2>3. Listed(history, said, <<used>>)
    <3>1. \A m \in P : used <= m => m = used
      <4> TAKE m \in P
      <4> HAVE used <= m
      <4>1. PICK i \in 1..N : undo[i] = m
        BY <1>4, <2>2 DEF Listed, P, N
      <4> QED
        BY <1>4, <2>1, <2>2, <4>1
    <3>2. \A i \in 1..used : history[i][1] <= 2
      BY <1>4, <2>2 DEF Listed
    <3>3. \A i, j \in 1..Len(history) :
              history[j][1] = 2 => (i <= used <=> history[i][1] = 1)
      BY <1>4, <2>2 DEF Listed
    <3>4. \A i \in 1..1 : i = 1
      OBVIOUS
    <3> DEFINE one == <<used>>
    <3>5. one # <<>> /\ Len(one) = 1 /\ one[1] = used
      OBVIOUS
    <3> HIDE DEF one
    <3>6. Listed(history, said, one)
      BY <3>1, <3>2, <3>3, <3>4, <3>5 DEF Listed, P
    <3> QED
      BY <3>6 DEF one
  <2>4. ListInv'
    BY <1>2, <1>4, <2>1, <2>3 DEF ListInv, Kept
  <2> QED
    BY <2>1, <2>4 DEF N
<1>8. CASE earlier # <<>>
  <2>1. N - 1 \in 1..N /\ N - 2 \in 0..N - 1 /\ N > 1
    <3>1. earlier \in Seq(P)
      BY <1>6 DEF Stacks
    <3>2. N - 1 # 0
      BY <1>6, <1>8, <3>1
    <3> QED
      BY <1>4, <3>2
  <2> DEFINE n == Last(earlier)
             v == Front(earlier)
  <2>2. n = undo[N - 1] /\ n \in P
    <3>1. n = earlier[N - 1]
      BY <1>6 DEF Last
    <3>2. N - 1 \in 1..N - 1
      BY <2>1
    <3> QED
      BY <1>4, <1>6, <2>1, <3>1, <3>2
  <2>3. v = Upto(earlier, N - 2)
    <3>1. (N - 1) - 1 = N - 2
      BY <1>4
    <3> QED
      BY <1>6, <3>1 DEF Front, Upto
  <2>4. v \in Stacks(P) /\ Len(v) = N - 2 /\ \A i \in 1..N - 2 : v[i] = earlier[i]
    BY <1>3, <1>6, <2>1, <2>3, UptoStack
  <2>5. Rewind(n) /\ FixStacks(v, stack, n)
    BY <1>1, <1>8
  <2> HIDE DEF n, v
  <2>6. /\ Len(v) <= N /\ \A i \in 1..Len(v) : v[i] = undo[i]
        /\ \A i \in Len(v) + 1..N : undo[i] >= n
    <3>1. \A i \in 1..N - 2 : i \in 1..N - 1
      BY <1>4
    <3>2. ASSUME NEW i \in N - 1..N PROVE undo[i] >= n
      <4>1. i \in 1..N /\ (i = N - 1 \/ N - 1 < i)
        BY <1>4, <2>1
      <4>2. undo[i] \in Nat /\ undo[N - 1] \in Nat
        BY <1>3, <1>4, <2>1, <4>1
      <4> QED
        BY <1>4, <2>1, <2>2, <4>1, <4>2
    <3>3. (N - 2) + 1 = N - 1 /\ N - 2 <= N
      BY <1>4
    <3> QED
      BY <1>6, <2>4, <3>1, <3>2, <3>3
  <2>7. ListInv'
    BY <1>1, <2>2, <2>4, <2>5, <2>6, RewindList DEF N, P
  <2>8. history' = SubSeq(history, 1, n)
    BY <2>5 DEF Rewind
  <2> QED
    BY <2>2, <2>7, <2>8 DEF N
<1> QED
  BY <1>7, <1>8

LEMMA ClearList ==
    ASSUME ChatInv, ListInv, Clear
    PROVE  ListInv'
<1>1. Command /\ Rewind(system) /\ FixStacks(undo, <<>>, system) /\ pc = "prompt"
  BY DEF Clear, Command
<1>2. /\ undo \in Stacks(Places(history, said)) /\ system \in Places(history, said)
      /\ Len(undo) \in Nat
  BY <1>1, AtPrompt, ListAtPrompt
<1>3. Len(undo) <= Len(undo) /\ \A i \in Len(undo) + 1..Len(undo) : FALSE
  BY <1>2
<1> QED
  BY <1>1, <1>2, <1>3, RewindList

LEMMA PopList ==
    ASSUME ChatInv, ListInv, Pop
    PROVE  ListInv'
<1> DEFINE P == Places(history, said)
           n == Last(stack)
<1>1. Command /\ Rewind(n) /\ FixStacks(undo, Front(stack), n) /\ pc = "prompt" /\ stack # <<>>
  BY DEF Pop, Command
<1>2. undo \in Stacks(P) /\ stack \in Stacks(P) /\ Len(undo) \in Nat
  BY <1>1, AtPrompt, ListAtPrompt
<1>3. stack \in Seq(P)
  BY <1>2 DEF Stacks
<1> HIDE DEF P
<1>4. Len(stack) \in Nat /\ Len(stack) # 0
  BY <1>1, <1>3
<1>5. n \in P
  BY <1>3, <1>4 DEF Last
<1>6. Len(undo) <= Len(undo) /\ \A i \in Len(undo) + 1..Len(undo) : FALSE
  BY <1>2
<1> HIDE DEF n
<1> QED
  BY <1>1, <1>2, <1>5, <1>6, RewindList DEF P

\* /forget takes out what is between the second entry and the third.
LEMMA ForgetList ==
    ASSUME ChatInv, ListInv, Forget
    PROVE  /\ ListInv' /\ Len(undo) >= 3
           /\ history' = Erased(history, undo[2], undo[3])
<1>1. /\ pc = "prompt" /\ pc' = "prompt" /\ said' = said /\ Len(undo) >= 2
  BY DEF Forget, Command
<1>2. /\ history \in Seq(Tokens) /\ said \in Seq(Nat) /\ Len(history) \in Nat
      /\ undo \in Stacks(Places(history, said))
      /\ Places(history, said) \in SUBSET (0..Len(history))
  BY <1>1, AtPrompt
<1>3. /\ Listed(history, said, undo) /\ InTurns(history, said) /\ Len(said) >= 2
      /\ Len(undo) \in Nat /\ undo[Len(undo)] = used
      /\ \A i \in 1..Len(undo) : undo[i] \in 0..used
      /\ \A i, j \in 1..Len(undo) : i < j => undo[i] < undo[j]
  BY <1>1, ListAtPrompt
<1>4. Len(undo) >= 3
  <2>1. Len(undo) # 2
    <3> SUFFICES ASSUME Len(undo) = 2 PROVE FALSE
      OBVIOUS
    <3>1. ~(Len(undo) > 2) /\ undo[2] = used
      BY <1>3
    <3> QED
      BY <3>1 DEF Forget
  <2>2. Len(undo) \in Nat /\ Len(undo) >= 2
    BY <1>1, <1>3
  <2>3. \A x \in Nat : x >= 2 /\ x # 2 => x >= 3
    OBVIOUS
  <2> QED
    BY <2>1, <2>2, <2>3
<1> DEFINE begin == undo[2]
           end == undo[3]
           g == Erased(history, begin, end)
           v == AdjustStack(begin, end, undo)
<1>5. /\ Erase(begin, end)
      /\ FixStacks(v, AdjustStack(begin, end, stack), used - (end - begin))
  BY <1>3, <1>4 DEF Forget
<1>6. history' = g
  BY <1>5 DEF Erase, Erased, used
<1>7. Len(g) = used - (end - begin)
  <2>1. 2 \in 1..Len(undo) /\ 3 \in 1..Len(undo)
    BY <1>3, <1>4
  <2>2. begin < end /\ begin \in 0..Len(history) /\ end \in 0..Len(history)
    BY <1>3, <2>1 DEF used
  <2> HIDE DEF begin, end
  <2>3. end \in begin..Len(history)
    BY <1>2, <2>2
  <2> QED
    BY <1>2, <2>2, <2>3, ErasedHistory DEF used
<1>8. undo' = RecordUndo(FixStack(v, Len(g)), Len(g))
  BY <1>5, <1>7 DEF FixStacks
<1>9. Listed(g, said, RecordUndo(FixStack(v, Len(g)), Len(g)))
  BY <1>2, <1>3, <1>4, ListedErased
<1>10. ListInv'
  BY <1>1, <1>3, <1>6, <1>8, <1>9 DEF ListInv, Kept
<1> QED
  BY <1>4, <1>6, <1>10

\* Steps that leave what was there before the present turn, and the list.
LEMMA SameList ==
    ASSUME ListInv, Kept' = Kept, undo' = undo, said' = said
    PROVE  ListInv'
BY DEF ListInv

LEMMA SayList ==
    ASSUME ChatInv, ListInv, NEW what, NEW message, Say(what, message)
    PROVE  ListInv'
<1>1. /\ pc = "prompt" /\ pc' = "eval" /\ before' = used /\ history' = history
      /\ undo' = undo /\ said' = said
  BY DEF Say, marks
<1>2. history \in Seq(Tokens)
  BY <1>1, AtPrompt
<1>3. SubSeq(history, 1, Len(history)) = history
  BY <1>2, KeepAll DEF Keep
<1>4. Kept' = Kept
  BY <1>1, <1>3 DEF Kept, used
<1> QED
  BY <1>1, <1>4, SameList

\* llama_decode, and the turn goes on.
LEMMA MoreList ==
    ASSUME ChatInv, ListInv, pc # "prompt", pc' # "prompt",
           NEW n \in Nat, used + n <= ContextSize, Decode(n),
           undo' = undo, said' = said, before' = before
    PROVE  ListInv'
<1>1. SubSeq(history', 1, before) = SubSeq(history, 1, before)
  BY DecodeTurn
<1>2. Kept' = Kept
  BY <1>1 DEF Kept
<1> QED
  BY <1>2, SameList

\* The message has been evaluated, or the reply has ended, or all is undone.
LEMMA EndList ==
    ASSUME ChatInv, ListInv, pc # "prompt", NEW n, Prompt(n),
           history' \in Seq(Tokens), before \in 0..used', n = Len(history') - before,
           SubSeq(history', 1, before) = SubSeq(history, 1, before),
           \A i \in before + 1..used' : history'[i] = <<present, i - before>>
    PROVE  ListInv'
<1> DEFINE h == history'
           g == SubSeq(h, 1, before)
<1>1. said \in Seq(Nat) /\ Marked(g, said, undo, stack, system)
  BY InTurn
<1>2. h \in Seq(Tokens) /\ before \in 0..Len(h)
  BY DEF used
<1>3. \A i \in before + 1..Len(h) : h[i] = <<Len(said) + 1, i - before>>
  BY DEF used, present
<1>4. Listed(g, said, undo) /\ Len(said) >= 2
  BY DEF ListInv, Kept
<1>5. InTurns(g, said) /\ undo \in Stacks(Places(g, said))
  BY <1>1 DEF Marked
<1>6. /\ pc' = "prompt" /\ said' = Append(said, Len(h) - before)
      /\ undo' = RecordUndo(undo, Len(h))
  BY DEF Prompt
<1> HIDE DEF h
<1>7. Listed(h, Append(said, Len(h) - before), RecordUndo(undo, Len(h)))
  BY <1>1, <1>2, <1>3, <1>4, <1>5, ListedEnd
<1>8. Len(said') >= 2
  <2>1. Len(h) - before \in Nat
    BY <1>2
  <2>2. Len(Append(said, Len(h) - before)) = Len(said) + 1 /\ Len(said) \in Nat
    BY <1>1, <2>1
  <2> QED
    BY <1>4, <1>6, <2>2
<1>9. Kept' = h
  BY <1>6 DEF Kept, h
<1> QED
  BY <1>6, <1>7, <1>8, <1>9 DEF ListInv

LEMMA EvalFailsList ==
    ASSUME ChatInv, ListInv, pc # "prompt", EvalFails
    PROVE  ListInv'
<1>1. history \in Seq(Tokens) /\ before \in 0..Len(history) /\ before \in Nat
  BY InTurn
<1>2. history' = SubSeq(history, 1, before) /\ Prompt(0)
  BY DEF EvalFails, Rewind
<1>3. history' \in Seq(Tokens) /\ Len(history') = before
  BY <1>1, <1>2, CutHistory
<1>4. SubSeq(history', 1, before) = history'
  BY <1>3, KeepAll DEF Keep
<1>5. /\ before \in 0..used' /\ 0 = Len(history') - before
      /\ \A i \in before + 1..used' : FALSE
  BY <1>1, <1>3 DEF used
<1> QED
  BY <1>2, <1>3, <1>4, <1>5, EndList

\* The turn ends with the history as it is.
LEMMA EndsAsItIsList ==
    ASSUME ChatInv, ListInv, pc # "prompt", history' = history, Prompt(Len(history') - before)
    PROVE  ListInv'
<1>1. history \in Seq(Tokens) /\ before \in 0..Len(history) /\ Present
  BY InTurn
<1>2. /\ history' \in Seq(Tokens) /\ before \in 0..used'
      /\ \A i \in before + 1..used' : history'[i] = <<present, i - before>>
  BY <1>1 DEF Present, used
<1> QED
  BY <1>2, EndList

LEMMA EvalList ==
    ASSUME ChatInv, ListInv, EvalRefused \/ EvalInterrupted \/ EvalBatch \/ EvalReturns
    PROVE  ListInv'
<1>1. pc = "eval"
  BY DEF EvalRefused, EvalInterrupted, EvalBatch, EvalReturns
<1>2. CASE EvalRefused \/ EvalInterrupted
  BY <1>1, <1>2, EvalFailsList DEF EvalRefused, EvalInterrupted
<1>3. CASE EvalBatch
  <2> DEFINE left == Head(parts) - done
             n == Min({left, Batch})
  <2>1. /\ ~Refused /\ parts # <<>> /\ Decode(n)
        /\ UNCHANGED <<marks, manual, sigint, pc, work, before, said>>
    BY <1>3 DEF EvalBatch
  <2>2. n \in Nat /\ used + n <= ContextSize
    BY <1>1, <2>1, BatchFits
  <2> HIDE DEF n
  <2> QED
    BY <1>1, <2>1, <2>2, MoreList DEF marks
<1>4. CASE EvalReturns
  <2>1. history' = history
    BY <1>4 DEF EvalReturns
  <2>2. CASE work = "file" \/ manual
    <3>1. Prompt(Len(history') - before)
      BY <1>4, <2>1, <2>2 DEF EvalReturns, used
    <3> QED
      BY <1>1, <2>1, <3>1, EndsAsItIsList
  <2>3. CASE ~(work = "file" \/ manual)
    <3>1. pc' = "reply" /\ undo' = undo /\ said' = said /\ before' = before
      BY <1>4, <2>3 DEF EvalReturns, marks, evaluation
    <3>2. Kept' = Kept
      BY <1>1, <2>1, <3>1 DEF Kept
    <3> QED
      BY <3>1, <3>2, SameList
  <2> QED
    BY <2>2, <2>3
<1> QED
  BY <1>2, <1>3, <1>4

LEMMA ReplyList ==
    ASSUME ChatInv, ListInv, ReplyInterrupted \/ ReplyRefused \/ ReplyToken
    PROVE  ListInv'
<1>1. pc # "prompt"
  BY DEF ReplyInterrupted, ReplyRefused, ReplyToken
<1>2. CASE ReplyInterrupted \/ ReplyRefused
  <2>1. history' = history /\ Prompt(Len(history') - before)
    BY <1>2 DEF ReplyInterrupted, ReplyRefused, ReplyEnds
  <2> QED
    BY <1>1, <2>1, EndsAsItIsList
<1>3. CASE ReplyToken
  <2>1. used + 1 <= ContextSize /\ Decode(1)
    BY <1>3 DEF ReplyToken, Fits
  <2>2. CASE pc' = "reply" /\ UNCHANGED <<marks, manual, sigint, evaluation, said>>
    BY <1>1, <2>1, <2>2, MoreList DEF marks, evaluation
  <2>3. CASE ReplyEnds
    <3>1. Prompt(Len(history') - before)
      BY <2>3 DEF ReplyEnds
    <3>2. /\ history' \in Seq(Tokens) /\ before \in 0..used'
          /\ SubSeq(history', 1, before) = SubSeq(history, 1, before)
          /\ \A i \in before + 1..used' : history'[i] = <<present, i - before>>
      BY <1>1, <2>1, DecodeTurn
    <3> QED
      BY <1>1, <3>1, <3>2, EndList
  <2> QED
    BY <1>3, <2>2, <2>3 DEF ReplyToken
<1> QED
  BY <1>2, <1>3

LEMMA NextList == ChatInv /\ ListInv /\ [Next]_vars => ListInv'
<1> SUFFICES ASSUME ChatInv, ListInv, [Next]_vars PROVE ListInv'
  OBVIOUS
<1>1. CASE Undo \/ Forget \/ Clear \/ Pop
  BY <1>1, UndoList, ForgetList, ClearList, PopList
<1>2. CASE \E what \in {"line", "file"}, message \in Messages : Say(what, message)
  BY <1>2, SayList
<1>3. CASE EvalRefused \/ EvalInterrupted \/ EvalBatch \/ EvalReturns
  BY <1>3, EvalList
<1>4. CASE ReplyInterrupted \/ ReplyRefused \/ ReplyToken
  BY <1>4, ReplyList
<1>5. CASE Push \/ Manual \/ Sample \/ Interrupt \/ UNCHANGED vars
  <2>1. undo' = undo /\ said' = said /\ history' = history /\ before' = before
    BY <1>5 DEF Push, Command, Manual, Sample, Interrupt, vars, marks, evaluation
  <2>2. pc = "prompt" <=> pc' = "prompt"
    BY <1>5 DEF Push, Command, Manual, Sample, Interrupt, vars
  <2>3. Kept' = Kept
    BY <2>1, <2>2 DEF Kept
  <2> QED
    BY <2>1, <2>3, SameList
<1> QED
  BY <1>1, <1>2, <1>3, <1>4, <1>5 DEF Next

-----------------------------------------------------------------------------
\* Between two places that follow each other there is one turn, and no other part
\* of the history is of it.
LEMMA OneTurn ==
    ASSUME NEW L \in Seq(Nat), NEW h \in Seq(Tokens), InTurns(h, L),
           NEW a \in Places(h, L), NEW b \in Places(h, L), a < b,
           \A m \in Places(h, L) : ~(a < m /\ m < b)
    PROVE  \E t \in Nat : /\ \A i \in 1..a : h[i][1] < t
                          /\ \A i \in a + 1..b : h[i][1] = t
                          /\ \A i \in b + 1..Len(h) : h[i][1] > t
<1>1. /\ Len(h) \in Nat /\ a \in 0..Len(h) /\ b \in 0..Len(h) /\ a # Len(h)
      /\ a \in Nat /\ b \in Nat
  <2>1. Len(h) \in Nat /\ a \in 0..Len(h) /\ b \in 0..Len(h)
    BY DEF Places
  <2> QED
    BY <2>1
<1> DEFINE t == h[a + 1][1]
<1>2. h[a + 1][2] = 1 /\ (a # 0 => h[a][1] < t)
  BY <1>1, TurnBegins
<1>3. BeginsAfter(h, t, a)
  BY <1>1, <1>2 DEF BeginsAfter
<1>4. \A i \in 1..Len(h) : h[i][1] \in Nat
  BY DEF Tokens
<1>5. \A i, j \in 1..Len(h) : i <= j => h[i][1] <= h[j][1]
  BY DEF InTurns
<1> HIDE DEF t
<1>6. /\ t \in 1..Len(L) /\ L[t] \in Nat /\ a + L[t] \in a + 1..Len(h)
      /\ \A k \in 1..L[t] : h[a + k] = <<t, k>>
  BY <1>3, TurnIsThere
<1>7. b <= a + L[t]
  <2> DEFINE m == a + L[t]
  <2>1. L[t] \in 1..L[t] /\ m \in 0..Len(h) /\ a < m /\ m \in Nat
    <3>1. a \in Nat /\ Len(h) \in Nat /\ L[t] \in Nat /\ a + L[t] \in a + 1..Len(h)
      BY <1>1, <1>6
    <3> QED
      BY <3>1
  <2>2. h[m] = <<t, L[t]>>
    BY <1>6, <2>1
  <2> HIDE DEF m
  <2>3. m \in Places(h, L)
    BY <2>1, <2>2 DEF Places
  <2>4. ~(m < b)
    BY <2>1, <2>3
  <2> QED
    BY <1>1, <2>1, <2>4 DEF m
<1>8. \A i \in a + 1..b : h[i][1] = t
  <2> TAKE i \in a + 1..b
  <2>1. i - a \in 1..L[t] /\ a + (i - a) = i
    <3>1. a \in Nat /\ b \in Nat /\ L[t] \in Nat /\ b <= a + L[t]
      BY <1>1, <1>6, <1>7
    <3> QED
      BY <3>1
  <2>2. h[i] = <<t, i - a>>
    BY <1>6, <2>1
  <2> QED
    BY <2>2
<1>9. \A i \in 1..a : h[i][1] < t
  <2> TAKE i \in 1..a
  <2>1. a # 0 /\ i <= a /\ i \in 1..Len(h) /\ a \in 1..Len(h) /\ t \in Nat
    BY <1>1, <1>6
  <2>2. h[i][1] <= h[a][1] /\ h[a][1] < t
    BY <1>2, <1>5, <2>1
  <2> QED
    BY <1>4, <2>1, <2>2
<1>10. \A i \in b + 1..Len(h) : h[i][1] > t
  <2> TAKE i \in b + 1..Len(h)
  <2>1. /\ b # Len(h) /\ b # 0 /\ b \in a + 1..b /\ b + 1 \in 1..Len(h) /\ i \in 1..Len(h)
        /\ b + 1 <= i
    BY <1>1
  <2>2. h[b][1] < h[b + 1][1]
    BY <2>1, TurnBegins
  <2>3. h[b][1] = t /\ h[b + 1][1] <= h[i][1]
    BY <1>5, <1>8, <2>1
  <2>4. t \in Nat /\ h[b + 1][1] \in Nat /\ h[i][1] \in Nat
    BY <1>4, <1>6, <2>1
  <2> QED
    BY <2>2, <2>3, <2>4
<1>11. t \in Nat
  BY <1>6
<1> WITNESS t \in Nat
<1> QED
  BY <1>8, <1>9, <1>10

\* What is erased between two places that follow each other is one turn.
LEMMA ErasesOne ==
    ASSUME history \in Seq(Tokens), NEW a \in 0..used, NEW b \in 0..used, NEW t \in Nat,
           \A i \in 1..a : history[i][1] < t,
           \A i \in a + 1..b : history[i][1] = t,
           \A i \in b + 1..used : history[i][1] > t,
           history' = SubSeq(history, 1, a) \o SubSeq(history, b + 1, used)
    PROVE  ErasesTurn(t)
<1>1. used \in Nat /\ \A i \in 1..used : history[i][1] \in Nat
  BY DEF used, Tokens
<1>2. ASSUME NEW i \in 1..used PROVE history[i][1] = t <=> i \in a + 1..b
  <2>1. i \in 1..a \/ i \in a + 1..b \/ i \in b + 1..used
    BY <1>1
  <2>2. i \in 1..a => i \notin a + 1..b
    BY <1>1
  <2>3. i \in b + 1..used => i \notin a + 1..b
    BY <1>1
  <2> QED
    BY <1>1, <2>1, <2>2, <2>3
<1>3. a + 1..b \subseteq 1..used
  BY <1>1
<1>4. {i \in 1..used : history[i][1] = t} = a + 1..b
  BY <1>2, <1>3
<1> QED
  BY <1>4 DEF ErasesTurn

LEMMA GreatestIs ==
    ASSUME NEW S \in SUBSET Nat, NEW x \in S, \A y \in S : y <= x
    PROVE  Max(S) = x
<1>1. \A z \in S : (\A y \in S : z >= y) <=> z = x
  <2> TAKE z \in S
  <2>1. z \in Nat /\ x \in Nat /\ z <= x
    OBVIOUS
  <2> QED
    BY <2>1
<1> QED
  BY <1>1 DEF Max

LEMMA LeastIs ==
    ASSUME NEW S \in SUBSET Nat, NEW x \in S, \A y \in S : x <= y
    PROVE  Min(S) = x
<1>1. \A z \in S : (\A y \in S : z <= y) <=> z = x
  <2> TAKE z \in S
  <2>1. z \in Nat /\ x \in Nat /\ x <= z
    OBVIOUS
  <2> QED
    BY <2>1
<1> QED
  BY <1>1 DEF Min

\* The BOS token and the system prompt.
LEMMA FirstTurns ==
    ASSUME Init
    PROVE  \E bos \in 0..1, prompt \in 0..2 :
              /\ said = <<bos, prompt>> /\ pc = "prompt"
              /\ history \in Seq(Tokens) /\ Len(history) = bos + prompt
              /\ \A i \in 1..bos : history[i] = <<1, i>>
              /\ \A i \in bos + 1..bos + prompt : history[i] = <<2, i - bos>>
              /\ undo = IF prompt = 0 THEN <<bos>> ELSE <<bos, bos + prompt>>
<1>1. PICK bos \in 0..1, prompt \in 0..2 :
        /\ said = <<bos, prompt>> /\ pc = "prompt"
        /\ history = Whole(1) \o Whole(2)
        /\ undo = IF prompt = 0 THEN <<bos>> ELSE <<bos, used>>
  BY DEF Init
<1>2. bos \in Nat /\ prompt \in Nat
  OBVIOUS
<1> DEFINE one == [k \in 1..bos |-> <<1, k>>]
           other == [k \in 1..prompt |-> <<2, k>>]
<1>3. Whole(1) = one /\ Whole(2) = other
  BY <1>1 DEF Whole
<1>4. one \in Seq(Tokens) /\ Len(one) = bos /\ \A i \in 1..bos : one[i] = <<1, i>>
  BY <1>2 DEF Tokens
<1>5. other \in Seq(Tokens) /\ Len(other) = prompt /\ \A i \in 1..prompt : other[i] = <<2, i>>
  BY <1>2 DEF Tokens
<1> HIDE DEF one, other
<1>6. /\ history \in Seq(Tokens) /\ Len(history) = bos + prompt
      /\ \A i \in 1..bos : history[i] = one[i]
      /\ \A i \in bos + 1..bos + prompt : history[i] = other[i - bos]
  <2>1. history = one \o other
    BY <1>1, <1>3
  <2>2. /\ one \in Seq(Tokens) /\ Len(one) = bos
        /\ other \in Seq(Tokens) /\ Len(other) = prompt
    BY <1>4, <1>5
  <2> QED
    BY <1>2, <2>1, <2>2
<1>7. \A i \in bos + 1..bos + prompt : i - bos \in 1..prompt
  BY <1>2
<1>8. /\ \A i \in 1..bos : history[i] = <<1, i>>
      /\ \A i \in bos + 1..bos + prompt : history[i] = <<2, i - bos>>
  BY <1>4, <1>5, <1>6, <1>7
<1>9. undo = IF prompt = 0 THEN <<bos>> ELSE <<bos, bos + prompt>>
  BY <1>1, <1>6 DEF used
<1> WITNESS bos \in 0..1, prompt \in 0..2
<1> QED
  BY <1>1, <1>6, <1>8, <1>9

LEMMA InitList == Init => ListInv
<1> SUFFICES ASSUME Init PROVE ListInv
  OBVIOUS
<1>1. PICK bos \in 0..1, prompt \in 0..2 :
        /\ said = <<bos, prompt>> /\ pc = "prompt"
        /\ history \in Seq(Tokens) /\ Len(history) = bos + prompt
        /\ \A i \in 1..bos : history[i] = <<1, i>>
        /\ \A i \in bos + 1..bos + prompt : history[i] = <<2, i - bos>>
        /\ undo = IF prompt = 0 THEN <<bos>> ELSE <<bos, bos + prompt>>
  BY FirstTurns
<1> DEFINE n == bos + prompt
<1>2. bos \in Nat /\ prompt \in Nat /\ n \in Nat /\ bos <= n
  OBVIOUS
<1>3. Len(said) = 2 /\ said[1] = bos /\ said[2] = prompt
  BY <1>1
<1>4. \A i \in 1..n : /\ i <= bos => history[i][1] = 1
                      /\ i > bos => history[i][1] = 2 /\ history[i][2] = i - bos
  <2> TAKE i \in 1..n
  <2>1. CASE i <= bos
    <3>1. i \in 1..bos
      BY <1>2, <2>1
    <3>2. history[i] = <<1, i>>
      BY <1>1, <3>1
    <3> QED
      BY <1>2, <2>1, <3>2
  <2>2. CASE i > bos
    <3>1. i \in bos + 1..n
      BY <1>2, <2>2
    <3>2. history[i] = <<2, i - bos>>
      BY <1>1, <3>1
    <3> QED
      BY <1>2, <2>2, <3>2
  <2> QED
    BY <1>2, <2>1, <2>2
<1>5. \A m \in Places(history, said) : bos <= m => m = bos \/ m = n
  <2> TAKE m \in Places(history, said)
  <2> HAVE bos <= m
  <2>1. m \in 0..n /\ (m = 0 \/ history[m][2] = said[history[m][1]])
    BY <1>1 DEF Places
  <2>2. CASE m > bos
    <3>1. m # 0 /\ m \in 1..n
      BY <1>2, <2>1, <2>2
    <3>2. history[m][1] = 2 /\ history[m][2] = m - bos
      BY <1>4, <2>2, <3>1
    <3>3. m - bos = prompt
      BY <1>3, <2>1, <3>1, <3>2
    <3> QED
      BY <1>2, <3>1, <3>3
  <2> QED
    BY <1>2, <2>1, <2>2
<1>6. /\ Len(undo) \in {1, 2} /\ undo # <<>> /\ undo[1] = bos
      /\ Len(undo) = 2 => undo[2] = n /\ bos < n
      /\ Len(undo) = 1 => n = bos
  BY <1>1, <1>2
<1>7. Len(history) = n
  BY <1>1
<1> HIDE DEF n
<1>8. \A i, j \in 1..Len(undo) : i < j => undo[i] < undo[j]
  <2>1. \A i, j \in 1..Len(undo) : i < j => Len(undo) = 2 /\ i = 1 /\ j = 2
    <3>1. Len(undo) = 1 \/ Len(undo) = 2
      BY <1>6
    <3>2. (\A i, j \in 1..1 : ~(i < j)) /\ (\A i, j \in 1..2 : i < j => i = 1 /\ j = 2)
      OBVIOUS
    <3> QED
      BY <3>1, <3>2
  <2> QED
    BY <1>6, <2>1
<1>9. ASSUME NEW m \in Places(history, said), undo[1] <= m PROVE \E i \in 1..Len(undo) : undo[i] = m
  <2>1. m = bos \/ m = n
    BY <1>5, <1>6, <1>9
  <2>2. 1 \in 1..Len(undo) /\ (Len(undo) = 2 => 2 \in 1..Len(undo))
    BY <1>6
  <2> QED
    BY <1>6, <2>1, <2>2
<1>10. \A i \in 1..undo[1] : history[i][1] <= 2
  <2> TAKE i \in 1..undo[1]
  <2>1. i \in 1..n /\ i <= bos
    BY <1>2, <1>6
  <2> QED
    BY <1>4, <2>1
<1>11. \A i, j \in 1..Len(history) : history[j][1] = 2 => (i <= undo[1] <=> history[i][1] = 1)
  <2> TAKE i, j \in 1..Len(history)
  <2>1. i \in 1..n /\ (i <= bos \/ i > bos)
    BY <1>2, <1>7
  <2> QED
    BY <1>2, <1>4, <1>6, <2>1
<1>12. Listed(history, said, undo)
  BY <1>6, <1>8, <1>9, <1>10, <1>11 DEF Listed
<1> QED
  BY <1>1, <1>3, <1>12 DEF ListInv, Kept

LEMMA ListInvariant == Spec => [](ChatInv /\ ListInv)
<1>1. Init => ChatInv /\ ListInv
  BY InitChat, InitList
<1>2. ChatInv /\ ListInv /\ [Next]_vars => (ChatInv /\ ListInv)'
  BY NextChat, NextList
<1> QED
  BY <1>1, <1>2, PTL DEF Spec

LEMMA UndoErases ==
    ASSUME ChatInv, ListInv, Undo, Spoken # {}
    PROVE  ErasesTurn(Max(Spoken))
<1> DEFINE N == Len(undo)
<1>1. pc = "prompt"
  BY DEF Undo, Command
<1>2. history \in Seq(Tokens) /\ said \in Seq(Nat) /\ Len(history) \in Nat
  BY <1>1, AtPrompt
<1>3. /\ Listed(history, said, undo) /\ InTurns(history, said)
      /\ N \in Nat /\ 1 \in 1..N /\ N \in 1..N
      /\ \A i \in 1..N : undo[i] \in Places(history, said) /\ undo[i] \in 0..used
      /\ \A i, j \in 1..N : i < j => undo[i] < undo[j]
      /\ undo[N] = used
  BY <1>1, ListAtPrompt
<1>4. \A i \in 1..used : history[i][1] \in Nat /\ history[i][1] # 0
  BY <1>3 DEF InTurns, used
<1>5. PICK k \in 1..used : history[k][1] > 2
  <2>1. PICK s \in Spoken : TRUE
    OBVIOUS
  <2>2. PICK i \in 1..used : s = history[i][1] /\ s \notin {1, 2}
    BY <2>1 DEF Spoken
  <2>3. history[i][1] > 2
    BY <1>4, <2>2
  <2> QED
    BY <2>2, <2>3
<1> HIDE DEF N
<1>6. N > 1
  <2> SUFFICES ASSUME N = 1 PROVE FALSE
    BY <1>3
  <2>1. \A i \in 1..used : history[i][1] <= 2
    BY <1>3 DEF Listed
  <2> QED
    BY <1>4, <1>5, <2>1
<1> DEFINE a == undo[N - 1]
<1>7. /\ N - 1 \in 1..N /\ a \in Places(history, said) /\ a \in 0..used /\ a < used
      /\ used \in Places(history, said) /\ used \in Nat
  <2>1. N - 1 \in 1..N /\ N - 1 < N
    BY <1>3, <1>6
  <2> QED
    BY <1>2, <1>3, <2>1 DEF used
<1>8. \A m \in Places(history, said) : ~(a < m /\ m < used)
  <2> TAKE m \in Places(history, said)
  <2> SUFFICES ASSUME a < m, m < used PROVE FALSE
    OBVIOUS
  <2>1. m \in Nat
    BY <1>2, PlacesAreNat
  <2>2. undo[1] <= a
    <3>1. N - 1 = 1 \/ 1 < N - 1
      BY <1>3, <1>6
    <3>2. undo[1] \in 0..used
      BY <1>3
    <3> QED
      BY <1>3, <1>7, <3>1, <3>2
  <2>3. undo[1] \in 0..used
    BY <1>3
  <2>4. undo[1] <= m
    BY <1>7, <2>1, <2>2, <2>3
  <2>5. PICK i \in 1..N : undo[i] = m
    BY <1>3, <2>4 DEF Listed, N
  <2>6. i = N \/ i = N - 1 \/ i < N - 1
    BY <1>3
  <2>7. i < N - 1 => undo[i] < a
    BY <1>3, <1>7
  <2> QED
    BY <1>3, <1>7, <2>1, <2>5, <2>6, <2>7
<1> HIDE DEF a
<1>9. PICK t \in Nat : /\ \A i \in 1..a : history[i][1] < t
                       /\ \A i \in a + 1..used : history[i][1] = t
                       /\ \A i \in used + 1..used : history[i][1] > t
  <2>1. \E t \in Nat : /\ \A i \in 1..a : history[i][1] < t
                       /\ \A i \in a + 1..used : history[i][1] = t
                       /\ \A i \in used + 1..Len(history) : history[i][1] > t
    BY <1>2, <1>3, <1>7, <1>8, OneTurn
  <2> QED
    BY <2>1 DEF used
<1>10. \A i \in 1..used : history[i][1] <= t
  <2> TAKE i \in 1..used
  <2>1. i \in 1..a \/ i \in a + 1..used
    BY <1>7
  <2> QED
    BY <1>4, <1>9, <2>1
<1>11. Max(Spoken) = t
  <2>1. used \in a + 1..used /\ used \in 1..used
    BY <1>7
  <2>2. history[used][1] = t
    BY <1>9, <2>1
  <2>3. t > 2
    BY <1>4, <1>5, <1>10
  <2>4. t \in Spoken
    BY <2>1, <2>2, <2>3 DEF Spoken
  <2>5. Spoken \in SUBSET Nat /\ \A y \in Spoken : y <= t
    BY <1>4, <1>10 DEF Spoken
  <2> QED
    BY <2>4, <2>5, GreatestIs
<1>12. history' = SubSeq(history, 1, a) \o SubSeq(history, used + 1, used)
  <2>1. history' = SubSeq(history, 1, a)
    BY <1>6, UndoList DEF a, N
  <2>2. a \in 0..Len(history)
    BY <1>7 DEF used
  <2>3. SubSeq(history, 1, a) \in Seq(Tokens)
    BY <1>2, <2>2, CutHistory
  <2>4. SubSeq(history, used + 1, used) = <<>>
    BY <1>2, <1>7
  <2>5. SubSeq(history, 1, a) \o <<>> = SubSeq(history, 1, a)
    BY <2>3
  <2> QED
    BY <2>1, <2>4, <2>5
<1>13. used \in 0..used
  BY <1>7
<1> QED
  BY <1>2, <1>7, <1>9, <1>11, <1>12, <1>13, ErasesOne

LEMMA ForgetErases ==
    ASSUME ChatInv, ListInv, Forget, NEW k \in 1..used, history[k][1] = 2
    PROVE  ErasesTurn(Min(Spoken))
<1> DEFINE N == Len(undo)
           a == undo[2]
           b == undo[3]
           P == Places(history, said)
<1>1. pc = "prompt"
  BY DEF Forget, Command
<1>2. history \in Seq(Tokens) /\ said \in Seq(Nat) /\ Len(history) \in Nat /\ P \in SUBSET Nat
  BY <1>1, AtPrompt
<1>3. /\ Listed(history, said, undo) /\ InTurns(history, said)
      /\ N \in Nat /\ 1 \in 1..N
      /\ \A i \in 1..N : undo[i] \in P /\ undo[i] \in 0..used
      /\ \A i, j \in 1..N : i < j => undo[i] < undo[j]
  BY <1>1, ListAtPrompt
<1>4. N >= 3 /\ history' = Erased(history, a, b)
  BY ForgetList
<1>5. 2 \in 1..N /\ 3 \in 1..N /\ used \in Nat
  BY <1>2, <1>3, <1>4 DEF used
<1> HIDE DEF N
<1>6. ASSUME NEW j \in 2..N, NEW m \in P PROVE ~(undo[j - 1] < m /\ m < undo[j])
  <2> SUFFICES ASSUME undo[j - 1] < m, m < undo[j] PROVE FALSE
    OBVIOUS
  <2>1. j - 1 \in 1..N /\ j \in 1..N /\ m \in Nat
    BY <1>2, <1>3
  <2>2. \A i \in 1..N : undo[i] \in Nat
    BY <1>2, <1>3
  <2>3. undo[1] <= m
    <3>1. j - 1 = 1 \/ 1 < j - 1
      BY <2>1
    <3>2. undo[1] <= undo[j - 1]
      BY <1>3, <2>1, <2>2, <3>1
    <3> QED
      BY <1>3, <2>1, <2>2, <3>2
  <2>4. PICK i \in 1..N : undo[i] = m
    BY <1>3, <2>3 DEF Listed, P, N
  <2>5. i = j \/ i = j - 1 \/ i < j - 1 \/ j < i
    BY <2>1
  <2>6. (i < j - 1 => undo[i] < undo[j - 1]) /\ (j < i => undo[j] < undo[i])
    BY <1>3, <2>1
  <2> QED
    BY <2>1, <2>2, <2>4, <2>5, <2>6
<1>7. /\ undo[1] \in P /\ a \in P /\ b \in P /\ undo[1] \in 0..used /\ a \in 0..used
      /\ b \in 0..used /\ undo[1] < a /\ a < b
  BY <1>3, <1>5
<1>8. \A m \in P : ~(undo[1] < m /\ m < a) /\ ~(a < m /\ m < b)
  <2>1. 2 \in 2..N /\ 3 \in 2..N /\ 2 - 1 = 1 /\ 3 - 1 = 2
    BY <1>3, <1>4
  <2>2. \A m \in P : ~(undo[2 - 1] < m /\ m < undo[2])
    BY <1>6, <2>1
  <2>3. \A m \in P : ~(undo[3 - 1] < m /\ m < undo[3])
    BY <1>6, <2>1
  <2> QED
    BY <2>1, <2>2, <2>3
<1> DEFINE z == undo[1]
<1>9. \A i \in 1..used : i <= z <=> history[i][1] = 1
  BY <1>3 DEF Listed, used
<1>10. \A i \in 1..used : history[i][1] \in Nat /\ history[i][1] # 0
  BY <1>3 DEF InTurns, used
<1> HIDE DEF a, b, P, z
<1>11. PICK s \in Nat : /\ \A i \in 1..z : history[i][1] < s
                        /\ \A i \in z + 1..a : history[i][1] = s
                        /\ \A i \in a + 1..Len(history) : history[i][1] > s
  BY <1>2, <1>3, <1>7, <1>8, OneTurn DEF z, P
<1>12. s = 2
  <2>1. /\ z + 1 \in z + 1..a /\ z + 1 \in 1..used /\ ~(z + 1 <= z)
        /\ z \in Nat /\ a \in Nat
    BY <1>5, <1>7 DEF z
  <2>2. history[z + 1][1] = s
    BY <1>11, <2>1
  <2>3. s # 1 /\ s # 0
    BY <1>9, <1>10, <2>1, <2>2
  <2>4. k > z
    BY <1>9, <2>1
  <2>5. history[k][1] >= s
    <3>1. k \in z + 1..a \/ k \in a + 1..Len(history)
      BY <1>5, <2>1, <2>4 DEF used
    <3> QED
      BY <1>10, <1>11, <3>1
  <2> QED
    BY <2>3, <2>5
<1>13. PICK t \in Nat : /\ \A i \in 1..a : history[i][1] < t
                        /\ \A i \in a + 1..b : history[i][1] = t
                        /\ \A i \in b + 1..used : history[i][1] > t
  BY <1>2, <1>3, <1>7, <1>8, OneTurn DEF used, P
<1>14. b \in a + 1..b /\ b \in 1..used /\ b \in a + 1..Len(history) /\ history[b][1] = t
  <2>1. b \in a + 1..b /\ b \in 1..used /\ b \in a + 1..Len(history)
    BY <1>5, <1>7 DEF used
  <2> QED
    BY <1>13, <2>1
<1>15. t > 2
  BY <1>11, <1>12, <1>14
<1>16. \A i \in 1..used : history[i][1] \notin {1, 2} => t <= history[i][1]
  <2> TAKE i \in 1..used
  <2> HAVE history[i][1] \notin {1, 2}
  <2>1. i \in 1..z \/ i \in z + 1..a \/ i \in a + 1..b \/ i \in b + 1..used
    BY <1>5, <1>7 DEF z
  <2>2. i \notin 1..z
    BY <1>9
  <2>3. i \notin z + 1..a
    BY <1>11, <1>12
  <2> QED
    BY <1>10, <1>13, <2>1, <2>2, <2>3
<1>17. Min(Spoken) = t
  <2>1. t \in Spoken
    BY <1>14, <1>15 DEF Spoken
  <2>2. Spoken \in SUBSET Nat /\ \A y \in Spoken : t <= y
    BY <1>10, <1>16 DEF Spoken
  <2> QED
    BY <2>1, <2>2, LeastIs
<1>18. history' = SubSeq(history, 1, a) \o SubSeq(history, b + 1, used)
  BY <1>4 DEF Erased, used
<1> QED
  BY <1>2, <1>7, <1>13, <1>17, <1>18, ErasesOne

\* /undo erases the last turn that a user began, and /forget the oldest of them
\* while the system prompt is there: the whole turn and nothing else, after any
\* other commands, messages that failed and replies that were interrupted.
THEOREM TurnsAreErased == Spec => CommandsEraseTurns
<1>1. ChatInv /\ ListInv /\ [Next]_vars
        => [Undo /\ Spoken # {} => ErasesTurn(Max(Spoken))]_vars
  BY UndoErases
<1>2. ChatInv /\ ListInv /\ [Next]_vars
        => [Forget /\ (\E i \in 1..used : history[i][1] = 2) => ErasesTurn(Min(Spoken))]_vars
  BY ForgetErases
<1> QED
  BY <1>1, <1>2, ListInvariant, PTL DEF Spec, CommandsEraseTurns, UndoErasesLast, ForgetsOldest
=============================================================================
