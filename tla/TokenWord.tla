----------------------------- MODULE TokenWord ------------------------------
(***************************************************************************)
(* Several token counters side by side in one machine word, as the code    *)
(* keeps them: signed bytes that are taken from one by one and replenished *)
(* together, by one addition to the whole word.                            *)
(***************************************************************************)
EXTENDS Integers

CONSTANTS
    TopBit,    \* the value of the sign bit of a counter: 128 in the code
    Lanes      \* counters in a word: 8 in the code

ASSUME TokenWordAssumption ==
    /\ TopBit \in Nat /\ TopBit >= 2
    /\ Lanes \in Nat \ {0}

Lane == 0..(Lanes - 1)
Size == 2 * TopBit
Byte == 0..(Size - 1)

\* A full bucket: 127.
Full == TopBit - 1

\* The value of a counter as a signed number.
Signed(byte) == IF byte > Full THEN byte - Size ELSE byte

-----------------------------------------------------------------------------
\* The addition of two words, lane by lane with the carry into the next lane.
\* The carry of the last lane is lost.
AddWords(a, d) ==
    LET carry[i \in 0..Lanes] ==
            IF i = 0 THEN 0 ELSE (a[i - 1] + d[i - 1] + carry[i - 1]) \div Size
    IN  [i \in Lane |-> (a[i] + d[i] + carry[i]) % Size]

\* The difference of two words, with the borrow from the next lane.
SubWords(a, d) ==
    LET borrow[i \in 0..Lanes] ==
            IF i = 0 \/ a[i - 1] - d[i - 1] >= borrow[i - 1] THEN 0 ELSE 1
    IN  [i \in Lane |-> (a[i] - d[i] - borrow[i]) % Size]

\* c = 0x7f7f7f7f7f7f7f7f ^ a
Missing(a) == [i \in Lane |-> (Full - a[i]) % Size]

\* d & b ^ b, moved to the lowest bit of each lane
TopBitClear(d) == [i \in Lane |-> IF d[i] > Full THEN 0 ELSE 1]

\* (faulty variants of SwarAddend) It does not look at the word; it does not
\* halve c, which is right for counters above zero.
SwarAddendAlways(a) == [i \in Lane |-> 1]

SwarAddendUnhalved(a) == TopBitClear(SubWords([i \in Lane |-> TopBit], Missing(a)))

\* The word that a replenishment adds: ((((c >> 1 | b) - c) & b) ^ b) >> 7.  The
\* bits that the shift moves to another lane are covered by those of b.
SwarAddend(a) ==
    LET c == Missing(a)
    IN  TopBitClear(SubWords([i \in Lane |-> TopBit + c[i] \div 2], c))

\* What it is to add: one to each lane that is not full.
Addend(a) == [i \in Lane |-> IF a[i] = Full THEN 0 ELSE 1]
=============================================================================
