---------------------------- MODULE TokenBuckets ----------------------------
(***************************************************************************)
(* What the token buckets promise: every granule of the address space has  *)
(* a count of its own, from 0 to Limit, which its own requests take one    *)
(* from and time gives one back to.                                        *)
(***************************************************************************)
EXTENDS Integers

CONSTANTS Granule, Limit

VARIABLE tokens

Init == tokens = [g \in Granule |-> Limit]

Acquire(g) ==
    /\ tokens[g] > 0
    /\ tokens' = [tokens EXCEPT ![g] = @ - 1]

\* Time gives a token back to the granules that are not full.  It may leave out
\* some that were full when it looked.
Replenish ==
    \E some \in SUBSET {g \in Granule : tokens[g] < Limit} :
        tokens' = [g \in Granule |-> IF g \in some THEN tokens[g] + 1 ELSE tokens[g]]

Next == Replenish \/ \E g \in Granule : Acquire(g)

Spec == Init /\ [][Next]_tokens
=============================================================================
