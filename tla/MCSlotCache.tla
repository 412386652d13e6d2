----------------------------- MODULE MCSlotCache -----------------------------
EXTENDS SlotCache, TLC

\* The tokens are interchangeable.
TokenSymmetry == Permutations(Token)
=============================================================================
