----------------------------- MODULE MCSwQueue -----------------------------
EXTENDS SwQueue, TLC
CONSTANTS w1, w2, r1, r2
MCSize2 == [l \in Level |-> 2 + (l % 2)]
MCSize3 == [l \in Level |-> 3]
MCCover == Level
MCWait == {}
MCMixed == {0}
MCSymmetry == Permutations(Writers) \cup Permutations(Readers)
=============================================================================
