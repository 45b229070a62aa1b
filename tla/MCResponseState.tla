----------------------------- MODULE MCResponseState -----------------------------
EXTENDS ResponseState, TLC

CONSTANTS r1, r2

MCSymmetry == Permutations(Ids)
=============================================================================
