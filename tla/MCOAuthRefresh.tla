----------------------------- MODULE MCOAuthRefresh -----------------------------
EXTENDS OAuthRefresh, TLC

CONSTANTS p1, p2, f1, f2, f3
MCSymmetry == Permutations(Flights) \cup Permutations(Processes)
=============================================================================
