--------------------------- MODULE MCPoolRotation ---------------------------
EXTENDS PoolRotation, TLC

CONSTANTS a1, a2, a3, a4

MCRank == a1 :> 1 @@ a2 :> 2 @@ a3 :> 3 @@ a4 :> 4
=============================================================================
