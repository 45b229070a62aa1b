--------------------------- MODULE MCCodexRouting ---------------------------
EXTENDS CodexRouting, TLC

CONSTANTS a1, a2, a3, main, r1, r2, r3, t1, t2

MCSoftAvoids == [i \in 0..3 |-> 1]

\* In the order of localeCompare "__main__" precedes the ids.
MCAlphabet == IF Main \in Accounts THEN main :> 1 @@ a1 :> 2 @@ a2 :> 3 @@ a3 :> 4
              ELSE a1 :> 1 @@ a2 :> 2 @@ a3 :> 3

\* The operator of an instance either orders accounts under quota, or changes
\* between the rotating strategies.
OneConcernAtATime ==
    IF strategy = "quota" THEN strategy' = "quota"
    ELSE strategy' # "quota" /\ priority' = priority
         /\ \A a \in Accounts : usage'[a] \in {usage[a], UnknownUsage}

MCRequests == Permutations(Requests)
=============================================================================
