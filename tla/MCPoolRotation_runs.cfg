CONSTANTS
    a1 = a1
    a2 = a2
    a3 = a3
    a4 = a4
    Accounts = {a1, a2, a3}
    Rank <- MCRank
    StickyLimit = 2
    MaxRemovals = 2
SPECIFICATION Spec
INVARIANTS
    EvenShare
    RunsEnd
    NobodyStarves
