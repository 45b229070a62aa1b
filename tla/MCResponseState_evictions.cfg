SPECIFICATION Spec
CONSTANTS
    r1 = r1
    r2 = r2
    Ids = {r1, r2}
    Sizes = {2, 3, 4}
    StubSize = 1
    TombSize = 1
    MaxEntries = 2
    ByteCap = 3
    PayloadCap = 4
    EntryMax = 2
    SnapshotMax = 3
    QueueMax = 1
    Attempts = 1
    Retries = 1
    MaxVersion = 2
    MaxWaiting = 1
    Shutdowns = FALSE
INVARIANTS TypeOK 
PROPERTIES StubsHaveFiles ImplementsCache
SYMMETRY MCSymmetry
