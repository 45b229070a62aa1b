SPECIFICATION Spec
CONSTANTS
    r1 = r1
    r2 = r2
    Ids = {r1}
    Sizes = {2, 4}
    StubSize = 1
    TombSize = 1
    MaxEntries = 1
    ByteCap = 3
    PayloadCap = 4
    EntryMax = 2
    SnapshotMax = 3
    QueueMax = 1
    Attempts = 2
    Retries = 1
    MaxVersion = 3
    MaxWaiting = 2
    Shutdowns = TRUE
INVARIANTS AtRestMemoryIsSaved
PROPERTIES  NoFileForgotten FlushSavesOrLeavesAWriter EventuallySaved
