SPECIFICATION FairSpec
CONSTANTS
    n1 = n1  n2 = n2  b1 = b1  b2 = b2  b3 = b3
    x = x  y = y  title = title  old = old  new = new
    Ids = {x, y}
    Attrs = {title}
    Values = {old, new}
    Null = Null
    Batches = {b1, b2}
    RecordsIn <- MCEmptyingRecordsIn
    Nodes = {n1, n2}
    Committing = {n1, n2}
    Compacting = {n1}
    Caching = {n2}
    Collecting = {}
    WalNames <- MCWalNames
    DataNames <- MCDataNames
    NoShards = NoShards
    EmptyShard = EmptyShard
    NoBatch = NoBatch
    NoName = NoName
    NoManifest = NoManifest
    MAX_CAS_ATTEMPTS = 2
    GraceCovers = {"commit", "compaction"}
    MaxCompactions = 2
    MaxSweeps = 0
    MaxFaults = 1
INVARIANTS AckedInPlace EntriesHoldTheirBatch
PROPERTIES WrittenOnce EveryBatchAnswered ImplementsAtomic
CHECK_DEADLOCK FALSE
