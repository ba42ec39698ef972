SPECIFICATION ReadsSpec
CONSTANTS
    n1 = n1  n2 = n2  b1 = b1  b2 = b2  b3 = b3
    x = x  y = y  title = title  old = old  new = new
    Ids = {x, y}
    Attrs = {title}
    Values = {old, new}
    Null = Null
    Batches = {b1, b2}
    RecordsIn <- MCMixedRecordsIn
    Nodes = {n1, n2}
    Committing = {n1}
    Compacting = {n1}
    Caching = {n2}
    Collecting = {n1}
    WalNames <- MCWalNames
    DataNames <- MCDataNames
    NoShards = NoShards
    EmptyShard = EmptyShard
    NoBatch = NoBatch
    NoName = NoName
    NoManifest = NoManifest
    MAX_CAS_ATTEMPTS = 2
    GraceCovers = {"commit", "compaction"}
    MaxCompactions = 1
    MaxSweeps = 1
    MaxFaults = 1
    Reading = {n2}
    MAX_UNINDEXED_SCAN_BYTES = 1
    MaxReads = 2
INVARIANTS StrongIsFresh ConsistentIsHonest AnswersArePast
CHECK_DEADLOCK FALSE
