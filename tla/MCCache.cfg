SPECIFICATION CacheSpec
CONSTANTS
    small = small  wide = wide  other = other  huge = huge  r1 = r1  r2 = r2
    Keys = {small, wide, other, huge}
    Length <- MixedLength
    Capacity = 3
    Readers = {r1, r2}
    NoReader = NoReader
    NoKey = NoKey
    Blank = Blank
    MaxReads = 6
    MaxBadCells = 1
INVARIANTS ServedIsWritten EntriesTracked EntriesFit
CHECK_DEADLOCK FALSE
