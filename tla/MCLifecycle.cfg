CONSTANTS
    Namespaces = {a, b}
    Tasks = {t1, t2}
    Limits <- OperationLimits
    MaxBegun = 5
    MaxNames = 3
    Writes = 2
    Compactions = 1
    Branches = 2
    Destroys = 1
    Sweeps = 1
    Evictions = 1
    Faults = 1
SYMMETRY Symmetry
SPECIFICATION Spec
INVARIANTS
    ManifestsAreWhole
    DestroyedStaysGone
    SkippedIsClean
CHECK_DEADLOCK FALSE
