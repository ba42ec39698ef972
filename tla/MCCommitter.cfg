SPECIFICATION CommitterSpec
CONSTANTS
    c1 = c1  c2 = c2  c3 = c3
    metric = metric  types = types
    cosine = cosine  euclidean = euclidean  text = text
    Callers = {c1, c2, c3}
    Size <- MCSize
    Config <- MCConfig
    Handles = {1, 2}
    Settings = {metric, types}
    DefaultSettings <- MCDefaults
    FirstWriteOnly = {metric}
    NoHandle = NoHandle
    MAX_BATCH_LEN = 2
    MaxFaults = 1
INVARIANTS AckedOnceInOrder HoldersShareTheCommitter AckedSettingsHold
PROPERTIES EveryCallerAnswered DroppedCommittersEnd
CHECK_DEADLOCK FALSE
