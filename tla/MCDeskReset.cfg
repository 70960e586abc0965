\* One note; the key is lost and the copy reset under a new one.
SPECIFICATION Spec
CONSTANTS
    Paths = {p1}
    ClientIds = {c1}
    KeyChecks = {k1, k2}
    Sizes = {1}
    HardCap = 9
    MaxVersion = 3
    MaxSeq = 1
    MaxVaults = 1
    MaxEdits = 1
    MaxFaults = 1
    MaxLapses = 0
    MaxPairings = 2
    PromptWatcher = TRUE
INVARIANT
    NewCopyIsFull
CHECK_DEADLOCK FALSE
