\* One note; lapses, lost keys, new pairings and turning sync off.
SPECIFICATION Spec
CONSTANTS
    Paths = {p1}
    ClientIds = {c1}
    KeyChecks = {k1, k2}
    Sizes = {1}
    HardCap = 9
    MaxVersion = 2
    MaxSeq = 1
    MaxVaults = 2
    MaxEdits = 1
    MaxFaults = 1
    MaxLapses = 1
    MaxPairings = 2
    PromptWatcher = TRUE
INVARIANTS
    OnlyUntouchedHidden
CHECK_DEADLOCK FALSE
