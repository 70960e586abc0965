\* Two notes, an edit, one write of the phone, two failures.
SPECIFICATION FairSpec
CONSTANTS
    Paths = {p1, p2}
    ClientIds = {c1}
    KeyChecks = {k1}
    Sizes = {1}
    HardCap = 9
    MaxVersion = 9
    MaxSeq = 1
    MaxVaults = 2
    MaxEdits = 1
    MaxFaults = 2
    MaxLapses = 0
    MaxPairings = 0
    PromptWatcher = TRUE
INVARIANTS
    SettledIsSynced
    QuietlySynced
    RecordsBehindServer
PROPERTIES
    AckCarriesEffects
    EventuallySynced
    EventuallyAcked
CHECK_DEADLOCK FALSE
