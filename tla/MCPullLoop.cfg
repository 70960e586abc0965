\* A vault longer than a page whose horizon lies beyond its first page.
SPECIFICATION FairSpec
CONSTANTS
    Paths = {p1, p2}
    ClientIds = {}
    KeyChecks = {k1}
    Sizes = {1}
    HardCap = 9
    MaxVersion = 5
    MaxSeq = 2
    MaxVaults = 1
    Kinds = {"text"}
    Limit = 1
    MaxEdits = 4
    MaxFaults = 0
PROPERTY
    PullCompletes
CHECK_DEADLOCK FALSE
