\* Two paths, two phone writes or renames, pages of one row, one fault.
SPECIFICATION FairSpec
CONSTANTS
    Paths = {p1, p2}
    ClientIds = {c1, c2}
    KeyChecks = {k1}
    Sizes = {1}
    HardCap = 9
    MaxVersion = 4
    MaxSeq = 2
    MaxVaults = 1
    Kinds = {"text", "move"}
    Limit = 1
    MaxEdits = 0
    MaxFaults = 1
PROPERTIES
    OutboxDrains
    Converges
    PagedPullCompletes
CHECK_DEADLOCK FALSE
