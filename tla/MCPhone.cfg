\* Two paths, two writes or renames, pages of one row, two faults.
SPECIFICATION Spec
CONSTANTS
    Paths = {p1, p2}
    ClientIds = {c1, c2}
    KeyChecks = {k1}
    Sizes = {1}
    HardCap = 9
    MaxVersion = 5
    MaxSeq = 2
    MaxVaults = 1
    Kinds = {"text", "move"}
    Limit = 1
    MaxEdits = 1
    MaxFaults = 2
SYMMETRY Symmetry
INVARIANTS
    TypeOK
    MirrorUpToCursor
PROPERTIES
    OwnChangeStaysShown
    DeliversInOrder
CHECK_DEADLOCK FALSE
