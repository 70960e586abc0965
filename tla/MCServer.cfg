\* Files, blobs and queue together: two uploads, two writes, two keys, two vaults.
SPECIFICATION Spec
CONSTANTS
    Paths = {p1, p2}
    ClientIds = {c1, c2}
    KeyChecks = {k1, k2}
    Sizes = {1, 2}
    HardCap = 3
    MaxVersion = 3
    MaxSeq = 2
    MaxVaults = 2
    MaxBlobs = 2
SYMMETRY Symmetry
INVARIANTS
    TypeOK
    LiveBlobStored
    BytesAccounted
    VersionsDistinct
    QueueOrdered
PROPERTY ForgottenBelowHorizon
CHECK_DEADLOCK FALSE
