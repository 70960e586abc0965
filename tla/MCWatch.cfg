\* Two request ids, so that one may be a retry, a snapshot, dates in two seconds, and one
\* fault of any kind.
CONSTANTS
    Kinds = {"capture", "tick"}
    MaxWords = 1
    MaxRequests = 2
    MaxSnapshots = 1
    MaxSeconds = 1
    MaxFaults = 1
SPECIFICATION Spec
INVARIANTS
    WrittenOnce
    NothingLost
    HandedOverOnce
PROPERTIES
    ForgetsOnlyShown
    EventuallyAnswered
CHECK_DEADLOCK FALSE
