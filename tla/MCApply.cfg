\* Every note of up to three lines, and notes of two groups, against every write; two failed jobs.
SPECIFICATION Spec
CONSTANTS
    MaxLines = 3
    MaxFails = 2
    Notes <- MCNotes
    Batches <- SafeBatches
    Seed <- Template
INVARIANTS
    RerunIsNoopButTwins
PROPERTIES
    KeepsOtherLines
    MoveNeverCopies
    EffectShows
CHECK_DEADLOCK FALSE
