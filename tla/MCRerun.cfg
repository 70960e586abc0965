\* A task added on the phone and ticked there before the desk saw it; one failed job.
SPECIFICATION Spec
CONSTANTS
    MaxLines = 3
    MaxFails = 1
    Notes <- MCNotes
    Batches <- AddThenTick
    Seed <- Template
INVARIANT
    RerunIsNoop
CHECK_DEADLOCK FALSE
