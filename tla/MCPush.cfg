\* Two desk requests at once, the phone in and out of the foreground, one fault of any kind.
CONSTANTS
    Desks = {d1, d2}
    NoOne = NoOne
    MaxChanges = 2
    MaxTokens = 2
    Slots = 1
    MaxFaults = 1
SPECIFICATION Spec
INVARIANTS
    NoChangeLost
    PushesSpaced
PROPERTIES
    OnlyGoneForgotten
    ChangeArrives
CHECK_DEADLOCK FALSE
