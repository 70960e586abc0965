\* Two phones in turn, one admin change, lapse or cycle end, one fault.
SPECIFICATION Spec
CONSTANTS
    Allowance = 1
    MaxKeys = 3
    MaxPhones = 2
    MaxAdmin = 1
    MaxFaults = 1
INVARIANTS
    TypeOK
    KeyDiesWithPhone
    NoSharedSecret
    RowMatchesGateway
    PoolConserved
    SpendBounded
CHECK_DEADLOCK FALSE
