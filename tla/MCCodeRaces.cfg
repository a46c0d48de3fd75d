CONSTANTS
    Clients = {k1, k2}
    Codes = {x1}
    RequestIds = {r1, r2, r3}
    NoRecord = NoRecord
    NoRequest = NoRequest
    NoCode = NoCode
    NoClient = NoClient
    CodeTTL = 3
    LockTTL = 2
    ConsumedTTL = 2
    MaxTime = 5
SPECIFICATION Spec
SYMMETRY Symmetry
INVARIANT TokensToOwner
PROPERTIES RedeemedInTime UsedOnce
CHECK_DEADLOCK FALSE
