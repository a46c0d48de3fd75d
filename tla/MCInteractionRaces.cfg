CONSTANTS
    Handles = {h1}
    ChallengeIds = {c1, c2}
    RequestIds = {r1, r2, r3}
    NoInteraction = NoInteraction
    NoChallenge = NoChallenge
    NoHandle = NoHandle
    TTL = 2
    MaxTime = 3
SPECIFICATION Spec
SYMMETRY Symmetry
INVARIANTS OneWinnerInTime ProofsNotWasted
PROPERTY GoneStaysGone
CHECK_DEADLOCK FALSE
