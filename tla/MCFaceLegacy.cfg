CONSTANTS
    Subjects = {s1, s2}
    Clients = {c1}
    Faces = {f1, f2}
    Ceremonies = {e1, e2}
    Webhooks = {w1, w2}
    NoCeremony = NoCeremony
    NoOne = NoOne
    NoFace = NoFace
    Freshness = 1
    TTL = 1
    MaxTime = 2
    MaxChanges = 1
SPECIFICATION Spec

PROPERTY CompletionExcludesLegacy
SYMMETRY Symmetry
CHECK_DEADLOCK FALSE
