CONSTANTS
    Requests = {r1, r2}
    Subjects = {s1, s2}
    Faces = {f1}
    Webhooks = {w1}
    Callbacks = {c1, c2}
    None = None
    MaxChanges = 1
SPECIFICATION Spec
INVARIANT CodesConsistent
PROPERTY RetiredStaysOut
SYMMETRY Symmetry
CHECK_DEADLOCK FALSE
