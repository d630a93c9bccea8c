SPECIFICATION Spec
CONSTANTS
    Jobs = {j1}
    Workers = {w1, w2}
    Reapers = {r1, r2}
    MaxAttempts = 2
    MaxAge = 0
    NoMsg = NoMsg
SYMMETRY ClientSymmetry
INVARIANTS
    AttemptsAreMade
    JobConservation
    BoundedDuplication
