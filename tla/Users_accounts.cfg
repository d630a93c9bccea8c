SPECIFICATION Spec
CONSTANTS
    Names = {ann, bob, cyd}
    Admins = {ann, bob}
    Requests = {r1, r2, r3}
    None = None
SYMMETRY RequestSymmetry
INVARIANTS
    AdminRemains
    MirrorFollows
CHECK_DEADLOCK FALSE
