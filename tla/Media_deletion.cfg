SPECIFICATION Spec
CONSTANTS
    Contents = {a}
    u1 = u1
    u2 = u2
    Urls = {u1, u2}
    Listings <- MCListings
    Requests = {r1, r2}
    None = None
SYMMETRY MediaSymmetry
INVARIANT DeletionsSucceed
CHECK_DEADLOCK FALSE
