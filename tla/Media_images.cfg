SPECIFICATION Spec
CONSTANTS
    Contents = {a, b, c}
    u1 = u1
    u2 = u2
    Urls = {u1, u2}
    Listings <- MCListings
    Requests = {r1, r2, r3}
    None = None
SYMMETRY MediaSymmetry
INVARIANTS
    RowsHaveObjects
    CoverIsChosen
    SourcesAreDistinct
CHECK_DEADLOCK FALSE
