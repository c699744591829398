CONSTANTS
    Names = {n1}
    Pairs = {p1, p2, p3}
    Requests = {r1, r2}
    None = None
    AccessTTL = 1
    RefreshTTL = 2
    MaxTime = 1
    Purging = FALSE
SPECIFICATION Spec
SYMMETRY Symmetry
INVARIANT
    RefreshedOnce
