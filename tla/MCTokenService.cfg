CONSTANTS
    Names = {n1, n2}
    Pairs = {p1, p2}
    Requests = {r1, r2}
    None = None
    AccessTTL = 1
    RefreshTTL = 2
    MaxTime = 3
    Purging = TRUE
SPECIFICATION Spec
SYMMETRY Symmetry
INVARIANTS
    TypeOK
    AcceptedWereLive
    LogoutEndsBoth
    RotationSpendsParent
    NamesGivenOnce
