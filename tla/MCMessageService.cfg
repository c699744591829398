CONSTANTS
    Users = {u1, u2, u3}
    Messages = {m1, m2}
    Requests = {r1, r2}
    None = None
SPECIFICATION Spec
SYMMETRY Symmetry
CONSTRAINT OneMessageOrForwards
INVARIANTS
    ReadsAuthorised
    ReadsComplete
    GrantsAttached
    DeletesAckedOnce
    IInv
PROPERTIES
    ImplementsContract
