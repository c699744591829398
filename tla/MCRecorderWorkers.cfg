CONSTANTS
    Workers = {w1, w2}
    Msgs = {m1, m2}
    Hashes = {h1}
    Prices = {p1}
    None = None
    Events = {}
SPECIFICATION Spec
INVARIANT
    NoncesNeverCollide
CHECK_DEADLOCK FALSE
