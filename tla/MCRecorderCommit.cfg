CONSTANTS
    Workers = {w1}
    Msgs = {m1}
    Hashes = {h1}
    Prices = {p1}
    None = None
    Events = {"slow_commit"}
SPECIFICATION Spec
INVARIANT
    ReturnedIsStored
CHECK_DEADLOCK FALSE
