CONSTANTS
    Workers = {w1}
    Msgs = {m1, m2, m3}
    Hashes = {h1}
    Prices = {p1}
    None = None
    Events = {"rpc", "timeout", "revert", "crash", "db", "delete"}
SPECIFICATION FairSpec
PROPERTY
    ThreadsEnd
CHECK_DEADLOCK FALSE
