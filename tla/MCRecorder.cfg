CONSTANTS
    Workers = {w1, w2}
    Msgs = {m1, m2, m3}
    Hashes = {h1, h2}
    Prices = {p1}
    None = None
    Events = {"rpc", "timeout", "revert", "crash", "db", "abort", "delete", "slow_commit"}
SPECIFICATION Spec
SYMMETRY Symmetry
INVARIANTS
    TypeOK
    LockSerialises
    AuditIsTrue
    RowMatchesAudit
    OneRowPerTransaction
    PageAgrees
CHECK_DEADLOCK FALSE
