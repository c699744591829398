SPECIFICATION Spec
CONSTANTS
    Keys = {k1, k2}
    Runs = {r1, r2}
    Workers = {w1, w2}
    Jobs = {j1, j2}
    Committed <- MCCommitted
    Torn = Torn
    None = None
SYMMETRY Identical
INVARIANTS TypeOK NamedContractsExist ReportedIsRecorded OwnDigestsNotReplaced
CHECK_DEADLOCK FALSE
