CONSTANTS
    Users = {u1}
    Pairs = {p1, p2}
    Tasks = {t1, t2}
    Kinds = {"login", "logout", "list"}
    None = None
SPECIFICATION Spec
INVARIANT
    ClearedOnLogout
