CONSTANTS
    Users = {u1, u2}
    Pairs = {p1, p2, p3}
    Tasks = {t1, t2}
    Kinds = {"login", "register", "logout", "send", "forward", "list", "delete"}
    None = None
SPECIFICATION Spec
SYMMETRY Symmetry
CONSTRAINT OverlapsSmall
INVARIANTS
    TypeOK
    OneIdentity
    LogoutEndsLogin
    LogoutClears
    LogoutSurvivesReload
    SentAtMostOnce
