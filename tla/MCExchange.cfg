SPECIFICATION Spec
CONSTANTS
    Names = {"ann", "bob"}
    Typed <- MCTyped
    Texts <- MCTexts
    Tasks = {t1, t2}
    MaxSeals = 2
    None = None
    NoText = NoText
SYMMETRY TaskSymmetry
CONSTRAINT TwoMessages
INVARIANTS TypeOK Authentic Delivered AccountsUsable RefusedOnlyTooLong
CHECK_DEADLOCK FALSE
