CONSTANTS
    Writer = {w1, w2, w3}
    Reader = {}
    Forgetter = {f1}
    Page = {p1}
    Asset = {a1}
    Conditional = TRUE
    MaxKeys = 2
    None = None
SPECIFICATION Spec
SYMMETRY Symmetry
INVARIANT NoLostEdit
CHECK_DEADLOCK FALSE
