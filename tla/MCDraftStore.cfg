CONSTANTS
    Writer = {w1, w2}
    Reader = {r1}
    Forgetter = {f1}
    Page = {p1, p2}
    Asset = {a1}
    Conditional = TRUE
    MaxKeys = 1
    None = None
SPECIFICATION Spec
SYMMETRY Symmetry
INVARIANTS
    AssetsAreReadable
    NoLostEdit
PROPERTY ImplementsSerialDraft
CHECK_DEADLOCK FALSE
