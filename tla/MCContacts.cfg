CONSTANTS
    Request = {r1, r2, r3}
    Address = {a1, a2}
    Text = {x1, x2}
    None = None
SPECIFICATION Spec
SYMMETRY Symmetry
INVARIANTS
    OnePersonPerAddress
    NameSurvives
    PatchesTheLastName
PROPERTY HistoryIsKept
CHECK_DEADLOCK FALSE
