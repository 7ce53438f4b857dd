CONSTANTS
    Isolate = {i1, i2}
    Loader = {l1, l2, l3}
    MaxWrites = 2
    None = None
SPECIFICATION MemoSpec
SYMMETRY Symmetry
INVARIANTS
    NoStaleDraft
CHECK_DEADLOCK FALSE
