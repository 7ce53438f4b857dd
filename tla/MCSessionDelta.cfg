CONSTANTS
    Doc = {d1, d2}
    Turn = {t1, t2}
    Build = {b1}
    Begun = {"new", "uncursored", "resumed"}
    MaxTime = 2
    MaxChats = 2
    None = None
SPECIFICATION DeltaSpec
INVARIANTS
    NoDocumentSkipped
    ToldOnce
SYMMETRY Symmetry
