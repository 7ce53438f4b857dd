SPECIFICATION Spec
CONSTANTS
    a1 = a1
    a2 = a2
    a3 = a3
    p1 = p1
    p2 = p2
    q1 = q1
    q2 = q2
    q3 = q3
    n1 = n1
    n2 = n2
    n3 = n3
    h1 = h1
    h2 = h2
    x1 = x1
    f1 = f1
    s1 = s1
    m1 = m1
    None = None
    Actor = {a1, a2}
    PageId = {p1, p2}
    Path = {q1, q2}
    Name = {n1, n2, n3}
    Hex = {h1, h2}
    Asset = {x1}
    Family = {f1}
    Slot = {s1}
    Module = {m1}
    Drafts <- Starts
    MaxCommands = 3
SYMMETRY Symmetry
CHECK_DEADLOCK FALSE
INVARIANTS
    PagesMounted
    SiteHolds
    OneOverlapIsRepaired
PROPERTIES
    NoNewDangling
    RenameKeepsColors
