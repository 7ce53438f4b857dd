SPECIFICATION Spec
CONSTANTS
    a1 = a1
    a2 = a2
    a3 = a3
    p1 = p1
    p2 = p2
    q1 = q1
    q2 = q2
    q3 = q3
    n1 = n1
    n2 = n2
    n3 = n3
    h1 = h1
    h2 = h2
    x1 = x1
    f1 = f1
    s1 = s1
    m1 = m1
    None = None
    Actor = {a1, a2, a3}
    PageId = {p1, p2}
    Path = {q1, q2, q3}
    Name = {n1, n2}
    Hex = {h1}
    Asset = {}
    Family = {}
    Slot = {}
    Module = {}
    Drafts <- PlainOnly
    MaxCommands = 3
SYMMETRY Symmetry
CHECK_DEADLOCK FALSE
INVARIANTS
    NeverWedged
