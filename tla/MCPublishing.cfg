CONSTANTS
    Publisher = {p1, p2}
    Checkout = {c1}
    Visitor = {v1}
    Doc = {home}
    Asset = {logo}
    Broken = {2}
    MaxEdits = 2
    MaxRev = 2
    None = None
SPECIFICATION Spec
SYMMETRY Symmetry
INVARIANTS
    RevisionServable
    VisitorIsServed
    OnlyUnseenIsLost
PROPERTY ImplementsRevisionLog
CHECK_DEADLOCK FALSE
