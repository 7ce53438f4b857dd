CONSTANTS
    Request = {r1, r2, r3}
    Key = {k1, k2}
    First = {k1}
    Ttl = 3
    Floor = 2
    Latency = 1
    MaxTime = 5
    None = None
SPECIFICATION Spec
SYMMETRY Symmetry
INVARIANTS
    RetiredKeysAreForgotten
    RotationIsPickedUp
PROPERTY FloorIsKept
CHECK_DEADLOCK FALSE
