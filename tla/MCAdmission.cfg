CONSTANTS
    Request = {r1, r2}
    Person = {h, p}
    Holder = {h}
    Platform = Platform
    Slot = {g1}
    Dates <- MCDates
    MaxTime = 3
    MaxActs = 1
    None = None
SPECIFICATION Spec
SYMMETRY Symmetry
INVARIANTS
    MembershipIsUsable
    HolderReachesPlatform
    LapseForetells
    ScopeIsOpen
CHECK_DEADLOCK FALSE
