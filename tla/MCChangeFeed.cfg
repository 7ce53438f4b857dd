CONSTANTS
    Client = {c1, c2}
    Tool = {t1, t2}
    Poller = {r1}
    Isolate = {i1, i2}
    Window = 2
    MaxAppends = 4
    MaxTurns = 3
    None = None
SPECIFICATION Spec
SYMMETRY Symmetry
VIEW View
INVARIANTS
    WindowIsTail
    PollMissesNothing
    RemindersTellTheRest
CHECK_DEADLOCK FALSE
