SPECIFICATION Spec
CONSTANTS
  Decision = {d1, d2}
  Name = {n1}
  MaxChats = 2
  MaxVersion = 4
  None = None
INVARIANTS LedgerInv
CHECK_DEADLOCK FALSE
