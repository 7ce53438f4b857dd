SPECIFICATION PaneSpec
CONSTANTS
  b1 = b1
  b2 = b2
  s1 = s1
  s2 = s2
  Business = {b1, b2}
  Slug = {s1, s2}
  Sites <- MCSites
  MaxSelects = 3
  MaxFiles = 2
  None = None
INVARIANTS ShownIsOfScope
    ConversationIsOfSite
