SPECIFICATION MaterialSpec
CONSTANTS
  Op = {o1, o2}
  Uploads <- MCUploads
  MaxBegun = 3
  MaxTickets = 2
  MaxMember = 2
  MaxCapture = 2
  None = None
SYMMETRY OpSymmetry
INVARIANTS MirrorsBundle SearchFinds TextIsSearched PlacedIsThere
PROPERTIES MembersStay
