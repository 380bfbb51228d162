CONSTANTS
  p = p
  q = q
  Admin = {a, b}
  Peer = {p, q}
  Lists <- MCLists
  None = None
SPECIFICATION Spec
INVARIANTS
  ReportsAreTrue
PROPERTIES
  RequestsReach
