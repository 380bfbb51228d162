CONSTANTS
  p = p
  q = q
  Admin = {a}
  Peer = {p, q}
  Lists <- MCLists
  None = None
SPECIFICATION Spec
INVARIANT ChannelJoinJoins
