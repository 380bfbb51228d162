CONSTANTS
  MaxBlock = 3
  Faults = {"break", "send", "refuse", "metadata"}
  None = None
  Newest = Newest
SPECIFICATION FairSpec
CHECK_DEADLOCK FALSE
INVARIANTS
  StreamInv
PROPERTIES
  Returns
