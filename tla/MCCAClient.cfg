CONSTANTS
  Caller = {c1, c2}
  Name = {n1}
  Affil = {x}
  None = None
  MaxEnrollments = 2
SPECIFICATION FairSpec
CHECK_DEADLOCK FALSE
INVARIANTS
  IInv
PROPERTIES
  RetrySettles
