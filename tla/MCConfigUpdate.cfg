CONSTANTS
  a = a
  b = b
  c = c
  Org = {a, b, c}
  Founders = {a, b}
  alice = alice
  bob = bob
  bert = bert
  Signer = {alice, bob, bert}
  Msp <- MCMsp
  Admin = {alice, bob}
  Proposal = {p1, p2}
  Plans <- MCPlans
  Encoding = {"x"}
  Faults = {"fetch", "orderer"}
  MaxStray = 1
  None = None
SPECIFICATION FairSpec
CHECK_DEADLOCK FALSE
INVARIANTS
  IInv
  NoSignerLost
PROPERTIES
  ImplementsGovernance
  Progress
