CONSTANTS
  Org = {a, b, c}
  Definition <- MCDefinition
  Endorsers <- MCEndorsers
  None = None
  Timed = {TRUE, FALSE}
  Faults = {"broadcast", "timeout"}
  MaxTx = 4
  MaxCalls = 2
SPECIFICATION Spec
SYMMETRY Symmetry
CHECK_DEADLOCK FALSE
INVARIANTS
  CallerInv
  CommittedWasMeant
