CONSTANTS
  Client = {c1, c2}
  MaxBlock = 3
  Faults = {"deadline", "dial", "send", "recv", "status", "unexpected"}
  NoError = NoError
SPECIFICATION FairSpec
CHECK_DEADLOCK FALSE
INVARIANTS
  IInv
  ErrorReadQuiescent
PROPERTIES
  ErrorIsFinal
  WaitGroupContract
  ImplementsTxCommit
  CallsEnd
  WaitSeesCommit
