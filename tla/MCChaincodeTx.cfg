CONSTANTS
  Client = {c1}
  MaxBlock = 2
  Faults = {"deadline", "endorse", "dial", "send", "recv", "status", "sign", "orderer"}
  NoError = NoError
  Endorser = {e1, e2}
  Committer = e1
  Status = {100, 200, 201, 500}
  NilResponse = NilResponse
  Payload = {p1, p2}
  Timed = {TRUE, FALSE}
  Ops = {"Invoke", "Query", "SendTransaction", "Approve", "Commit"}
SPECIFICATION FairSpec
CHECK_DEADLOCK FALSE
INVARIANTS
  CallInv
  SentIsEndorsed
  NilErrorIsTrue
PROPERTIES
  ImplementsDeliverGroup
  CallReturns
