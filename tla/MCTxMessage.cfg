SPECIFICATION SpecOneKind
CONSTANTS
  Byte = {0, 1}
  NonceLen = 1
  Creator <- MCCreator
  Orderer <- MCOrderer
  Peer = {p1, p2}
  Name = {cc}
  Secret = {secret}
  NoTransient = NoTransient
  Simulated <- MCSimulated
  Result <- MCResult
  GivenTxID = {EmptyTxID, mine}
  EmptyTxID = EmptyTxID
  Channel = ch
  NoChannel = NoChannel
  otherChannel = otherChannel
  GivenEnvelope <- MCGivenEnvelope
  NoSignature = NoSignature
  Nil = Nil
  Empty = Empty
  nsA = nsA
  collA = collA
  key1 = key1
  val1 = val1
  update1 = update1
  MaxProposals = 2
  MaxResponses = 2
  MaxEnvelopes = 2
  MaxBlocks = 2
  MaxBatch = 2
SYMMETRY Peers
CHECK_DEADLOCK FALSE
INVARIANTS
  EnvelopeInv
  CommitterAccepts
  NoSecretLeaves
  DecodersTell
  UpdateIsSane
