------------------------------ MODULE BlockDecode ------------------------------
(***************************************************************************)
(* internal/blockutil, and the readers of blocks in internal/utils: what a *)
(* client makes of the blocks it is delivered.  The ordering service       *)
(* (external) cuts blocks of the envelopes the clients of TxMessage made:  *)
(* a configuration update is wrapped into a configuration and has a block  *)
(* of its own, transactions are batched.                                   *)
(***************************************************************************)
EXTENDS TxMessage, RwSet, Functions

CONSTANTS
  Simulated,       \* the read-write sets of simulations
  GivenEnvelope,   \* the envelopes clients are given to submit as updates
  NoChannel,       \* the empty channel identifier
  Orderer,         \* the identity that signs configurations
  MaxBlocks,       \* bound of the model: the length of the chain
  MaxBatch         \* BatchSize.MaxMessageCount of the channel

(* Endorsers write the read-write sets of simulations, or something else.  *)
ASSUME SimulatedAssumption ==
  \A t \in Simulated : \A n \in DOMAIN t : "writes" \in DOMAIN t[n].kvRwSet
ASSUME ResultAssumption ==
  /\ Nil \notin Result
  /\ \A r \in Result : IsTxRwSet(r) => \E t \in Simulated : r = TxRwSetToProtoBytes(t)

(* Where there is an update in it, there is a list of signatures.          *)
ASSUME GivenAssumption ==
  \A g \in GivenEnvelope :
    LET data == Unmarshal(g.payload).data
        signatures == Unmarshal(data).signatures
    IN  Carries(data, {"configUpdate", "signatures"}) => signatures \in Seq(Range(signatures))

VARIABLE chain

chainVars == <<proposals, responses, envelopes, chain>>

-----------------------------------------------------------------------------
(* Parts of every envelope.  An identity is opened, its bytes are not. *)

SerializedIdentity(b) == [identity |-> b]

unmarshalSignatureHeader(b) ==
  IF Carries(b, {"nonce", "creator"})
  THEN [creator |-> SerializedIdentity(Unmarshal(b).creator), nonce |-> Unmarshal(b).nonce]
  ELSE Error

unmarshalEnvelopsPayloadHeader(header) ==
  LET sh == unmarshalSignatureHeader(header.signatureHeader)
  IN  IF sh = Error \/ ~Carries(header.channelHeader, {"type", "channelId", "txId", "extension"})
      THEN Error
      ELSE [channelHeader |-> Unmarshal(header.channelHeader), signatureHeader |-> sh]

-----------------------------------------------------------------------------
(* blockutil/block: a block of transactions. *)

(* That the action does not parse is not looked at: then it is empty, and  *)
(* so is its read-write set.                                               *)
unmarshalChaincodeAction(extension) ==
  LET parsed == Carries(extension, {"response", "results", "chaincodeId"})
      cc == Unmarshal(extension)
      hasResults == parsed /\ cc.results # Nil
  IN  IF hasResults /\ ~IsTxRwSet(cc.results) THEN Error
      ELSE [response    |-> IF parsed THEN cc.response ELSE Nil,
            chaincodeID |-> IF parsed THEN cc.chaincodeId ELSE Nil,
            results     |-> IF hasResults THEN ProtoUnmarshal(cc.results) ELSE <<>>]

(* Mutant: every endorsement is read from the first. *)
unmarshalChaincodeEndorsedActionFirst(action) ==
  LET prp == Unmarshal(action.proposalResponsePayload)
      ext == unmarshalChaincodeAction(prp.extension)
  IN  IF ext = Error THEN Error
      ELSE [endorsements |->
              [n \in DOMAIN action.endorsements |->
                 [endorser  |-> SerializedIdentity(action.endorsements[1].endorser),
                  signature |-> action.endorsements[n].signature]],
            proposalHash |-> prp.proposalHash, extension |-> ext]

unmarshalChaincodeEndorsedAction(action) ==
  IF ~Carries(action.proposalResponsePayload, {"proposalHash", "extension"}) THEN Error
  ELSE LET prp == Unmarshal(action.proposalResponsePayload)
           ext == unmarshalChaincodeAction(prp.extension)
       IN  IF ext = Error THEN Error
           ELSE [endorsements |->
                   [n \in DOMAIN action.endorsements |->
                      [endorser  |-> SerializedIdentity(action.endorsements[n].endorser),
                       signature |-> action.endorsements[n].signature]],
                 proposalHash |-> prp.proposalHash, extension |-> ext]

unmarshalChaincodeProposalPayload(b) ==
  IF Carries(b, {"input", "transientMap"}) /\ Carries(Unmarshal(b).input, {"name"})
  THEN [transientMap |-> Unmarshal(b).transientMap, input |-> Unmarshal(Unmarshal(b).input)]
  ELSE Error

unmarshalTransactionAction(action) ==
  LET sh == unmarshalSignatureHeader(action.header)
      parsed == Carries(action.payload, {"chaincodeProposalPayload", "action"})
      cap == Unmarshal(action.payload)
      endorsed == unmarshalChaincodeEndorsedAction(cap.action)
      proposed == unmarshalChaincodeProposalPayload(cap.chaincodeProposalPayload)
  IN  IF sh = Error \/ ~parsed \/ endorsed = Error \/ proposed = Error THEN Error
      ELSE [header |-> sh, action |-> endorsed, chaincodeProposalPayload |-> proposed]

UnmarshalEnvelope(env) ==
  LET payload == Unmarshal(env.payload)
      header == unmarshalEnvelopsPayloadHeader(payload.header)
      parsed == Carries(payload.data, {"actions"})
      actions == [n \in DOMAIN Unmarshal(payload.data).actions |->
                    unmarshalTransactionAction(Unmarshal(payload.data).actions[n])]
  IN  IF header = Error \/ ~parsed \/ Error \in Range(actions) THEN Error
      ELSE [header |-> header, actions |-> actions, signature |-> env.signature]

(* One envelope that is not a transaction is an error of the whole block. *)
UnmarshalBlock(b) ==
  LET envs == [n \in DOMAIN b.data |-> UnmarshalEnvelope(Unmarshal(b.data[n]))]
  IN  IF Error \in Range(envs) THEN Error
      ELSE [header |-> b.header, data |-> envs]

GetTxType(env) ==
  LET type == env.header.channelHeader.type
  IN  IF type \in {"CONFIG_UPDATE", "ENDORSER_TRANSACTION", "ORDERER_TRANSACTION"}
      THEN type ELSE "UNKNOWN TRANSACTION TYPE"

-----------------------------------------------------------------------------
(* blockutil/config: a block with a configuration. *)

unmarshalConfigUpdateEnvelope(b) ==
  IF ~Carries(b, {"configUpdate", "signatures"}) THEN Error
  ELSE LET signatures == [n \in DOMAIN Unmarshal(b).signatures |->
             [signatureHeader |->
                unmarshalSignatureHeader(Unmarshal(b).signatures[n].signatureHeader),
              signature |-> Unmarshal(b).signatures[n].signature]]
       IN  IF \E n \in DOMAIN signatures : signatures[n].signatureHeader = Error THEN Error
           ELSE [configUpdate |-> Unmarshal(Unmarshal(b).configUpdate),
                 signatures |-> signatures]

unmarshalLastUpdate(update) ==
  LET payload == Unmarshal(update.payload)
      data == unmarshalConfigUpdateEnvelope(payload.data)
      header == unmarshalEnvelopsPayloadHeader(payload.header)
  IN  IF data = Error \/ header = Error THEN Error
      ELSE [data |-> data, header |-> header, signature |-> update.signature]

(* Mutant: a configuration without an update, as the first is, is refused. *)
unmarshalPayloadConfigEnvelopeStrict(b) ==
  IF ~Carries(b, {"config", "lastUpdate"}) THEN Error
  ELSE LET lastUpdate == IF Unmarshal(b).lastUpdate = Absent THEN Error
                         ELSE unmarshalLastUpdate(Unmarshal(b).lastUpdate)
       IN  IF lastUpdate = Error THEN Error
           ELSE [config |-> Unmarshal(b).config, lastUpdate |-> lastUpdate]

(* The first configuration of a channel has no update. *)
unmarshalPayloadConfigEnvelope(b) ==
  IF ~Carries(b, {"config", "lastUpdate"}) THEN Error
  ELSE LET lastUpdate == IF Unmarshal(b).lastUpdate = Absent THEN Absent
                         ELSE unmarshalLastUpdate(Unmarshal(b).lastUpdate)
       IN  IF lastUpdate = Error THEN Error
           ELSE [config |-> Unmarshal(b).config, lastUpdate |-> lastUpdate]

UnmarshalConfigPayload(b) ==
  LET data == unmarshalPayloadConfigEnvelope(Unmarshal(b).data)
      header == unmarshalEnvelopsPayloadHeader(Unmarshal(b).header)
  IN  IF data = Error \/ header = Error THEN Error ELSE [data |-> data, header |-> header]

UnmarshalConfig(b) ==
  LET payloads == [n \in DOMAIN b.data |-> UnmarshalConfigPayload(Unmarshal(b.data[n]).payload)]
  IN  IF Error \in Range(payloads) THEN Error
      ELSE [header |-> b.header,
            data |-> [n \in DOMAIN b.data |->
                        [payload |-> payloads[n], signature |-> Unmarshal(b.data[n]).signature]]]

getBlockConfig(b) ==
  IF UnmarshalConfig(b) = Error THEN Error ELSE UnmarshalConfig(b).data[1].payload.data.config

-----------------------------------------------------------------------------
(* internal/utils: single envelopes and what kind of block it is. *)

(* Counted from 1 here. *)
ExtractEnvelope(b, index) ==
  IF index \in DOMAIN b.data THEN Unmarshal(b.data[index]) ELSE Error

UnmarshalEnvelopeOfType(env, headerType, fields) ==
  LET payload == Unmarshal(env.payload)
  IN  IF payload.header = Absent THEN Error
      ELSE IF Unmarshal(payload.header.channelHeader).type # headerType THEN Error
      ELSE IF ~Carries(payload.data, fields) THEN Error
      ELSE Unmarshal(payload.data)

EnvelopeToConfigUpdate(env) ==
  UnmarshalEnvelopeOfType(env, "CONFIG_UPDATE", {"configUpdate", "signatures"})

IsConfigBlock(b) ==
  ExtractEnvelope(b, 1) # Error /\
  ChannelHeaderOf(ExtractEnvelope(b, 1)).type \in {"CONFIG", "ORDERER_TRANSACTION"}

(* A header number above the largest int64 panics. *)
GetHash(b) == Sha256(<<b.header.number, b.header.previousHash, b.header.dataHash>>)

-----------------------------------------------------------------------------
(* internal/channel: a configuration update on its way to the orderer.  It *)
(* comes as an envelope somebody else made: a file, the answer of another  *)
(* organization's SDK.                                                     *)

SignUpdateConfig(signer, update, nonce) ==
  LET header == Marshal([nonce |-> nonce, creator |-> signer])
  IN  [signatureHeader |-> header, signature |-> Sign(signer, <<header, update>>)]

(* The signatures in an update to submit were made like that. *)
ASSUME SignaturesAssumption ==
  \A g \in GivenEnvelope :
    LET data == Unmarshal(g.payload).data
        update == Unmarshal(data)
    IN  Carries(data, {"configUpdate", "signatures"}) =>
          \A n \in DOMAIN update.signatures :
            \E c \in Creator, nonce \in getRandomNonce :
              update.signatures[n] = SignUpdateConfig(c, update.configUpdate, nonce)

(* Mutant: the type is not looked at. *)
sanityCheckAndSignConfigTxAnyType(given, signer, channelID, nonces) ==
  LET payload == Unmarshal(given.payload)
      update == Unmarshal(payload.data)
  IN  IF payload.header = Absent \/ Unmarshal(payload.header.channelHeader).channelId # channelID
         \/ ~Carries(payload.data, {"configUpdate", "signatures"})
      THEN Error
      ELSE CreateSignedEnvelopeWithTLSBinding(
             Unmarshal(payload.header.channelHeader).type, channelID, signer,
             [update EXCEPT !.signatures =
                Append(@, SignUpdateConfig(signer, update.configUpdate, nonces[1]))],
             nonces[2])

(* Where a check fails without an error of its own, the error returned is  *)
(* nil, as the envelope is.                                                *)
sanityCheckAndSignConfigTx(given, signer, channelID, nonces) ==
  LET payload == Unmarshal(given.payload)
      ch == Unmarshal(payload.header.channelHeader)
      update == Unmarshal(payload.data)
  IN  IF payload.header = Absent THEN Absent
      ELSE IF ch.type # "CONFIG_UPDATE" \/ ch.channelId = NoChannel THEN Absent
      ELSE IF channelID \notin {NoChannel, ch.channelId} THEN Error
      ELSE IF ~Carries(payload.data, {"configUpdate", "signatures"}) THEN Error
      ELSE CreateSignedEnvelopeWithTLSBinding(
             "CONFIG_UPDATE", ch.channelId, signer,
             [update EXCEPT !.signatures =
                Append(@, SignUpdateConfig(signer, update.configUpdate, nonces[1]))],
             nonces[2])

(* Update and Create.  A nil envelope gets as far as the stream, which     *)
(* cannot marshal it.                                                      *)
Update(given, signer, channelID) ==
  \E nonces \in getRandomNonce \X getRandomNonce :
    LET signedEnv == sanityCheckAndSignConfigTx(given, signer, channelID, nonces)
    IN  signedEnv \notin {Absent, Error} /\ Sent(signedEnv, channelID) /\ UNCHANGED chain

-----------------------------------------------------------------------------
(* The ordering service. *)

TypeOf(env) == ChannelHeaderOf(env).type

Block(data) ==
  [header |-> [number       |-> Len(chain),
               previousHash |-> IF chain = <<>> THEN Nil ELSE GetHash(chain[Len(chain)]),
               dataHash     |-> Sha256(data)],
   data |-> data]

(* The n-th configuration, that update (or none) led to. *)
ConfigEnvelope(n, update) ==
  LET payl == Marshal(
        [header |-> [channelHeader   |-> Marshal([type |-> "CONFIG", channelId |-> Channel,
                                                  txId |-> EmptyTxID, extension |-> ""]),
                     signatureHeader |-> Marshal([nonce |-> <<>>, creator |-> Orderer])],
         data |-> Marshal([config |-> [sequence |-> n], lastUpdate |-> update])])
  IN  Marshal([payload |-> payl, signature |-> Sign(Orderer, payl)])

InChain(env) ==
  \E b \in DOMAIN chain : \E n \in DOMAIN chain[b].data : chain[b].data[n] = Marshal(env)

CutTransactions ==
  \E k \in 1..MaxBatch : \E batch \in [1..k -> Transactions] :
    /\ Len(chain) < MaxBlocks
    /\ \A m, n \in 1..k : m # n => batch[m] # batch[n]
    /\ \A n \in 1..k : ~InChain(batch[n].env)
    /\ chain' = Append(chain, Block([n \in 1..k |-> Marshal(batch[n].env)]))
    /\ UNCHANGED <<proposals, responses, envelopes>>

CutConfig ==
  \E e \in envelopes :
    /\ Len(chain) < MaxBlocks
    /\ TypeOf(e.env) = "CONFIG_UPDATE" /\ ChannelHeaderOf(e.env).channelId = Channel
    /\ chain' = Append(chain, Block(<<ConfigEnvelope(Len(chain), e.env)>>))
    /\ UNCHANGED <<proposals, responses, envelopes>>

InitBlocks ==
  /\ InitMessages
  /\ chain = <<[header |-> [number |-> 0, previousHash |-> Nil,
                            dataHash |-> Sha256(<<ConfigEnvelope(0, Absent)>>)],
                data |-> <<ConfigEnvelope(0, Absent)>>]>>

NextBlocks ==
  \/ NextMessages /\ UNCHANGED chain
  \/ \E g \in GivenEnvelope, c \in Creator, ch \in {Channel, NoChannel} : Update(g, c, ch)
  \/ CutTransactions
  \/ CutConfig

SpecBlocks == InitBlocks /\ [][NextBlocks]_chainVars

-----------------------------------------------------------------------------
Blocks == {chain[n] : n \in DOMAIN chain}

(* Parses as a read-write set. *)
HasRwSet(e) == IsTxRwSet(GetActionFromEnvelope(e.env).results)

(* UnmarshalBlock says of a transaction what its endorsers signed and its  *)
(* client sent: the identifier, the endorsers in their order with the      *)
(* signatures that verify, the proposal hash, and read-write sets that     *)
(* give the signed bytes when written again; no transient data.  A block   *)
(* of transactions fails only when such a set does not parse.              *)
BlockTells ==
  \A b \in Blocks :
    LET of(n) == CHOOSE e \in envelopes : Marshal(e.env) = b.data[n]
        told == UnmarshalBlock(b)
    IN  IF IsConfigBlock(b) THEN told = Error
        ELSE IF told = Error THEN \E n \in DOMAIN b.data : ~HasRwSet(of(n))
        ELSE
        \A n \in DOMAIN b.data :
          LET e == of(n)
              prp == ActionPayloadOf(e.env).action.proposalResponsePayload
              action == told.data[n].actions[1].action
              cpp == told.data[n].actions[1].chaincodeProposalPayload
          IN  /\ GetTxType(told.data[n]) = "ENDORSER_TRANSACTION"
              /\ told.data[n].header.channelHeader.txId = e.of.txID
              /\ action.endorsements # <<>>
              /\ \A k \in DOMAIN action.endorsements :
                   LET en == action.endorsements[k]
                   IN  /\ SignatureIsGood(en.signature, en.endorser.identity,
                                          <<prp, en.endorser.identity>>)
                       /\ \E r \in responses :
                            r.prop = e.of.prop /\ r.peer = en.endorser.identity
              /\ action.proposalHash =
                   GetProposalHash2(Unmarshal(e.env.payload).header,
                                    ActionPayloadOf(e.env).chaincodeProposalPayload)
              /\ TxRwSetToProtoBytes(action.extension.results) =
                   GetActionFromEnvelope(e.env).results
              /\ cpp.transientMap = NoTransient
              /\ cpp.input.name = action.extension.chaincodeID

(* UnmarshalConfig reads every configuration, the first one too, that      *)
(* getBlockConfig bases the next update on, and the update that led to it  *)
(* with the signatures of all who signed it: each verifies over the        *)
(* update.  It reads no block of transactions.                             *)
ConfigTells ==
  \A n \in DOMAIN chain :
    IF ~IsConfigBlock(chain[n]) THEN UnmarshalConfig(chain[n]) = Error
    ELSE
    LET told == UnmarshalConfig(chain[n]).data[1].payload
        lastUpdate == told.data.lastUpdate
    IN  /\ UnmarshalConfig(chain[n]) # Error
        /\ getBlockConfig(chain[n]) = [sequence |-> n - 1]
        /\ told.header.channelHeader.type = "CONFIG"
        /\ lastUpdate # Absent =>
             LET sent == CHOOSE e \in envelopes :
                           /\ TypeOf(e.env) = "CONFIG_UPDATE"
                           /\ e.env.signature = lastUpdate.signature
                 update == EnvelopeToConfigUpdate(sent.env)
             IN  /\ Len(lastUpdate.data.signatures) = Len(update.signatures)
                 /\ lastUpdate.data.configUpdate = Unmarshal(update.configUpdate)
                 /\ \A k \in DOMAIN update.signatures :
                      LET s == lastUpdate.data.signatures[k]
                      IN  SignatureIsGood(
                            s.signature, s.signatureHeader.creator.identity,
                            <<update.signatures[k].signatureHeader, update.configUpdate>>)

(* What a client reads of a delivered block, of either kind. *)
DecodersTell == BlockTells /\ ConfigTells

(* What Update and Create send is an update of the channel they were       *)
(* called for, if they were for one, and carries last a signature of the   *)
(* submitter, who signed the envelope: nothing is sent that                *)
(* sanityCheckAndSignConfigTx rejects, although most of its rejections are *)
(* a nil error.                                                            *)
Sane(e) ==
  LET data == Unmarshal(e.env.payload).data
      update == Unmarshal(data)
      last == update.signatures[Len(update.signatures)]
      submitter == SignatureHeaderOf(e.env).creator
  IN  /\ TypeOf(e.env) = "CONFIG_UPDATE" /\ Carries(data, {"configUpdate", "signatures"})
      /\ ChannelHeaderOf(e.env).channelId # NoChannel
      /\ e.to \in {NoChannel, ChannelHeaderOf(e.env).channelId}
      /\ SignatureIsGood(e.env.signature, submitter, e.env.payload)
      /\ Unmarshal(last.signatureHeader).creator = submitter
      /\ SignatureIsGood(last.signature, submitter,
                         <<last.signatureHeader, update.configUpdate>>)

UpdateIsSane ==
  \A e \in envelopes :
    (e.of = NoProposal /\ TypeOf(e.env) # "DELIVER_SEEK_INFO") => Sane(e)
================================================================================
