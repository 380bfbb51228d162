------------------------------- MODULE TxMessage -------------------------------
(***************************************************************************)
(* internal/utils: the messages of a transaction, from the proposal over   *)
(* the endorsements to the signed envelope, and back from an envelope to   *)
(* what it carries.  Several clients make proposals, peers endorse them    *)
(* with the same library, and the envelopes that result are what a         *)
(* committing peer checks.                                                 *)
(*                                                                         *)
(* Signatures are injective, as hashes are.  ComputeTxID hashes the        *)
(* concatenation of nonce and creator, so these are sequences of bytes.    *)
(***************************************************************************)
EXTENDS Wire, Integers, Sequences, FiniteSets

CONSTANTS
  Byte,            \* the byte values that occur in nonces and identities
  NonceLen,        \* length of a nonce (24)
  Creator,         \* the serialized identities of the clients
  Peer,            \* the endorsing peers
  Name,            \* names of chaincodes
  Secret,          \* transient data a client may attach
  NoTransient,     \* the nil TransientMap
  Result,          \* the read-write sets a simulation may yield
  GivenTxID,       \* transaction identifiers a request may bring along
  EmptyTxID,       \* the empty string for one
  Channel,         \* the channel all of it is for
  NoSignature,     \* the nil signature
  MaxProposals, MaxResponses, MaxEnvelopes   \* bounds of the model

ASSUME NonceAssumption == NonceLen \in Nat
ASSUME CreatorAssumption == Creator \subseteq Seq(Byte) \ {<<>>}
ASSUME BoundAssumption ==
  MaxProposals \in Nat /\ MaxResponses \in Nat /\ MaxEnvelopes \in Nat

VARIABLES
  proposals,   \* what CreateChaincodeProposal... returned: proposal, txID
  responses,   \* the answers of peers: the proposal asked about, the answer
  envelopes    \* the envelopes assembled: the proposal (or none), the
               \* channel the caller named, the envelope

messages == <<proposals, responses, envelopes>>

NoProposal == Absent       \* of an envelope that is not a transaction
NoEndorsement == Absent    \* of a response that is a failure

-----------------------------------------------------------------------------
(* Signatures and identifiers. *)

Sign(signer, b) == [signer |-> signer, over |-> b]

(* Mutant: a nonce that may be shorter. *)
getRandomNonceShort == UNION {[1..n -> Byte] : n \in 0..NonceLen}

getRandomNonce == [1..NonceLen -> Byte]

ComputeTxID(nonce, creator) == Sha256(nonce \o creator)

CheckTxID(txid, nonce, creator) == txid = ComputeTxID(nonce, creator)

-----------------------------------------------------------------------------
(* Proposals. *)

CreateChaincodeProposalWithTxIDNonceAndTransient(txid, name, nonce, creator, transient) ==
  [header |-> Marshal(
     [channelHeader   |-> Marshal([type |-> "ENDORSER_TRANSACTION", channelId |-> Channel,
                                   txId |-> txid, extension |-> name]),
      signatureHeader |-> Marshal([nonce |-> nonce, creator |-> creator])]),
   payload |-> Marshal([input |-> Marshal([name |-> name]), transientMap |-> transient])]

(* The nonce is made first, the identifier computed from it unless one is  *)
(* given.                                                                  *)
CreateChaincodeProposalWithTxIDAndTransient(creator, name, nonce, given, transient) ==
  LET txid == IF given = EmptyTxID THEN ComputeTxID(nonce, creator) ELSE given
  IN  [prop |-> CreateChaincodeProposalWithTxIDNonceAndTransient(
                  txid, name, nonce, creator, transient),
       txID |-> txid, given |-> given]

Propose(creator, name, given, transient) ==
  /\ Cardinality(proposals) < MaxProposals
  /\ \E nonce \in getRandomNonce :
       proposals' = proposals \cup
         {CreateChaincodeProposalWithTxIDAndTransient(creator, name, nonce, given, transient)}
  /\ UNCHANGED <<responses, envelopes>>

InvokedChaincodeName(propBytes) ==
  Unmarshal(Unmarshal(Unmarshal(propBytes).payload).input).name

-----------------------------------------------------------------------------
(* Endorsement. *)

(* Mutant: the payload is passed on as it is. *)
GetBytesProposalPayloadForTxWhole(payload) == Marshal(payload)

GetBytesProposalPayloadForTx(payload) ==
  Marshal([input |-> payload.input, transientMap |-> NoTransient])

(* The hash an endorser computes, from the proposal with its transient     *)
(* data, and the one a committer computes, from what the envelope carries. *)
(* Mutant: the endorser does not strip the transient data. *)
GetProposalHash1Whole(header, payl) ==
  Sha256(<<header.channelHeader, header.signatureHeader, payl>>)

GetProposalHash1(header, payl) ==
  Sha256(<<header.channelHeader, header.signatureHeader,
           GetBytesProposalPayloadForTx(Unmarshal(payl))>>)

GetProposalHash2(header, payl) ==
  Sha256(<<header.channelHeader, header.signatureHeader, payl>>)

GetBytesProposalResponsePayload(hash, status, results, name) ==
  Marshal([proposalHash |-> hash,
           extension |-> Marshal([response |-> status, results |-> results,
                                  chaincodeId |-> name])])

CreateProposalResponse(prop, status, results, name, peer) ==
  LET prp == GetBytesProposalResponsePayload(
               GetProposalHash1(Unmarshal(prop.header), prop.payload), status, results, name)
  IN  [payload |-> prp, status |-> 200,
       endorsement |-> [endorser |-> peer, signature |-> Sign(peer, <<prp, peer>>)]]

CreateProposalResponseFailure(prop, status, results, name) ==
  [payload |-> GetBytesProposalResponsePayload(
                 GetProposalHash1(Unmarshal(prop.header), prop.payload), status, results, name),
   status |-> status, endorsement |-> NoEndorsement]

(* A peer simulates the chaincode: its status and results are its own. *)
Answer(prop, peer, status, results) ==
  LET name == InvokedChaincodeName(Marshal(prop))
  IN  [prop |-> prop, peer |-> peer,
       resp |-> IF status < 400
                THEN CreateProposalResponse(prop, status, results, name, peer)
                ELSE CreateProposalResponseFailure(prop, status, results, name)]

EndorseProposal(peer, p, status, results) ==
  /\ p \in proposals /\ Cardinality(responses) < MaxResponses
  /\ \A r \in responses : r.prop # p.prop \/ r.peer # peer
  /\ responses' = responses \cup {Answer(p.prop, peer, status, results)}
  /\ UNCHANGED <<proposals, envelopes>>

-----------------------------------------------------------------------------
(* Envelopes. *)

Successful(resp) == resp.status \in 200..399

(* Mutant: the responses are not compared with the first. *)
MatchNone(resps) == \A n \in DOMAIN resps : Successful(resps[n])

(* All actions are bitwise equal and successful. *)
Match(resps) ==
  \A n \in DOMAIN resps : Successful(resps[n]) /\ resps[n].payload = resps[1].payload

SignerIsCreator(signer, hdr) == signer = Unmarshal(hdr.signatureHeader).creator

TransactionOf(prop, hdr, resps) ==
  [actions |-> <<[header |-> hdr.signatureHeader,
     payload |-> Marshal(
       [chaincodeProposalPayload |-> GetBytesProposalPayloadForTx(Unmarshal(prop.payload)),
        action |-> [proposalResponsePayload |-> resps[1].payload,
                    endorsements |-> [n \in DOMAIN resps |-> resps[n].endorsement]]])]>>]

(* The responses are those of the peers asked about this proposal, in any  *)
(* order.                                                                  *)
Responses(p, peers) ==
  [n \in DOMAIN peers |->
     (CHOOSE r \in responses : r.prop = p.prop /\ r.peer = peers[n]).resp]

Assemble(prop, signer, resps) ==
  LET hdr == Unmarshal(prop.header)
      payl == Marshal([header |-> hdr, data |-> Marshal(TransactionOf(prop, hdr, resps))])
  IN  [payload |-> payl, signature |-> Sign(signer, payl)]

CreateSignedTx(p, signer, peers) ==
  /\ p \in proposals /\ Cardinality(envelopes) < MaxEnvelopes
  /\ peers # <<>>
  /\ \A n \in DOMAIN peers : \E r \in responses : r.prop = p.prop /\ r.peer = peers[n]
  /\ SignerIsCreator(signer, Unmarshal(p.prop.header))
  /\ Match(Responses(p, peers))
  /\ envelopes' = envelopes \cup
       {[of |-> p, to |-> Channel, env |-> Assemble(p.prop, signer, Responses(p, peers))]}
  /\ UNCHANGED <<proposals, responses>>

(* Envelopes of configuration updates and seeks have no transaction id; a  *)
(* nil signer leaves the signature header empty.                           *)
NilSigner == <<>>

CreateSignedEnvelopeWithTLSBinding(txType, channelId, signer, dataMsg, nonce) ==
  LET sh == IF signer = NilSigner THEN [nonce |-> <<>>, creator |-> <<>>]
            ELSE [nonce |-> nonce, creator |-> signer]
      payl == Marshal(
        [header |-> [channelHeader |-> Marshal([type |-> txType, channelId |-> channelId,
                                                txId |-> EmptyTxID, extension |-> ""]),
                     signatureHeader |-> Marshal(sh)],
         data |-> Marshal(dataMsg)])
  IN  [payload |-> payl,
       signature |-> IF signer = NilSigner THEN NoSignature ELSE Sign(signer, payl)]

Sent(env, channelID) ==
  /\ Cardinality(envelopes) < MaxEnvelopes
  /\ envelopes' = envelopes \cup {[of |-> NoProposal, to |-> channelID, env |-> env]}
  /\ UNCHANGED <<proposals, responses>>

Seek(signer) ==
  \E nonce \in getRandomNonce :
    Sent(CreateSignedEnvelopeWithTLSBinding("DELIVER_SEEK_INFO", Channel, signer,
                                            [start |-> "newest"], nonce), Channel)

-----------------------------------------------------------------------------
(* Reading an envelope. *)

ChannelHeaderOf(env) == Unmarshal(Unmarshal(env.payload).header.channelHeader)
SignatureHeaderOf(env) == Unmarshal(Unmarshal(env.payload).header.signatureHeader)

GetOrComputeTxIDFromEnvelope(env) ==
  LET sh == SignatureHeaderOf(env)
  IN  IF ChannelHeaderOf(env).txId # EmptyTxID THEN ChannelHeaderOf(env).txId
      ELSE ComputeTxID(sh.nonce, sh.creator)

ActionPayloadOf(env) ==
  Unmarshal(Unmarshal(Unmarshal(env.payload).data).actions[1].payload)

(* GetPayloads of the first action. *)
GetActionFromEnvelope(env) ==
  Unmarshal(Unmarshal(ActionPayloadOf(env).action.proposalResponsePayload).extension)

-----------------------------------------------------------------------------
InitMessages == proposals = {} /\ responses = {} /\ envelopes = {}

NextMessages ==
  \/ \E c \in Creator, n \in Name, g \in GivenTxID, t \in Secret \cup {NoTransient} :
       Propose(c, n, g, t)
  \/ \E peer \in Peer, p \in proposals, s \in {200, 500}, r \in Result :
       EndorseProposal(peer, p, s, r)
  \/ \E p \in proposals, c \in Creator, k \in 1..Cardinality(Peer) :
       \E peers \in [1..k -> Peer] : CreateSignedTx(p, c, peers)
  \/ \E c \in Creator \cup {NilSigner} : Seek(c)

SpecMessages == InitMessages /\ [][NextMessages]_messages

-----------------------------------------------------------------------------
(* Proposals and the answers to them are as the library makes them, and    *)
(* every transaction is assembled from a proposal that was made.           *)
Proposal ==
  {CreateChaincodeProposalWithTxIDAndTransient(c, n, nonce, g, t) :
     c \in Creator, n \in Name, nonce \in getRandomNonce, g \in GivenTxID,
     t \in Secret \cup {NoTransient}}

TypeMessages ==
  /\ proposals \subseteq Proposal
  /\ \A r \in responses :
       /\ \E p \in proposals : p.prop = r.prop
       /\ r.peer \in Peer
       /\ \E s \in {200, 500}, x \in Result : r = Answer(r.prop, r.peer, s, x)
  /\ \A e \in envelopes : e.of \in proposals \cup {NoProposal}

Transactions == {e \in envelopes : e.of # NoProposal}
SignatureIsGood(sig, signer, b) == sig = Sign(signer, b)

(* What createSignedTx assembles passes the checks of a committing peer:   *)
(* it is signed by its creator, its identifier is the hash of its nonce    *)
(* and creator unless the request brought one along, the hash each         *)
(* endorser computed from the proposal (GetProposalHash1) is the one the   *)
(* committer computes from the envelope (GetProposalHash2) although the    *)
(* transient data is gone, and every endorsement is over the payload the   *)
(* envelope carries.                                                       *)
Accepted(e) ==
  LET sh  == SignatureHeaderOf(e.env)
      cap == ActionPayloadOf(e.env)
      prp == cap.action.proposalResponsePayload
  IN  /\ SignatureIsGood(e.env.signature, sh.creator, e.env.payload)
      /\ e.of.given = EmptyTxID =>
           CheckTxID(ChannelHeaderOf(e.env).txId, sh.nonce, sh.creator)
      /\ Unmarshal(prp).proposalHash =
           GetProposalHash2(Unmarshal(e.env.payload).header, cap.chaincodeProposalPayload)
      /\ \A n \in DOMAIN cap.action.endorsements :
           /\ cap.action.endorsements[n] # NoEndorsement
           /\ LET en == cap.action.endorsements[n]
              IN  SignatureIsGood(en.signature, en.endorser, <<prp, en.endorser>>)

CommitterAccepts == \A e \in Transactions : Accepted(e)

(* Transient data goes to the endorsers in the proposal and never to the   *)
(* orderer: createSignedTx re-encodes the payload without it.              *)
NoSecretLeaves ==
  \A e \in Transactions :
    Unmarshal(ActionPayloadOf(e.env).chaincodeProposalPayload).transientMap = NoTransient

(* Every endorser whose endorsement an envelope carries answered this      *)
(* proposal with the action that is read back from the envelope            *)
(* (GetActionFromEnvelope): createSignedTx mixes no results.               *)
AnsweredAlike(e) ==
  \A n \in DOMAIN ActionPayloadOf(e.env).action.endorsements :
    \E r \in responses :
      /\ r.prop = e.of.prop
      /\ r.resp.endorsement = ActionPayloadOf(e.env).action.endorsements[n]
      /\ Unmarshal(Unmarshal(r.resp.payload).extension) = GetActionFromEnvelope(e.env)

EndorsedAction == \A e \in Transactions : AnsweredAlike(e)

(* A deliver group waits for the identifier its proposal returned: that is *)
(* the one found in the envelope, and every signed envelope without one    *)
(* yields the hash of its own nonce and creator.                           *)
Identified(e) ==
  LET sh == SignatureHeaderOf(e.env)
  IN  IF e.of # NoProposal THEN GetOrComputeTxIDFromEnvelope(e.env) = e.of.txID
      ELSE CheckTxID(GetOrComputeTxIDFromEnvelope(e.env), sh.nonce, sh.creator)

TxIDFound == \A e \in envelopes : Identified(e)

(* Two proposals have the same computed identifier only if both nonce and  *)
(* creator are the same, although ComputeTxID hashes their mere            *)
(* concatenation: no call sees the commit of another's transaction.        *)
DistinctTxIDs ==
  \A p, q \in proposals :
    LET sh(x) == Unmarshal(Unmarshal(x.prop.header).signatureHeader)
    IN  (p.given = EmptyTxID /\ q.given = EmptyTxID /\ p.txID = q.txID) => sh(p) = sh(q)

(* What every envelope carries: the action its endorsers signed, and the   *)
(* identifier its client waits for, which is no other transaction's.       *)
EnvelopeInv == TypeMessages /\ EndorsedAction /\ TxIDFound /\ DistinctTxIDs
=============================================================================
