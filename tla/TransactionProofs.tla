--------------------------- MODULE TransactionProofs ---------------------------
(***************************************************************************)
(* What a chaincode transaction says, and what it does, proved for any     *)
(* clients, peers, organizations and definitions.                          *)
(*                                                                         *)
(* BlockDecode: every envelope that is assembled carries what its          *)
(* endorsers signed, passes the checks of a committing peer, and has no    *)
(* transient data; every update that is sent is one; and the blocks the    *)
(* ordering service cuts of all that are read back as what was signed.     *)
(*                                                                         *)
(* Lifecycle: a definition that takes effect is one a majority asked for,  *)
(* and nil means that it did.                                              *)
(***************************************************************************)
EXTENDS BlockDecode, Lifecycle, FiniteSetTheorems, SequenceTheorems, WellFoundedInduction,
  TLAPS

-----------------------------------------------------------------------------
(* Envelopes. *)

(* What the readers of an envelope find in a transaction.                  *)
LEMMA AssembledReads ==
  ASSUME NEW prop, NEW signer, NEW resps, NEW env, env = Assemble(prop, signer, resps)
  PROVE  /\ Unmarshal(env.payload).header = Unmarshal(prop.header)
         /\ ChannelHeaderOf(env) = Unmarshal(Unmarshal(prop.header).channelHeader)
         /\ SignatureHeaderOf(env) = Unmarshal(Unmarshal(prop.header).signatureHeader)
         /\ env.signature = Sign(signer, env.payload)
         /\ ActionPayloadOf(env).chaincodeProposalPayload =
              GetBytesProposalPayloadForTx(Unmarshal(prop.payload))
         /\ ActionPayloadOf(env).action.proposalResponsePayload = resps[1].payload
         /\ ActionPayloadOf(env).action.endorsements =
              [n \in DOMAIN resps |-> resps[n].endorsement]
<1> DEFINE hdr == Unmarshal(prop.header)
           tx == TransactionOf(prop, hdr, resps)
<1>1. env.payload = Marshal([header |-> hdr, data |-> Marshal(tx)])
  BY DEF Assemble
<1>2. env.signature = Sign(signer, env.payload)
  BY DEF Assemble
<1>3. Unmarshal(env.payload).header = hdr /\ Unmarshal(env.payload).data = Marshal(tx)
  BY <1>1 DEF Marshal, Unmarshal
<1>4. Unmarshal(Unmarshal(env.payload).data) = tx
  BY <1>3 DEF Marshal, Unmarshal
<1>5. ActionPayloadOf(env) =
        [chaincodeProposalPayload |-> GetBytesProposalPayloadForTx(Unmarshal(prop.payload)),
         action |-> [proposalResponsePayload |-> resps[1].payload,
                     endorsements |-> [n \in DOMAIN resps |-> resps[n].endorsement]]]
  BY <1>4 DEF ActionPayloadOf, TransactionOf, Marshal, Unmarshal
<1> QED
  BY <1>2, <1>3, <1>5 DEF ChannelHeaderOf, SignatureHeaderOf

(* What a proposal says of its author and its identifier.                  *)
LEMMA ProposalSays ==
  ASSUME NEW p \in Proposal
  PROVE  LET ch == Unmarshal(Unmarshal(p.prop.header).channelHeader)
             sh == Unmarshal(Unmarshal(p.prop.header).signatureHeader)
         IN  /\ sh.creator \in Creator /\ sh.nonce \in getRandomNonce
             /\ sh = [nonce |-> sh.nonce, creator |-> sh.creator]
             /\ ch.txId = p.txID
             /\ p.txID = IF p.given = EmptyTxID THEN ComputeTxID(sh.nonce, sh.creator)
                         ELSE p.given
             /\ p # NoProposal
<1>1. PICK c \in Creator, n \in Name, nonce \in getRandomNonce, g \in GivenTxID,
           t \in Secret \cup {NoTransient} :
        p = CreateChaincodeProposalWithTxIDAndTransient(c, n, nonce, g, t)
  BY DEF Proposal
<1> DEFINE txid == IF g = EmptyTxID THEN ComputeTxID(nonce, c) ELSE g
<1>2. /\ p.prop = CreateChaincodeProposalWithTxIDNonceAndTransient(txid, n, nonce, c, t)
      /\ p.txID = txid /\ p.given = g
  BY <1>1 DEF CreateChaincodeProposalWithTxIDAndTransient
<1>3. p # NoProposal
  <2>1. DOMAIN p = {"prop", "txID", "given"} /\ DOMAIN NoProposal = {"absent"}
    BY <1>1 DEF CreateChaincodeProposalWithTxIDAndTransient, NoProposal, Absent
  <2> QED
    BY <2>1
<1> HIDE DEF txid
<1>4. Unmarshal(p.prop.header) =
        [channelHeader   |-> Marshal([type |-> "ENDORSER_TRANSACTION", channelId |-> Channel,
                                      txId |-> txid, extension |-> n]),
         signatureHeader |-> Marshal([nonce |-> nonce, creator |-> c])]
  BY <1>2 DEF CreateChaincodeProposalWithTxIDNonceAndTransient, Marshal, Unmarshal
<1>5. /\ Unmarshal(Unmarshal(p.prop.header).channelHeader).txId = txid
      /\ Unmarshal(Unmarshal(p.prop.header).signatureHeader) = [nonce |-> nonce, creator |-> c]
  BY <1>4 DEF Marshal, Unmarshal
<1> QED
  BY <1>2, <1>3, <1>5 DEF txid

(* What an answer that reports success says.                               *)
LEMMA AnswerSays ==
  ASSUME TypeMessages, NEW r \in responses, Successful(r.resp)
  PROVE  /\ r.resp.endorsement = [endorser  |-> r.peer,
                                  signature |-> Sign(r.peer, <<r.resp.payload, r.peer>>)]
         /\ r.resp.endorsement # NoEndorsement
         /\ Unmarshal(r.resp.payload).proposalHash =
              GetProposalHash1(Unmarshal(r.prop.header), r.prop.payload)
<1>1. PICK s \in {200, 500}, x \in Result : r = Answer(r.prop, r.peer, s, x)
  BY DEF TypeMessages
<1>2. PICK prop, peer : prop = r.prop /\ peer = r.peer
  OBVIOUS
<1> DEFINE name == InvokedChaincodeName(Marshal(prop))
<1>3. s = 200
  BY <1>1 DEF Successful, Answer, CreateProposalResponseFailure
<1>4. r.resp = CreateProposalResponse(prop, s, x, name, peer)
  <2>1. r = Answer(prop, peer, s, x)
    BY <1>1, <1>2
  <2> QED
    BY <1>3, <2>1 DEF Answer
<1> HIDE DEF name
<1>5. /\ r.resp.payload = GetBytesProposalResponsePayload(
                            GetProposalHash1(Unmarshal(prop.header), prop.payload), s, x, name)
      /\ r.resp.endorsement = [endorser  |-> peer,
                               signature |-> Sign(peer, <<r.resp.payload, peer>>)]
  BY <1>4 DEF CreateProposalResponse
<1>6. Unmarshal(r.resp.payload).proposalHash =
        GetProposalHash1(Unmarshal(prop.header), prop.payload)
  BY <1>5 DEF GetBytesProposalResponsePayload, Marshal, Unmarshal
<1>7. r.resp.endorsement # NoEndorsement
  <2>1. DOMAIN r.resp.endorsement = {"endorser", "signature"} /\ DOMAIN NoEndorsement = {"absent"}
    BY <1>5 DEF NoEndorsement, Absent
  <2> QED
    BY <2>1
<1> QED
  BY <1>2, <1>5, <1>6, <1>7

(* The hash an endorser computed is the one a committer computes, although *)
(* the transient data is gone from what it is computed of.                 *)
LEMMA HashesAgree ==
  ASSUME NEW hdr, NEW payl
  PROVE  GetProposalHash1(hdr, payl) =
           GetProposalHash2(hdr, GetBytesProposalPayloadForTx(Unmarshal(payl)))
BY DEF GetProposalHash1, GetProposalHash2

(* Nonces are of one length: the concatenation with a creator tells both.  *)
LEMMA Splits ==
  ASSUME NEW m \in getRandomNonce, NEW n \in getRandomNonce,
         NEW c \in Creator, NEW d \in Creator, ComputeTxID(m, c) = ComputeTxID(n, d)
  PROVE  m = n /\ c = d
<1>0. m \o c = n \o d
  BY DEF ComputeTxID, Sha256
<1>1. m \in Seq(Byte) /\ n \in Seq(Byte) /\ Len(m) = NonceLen /\ Len(n) = NonceLen
  BY NonceAssumption DEF getRandomNonce
<1>2. c \in Seq(Byte) /\ d \in Seq(Byte)
  BY CreatorAssumption
<1>3. m = n
  <2>1. \A i \in 1..NonceLen : (m \o c)[i] = m[i] /\ (n \o d)[i] = n[i]
    BY <1>1, <1>2
  <2>2. \A i \in 1..NonceLen : m[i] = n[i]
    BY <1>0, <2>1
  <2>3. m = [i \in 1..NonceLen |-> m[i]] /\ n = [i \in 1..NonceLen |-> n[i]]
    BY DEF getRandomNonce
  <2> QED
    BY <2>2, <2>3
<1>4. Len(c) = Len(d)
  BY <1>0, <1>1, <1>2
<1>5. \A i \in 1..Len(c) : c[i] = (m \o c)[NonceLen + i] /\ d[i] = (n \o d)[NonceLen + i]
  BY <1>1, <1>2, <1>4, NonceAssumption
<1>6. c = d
  <2>1. \A i \in 1..Len(c) : c[i] = d[i]
    BY <1>0, <1>5
  <2>2. c = [i \in 1..Len(c) |-> c[i]] /\ d = [i \in 1..Len(d) |-> d[i]]
    BY <1>2
  <2> QED
    BY <1>4, <2>1, <2>2
<1> QED
  BY <1>3, <1>6

(* Proposals of one computed identifier are of one creator and one nonce:  *)
(* all nonces have the length of getRandomNonce.                           *)
LEMMA Distinct == proposals \subseteq Proposal => DistinctTxIDs
<1> SUFFICES ASSUME proposals \subseteq Proposal, NEW p \in proposals, NEW q \in proposals,
                    p.given = EmptyTxID, q.given = EmptyTxID, p.txID = q.txID
    PROVE  Unmarshal(Unmarshal(p.prop.header).signatureHeader) =
           Unmarshal(Unmarshal(q.prop.header).signatureHeader)
  BY DEF DistinctTxIDs
<1> DEFINE s == Unmarshal(Unmarshal(p.prop.header).signatureHeader)
           t == Unmarshal(Unmarshal(q.prop.header).signatureHeader)
<1>1. /\ s.creator \in Creator /\ s.nonce \in getRandomNonce
      /\ s = [nonce |-> s.nonce, creator |-> s.creator]
      /\ p.txID = ComputeTxID(s.nonce, s.creator)
  BY ProposalSays
<1>2. /\ t.creator \in Creator /\ t.nonce \in getRandomNonce
      /\ t = [nonce |-> t.nonce, creator |-> t.creator]
      /\ q.txID = ComputeTxID(t.nonce, t.creator)
  BY ProposalSays
<1> HIDE DEF s, t
<1>3. s.nonce = t.nonce /\ s.creator = t.creator
  <2>1. PICK m \in getRandomNonce, c \in Creator : m = s.nonce /\ c = s.creator
    BY <1>1
  <2>2. PICK n \in getRandomNonce, d \in Creator : n = t.nonce /\ d = t.creator
    BY <1>2
  <2>3. ComputeTxID(m, c) = ComputeTxID(n, d)
    BY <1>1, <1>2, <2>1, <2>2
  <2> QED
    BY <2>1, <2>2, <2>3, Splits
<1> QED
  BY <1>1, <1>2, <1>3 DEF s, t

(* The inductive invariant: the properties are, once every transaction is  *)
(* known to be assembled of a proposal and answers the library made.       *)
MessageInv == EnvelopeInv /\ CommitterAccepts /\ NoSecretLeaves /\ UpdateIsSane

(* Nothing is wrong of no envelopes.                                       *)
LEMMA InitMessageInv == InitMessages => MessageInv
BY DEF InitMessages, MessageInv, EnvelopeInv, TypeMessages, EndorsedAction, TxIDFound,
  DistinctTxIDs, CommitterAccepts, NoSecretLeaves, UpdateIsSane, Transactions

(* Proposals and answers that are made leave what is in envelopes alone.   *)
LEMMA Grown ==
  ASSUME MessageInv, TypeMessages', responses \subseteq responses', envelopes' = envelopes
  PROVE  MessageInv'
<1>1. DistinctTxIDs'
  <2>1. (proposals \subseteq Proposal => DistinctTxIDs)'
    BY Distinct, PTL
  <2> QED
    BY <2>1 DEF TypeMessages
<1>2. Transactions' = Transactions
  BY DEF Transactions
<1>3. EndorsedAction'
  <2> SUFFICES ASSUME NEW e \in Transactions  PROVE AnsweredAlike(e)'
    BY <1>2 DEF EndorsedAction
  <2>1. AnsweredAlike(e)
    BY DEF MessageInv, EnvelopeInv, EndorsedAction
  <2> QED
    BY <2>1 DEF AnsweredAlike
<1>4. TxIDFound'
  BY DEF MessageInv, EnvelopeInv, TxIDFound
<1>5. CommitterAccepts' /\ NoSecretLeaves' /\ UpdateIsSane'
  BY <1>2 DEF MessageInv, CommitterAccepts, NoSecretLeaves, UpdateIsSane
<1> QED
  BY <1>1, <1>3, <1>4, <1>5 DEF MessageInv, EnvelopeInv

(* One more envelope, that is as it should be.                             *)
LEMMA Added ==
  ASSUME MessageInv, UNCHANGED <<proposals, responses>>, NEW e,
         envelopes' = envelopes \cup {e}, e.of \in proposals \cup {NoProposal}, Identified(e),
         e.of # NoProposal =>
           /\ AnsweredAlike(e) /\ Accepted(e)
           /\ Unmarshal(ActionPayloadOf(e.env).chaincodeProposalPayload).transientMap = NoTransient,
         (e.of = NoProposal /\ TypeOf(e.env) # "DELIVER_SEEK_INFO") => Sane(e)
  PROVE  MessageInv'
<1>1. TypeMessages'
  BY DEF MessageInv, EnvelopeInv, TypeMessages
<1>2. DistinctTxIDs'
  BY DEF MessageInv, EnvelopeInv, DistinctTxIDs
<1>3. Transactions' = Transactions \cup (IF e.of # NoProposal THEN {e} ELSE {})
  BY DEF Transactions
<1>4. EndorsedAction'
  <2> SUFFICES ASSUME NEW f \in Transactions'  PROVE AnsweredAlike(f)'
    BY DEF EndorsedAction
  <2>1. AnsweredAlike(f)
    BY <1>3 DEF MessageInv, EnvelopeInv, EndorsedAction
  <2> QED
    BY <2>1 DEF AnsweredAlike
<1>5. TxIDFound'
  BY DEF MessageInv, EnvelopeInv, TxIDFound
<1>6. CommitterAccepts' /\ NoSecretLeaves'
  BY <1>3 DEF MessageInv, CommitterAccepts, NoSecretLeaves
<1>7. UpdateIsSane'
  BY DEF MessageInv, UpdateIsSane
<1> QED
  BY <1>1, <1>2, <1>4, <1>5, <1>6, <1>7 DEF MessageInv, EnvelopeInv

(* CreateChaincodeProposalWithTxIDAndTransient makes a proposal that says  *)
(* of its author what it was given.                                        *)
LEMMA ProposeStep ==
  ASSUME MessageInv, NEW c \in Creator, NEW n \in Name, NEW g \in GivenTxID,
         NEW t \in Secret \cup {NoTransient}, Propose(c, n, g, t)
  PROVE  MessageInv'
<1>1. PICK nonce \in getRandomNonce :
        proposals' = proposals \cup
          {CreateChaincodeProposalWithTxIDAndTransient(c, n, nonce, g, t)}
  BY DEF Propose
<1>2. CreateChaincodeProposalWithTxIDAndTransient(c, n, nonce, g, t) \in Proposal
  BY DEF Proposal
<1>3. TypeMessages'
  BY <1>1, <1>2 DEF MessageInv, EnvelopeInv, TypeMessages, Propose
<1> QED
  BY <1>3, Grown DEF Propose

(* An endorser answers a proposal that was made.                           *)
LEMMA EndorseProposalStep ==
  ASSUME MessageInv, NEW peer \in Peer, NEW p \in proposals, NEW s \in {200, 500},
         NEW x \in Result, EndorseProposal(peer, p, s, x)
  PROVE  MessageInv'
<1> DEFINE a == Answer(p.prop, peer, s, x)
<1>1. a.prop = p.prop /\ a.peer = peer
  BY DEF Answer
<1>2. responses' = responses \cup {a} /\ UNCHANGED <<proposals, envelopes>>
  BY DEF EndorseProposal
<1>3. a = Answer(a.prop, a.peer, s, x)
  BY <1>1
<1> HIDE DEF a
<1>4. TypeMessages'
  BY <1>1, <1>2, <1>3 DEF MessageInv, EnvelopeInv, TypeMessages
<1> QED
  BY <1>2, <1>4, Grown

(* createSignedTx assembles what the endorsers answered.                   *)
LEMMA CreateSignedTxStep ==
  ASSUME MessageInv, NEW p \in proposals, NEW c \in Creator, NEW k \in Nat,
         NEW peers \in [1..k -> Peer], CreateSignedTx(p, c, peers)
  PROVE  MessageInv'
<1> DEFINE resps == Responses(p, peers)
           env == Assemble(p.prop, c, resps)
           e == [of |-> p, to |-> Channel, env |-> env]
           hdr == Unmarshal(p.prop.header)
<1>1. /\ \A n \in DOMAIN peers : \E r \in responses : r.prop = p.prop /\ r.peer = peers[n]
      /\ SignerIsCreator(c, hdr) /\ Match(resps)
      /\ envelopes' = envelopes \cup {e} /\ UNCHANGED <<proposals, responses>>
  BY DEF CreateSignedTx
<1>2. /\ Unmarshal(env.payload).header = hdr
      /\ ChannelHeaderOf(env) = Unmarshal(hdr.channelHeader)
      /\ SignatureHeaderOf(env) = Unmarshal(hdr.signatureHeader)
      /\ env.signature = Sign(c, env.payload)
      /\ ActionPayloadOf(env).chaincodeProposalPayload =
           GetBytesProposalPayloadForTx(Unmarshal(p.prop.payload))
      /\ ActionPayloadOf(env).action.proposalResponsePayload = resps[1].payload
      /\ ActionPayloadOf(env).action.endorsements =
           [n \in DOMAIN resps |-> resps[n].endorsement]
  BY AssembledReads
<1>3. p \in Proposal
  BY DEF MessageInv, EnvelopeInv, TypeMessages
<1>4. /\ Unmarshal(hdr.signatureHeader).creator \in Creator
      /\ Unmarshal(hdr.channelHeader).txId = p.txID
      /\ p.txID = IF p.given = EmptyTxID
                  THEN ComputeTxID(Unmarshal(hdr.signatureHeader).nonce,
                                   Unmarshal(hdr.signatureHeader).creator)
                  ELSE p.given
      /\ p # NoProposal
  BY <1>3, ProposalSays
<1>5. \A n \in DOMAIN peers : \E r \in responses :
        r.prop = p.prop /\ r.peer = peers[n] /\ r.resp = resps[n]
  <2> SUFFICES ASSUME NEW n \in DOMAIN peers
      PROVE \E r \in responses : r.prop = p.prop /\ r.peer = peers[n] /\ r.resp = resps[n]
    OBVIOUS
  <2> DEFINE r == CHOOSE r \in responses : r.prop = p.prop /\ r.peer = peers[n]
  <2>1. r \in responses /\ r.prop = p.prop /\ r.peer = peers[n]
    BY <1>1
  <2>2. resps[n] = r.resp
    BY DEF Responses
  <2> QED
    BY <2>1, <2>2
<1>6. DOMAIN resps = DOMAIN peers
  BY DEF Responses
<1> HIDE DEF resps, env
<1>7. ASSUME NEW n \in DOMAIN resps
      PROVE  /\ resps[n].payload = resps[1].payload
             /\ resps[n].endorsement # NoEndorsement
             /\ resps[n].endorsement.signature =
                  Sign(resps[n].endorsement.endorser,
                       <<resps[1].payload, resps[n].endorsement.endorser>>)
             /\ Unmarshal(resps[1].payload).proposalHash =
                  GetProposalHash1(hdr, p.prop.payload)
             /\ \E r \in responses : r.prop = p.prop /\ r.resp = resps[n]
  <2>1. PICK r \in responses : r.prop = p.prop /\ r.peer = peers[n] /\ r.resp = resps[n]
    BY <1>5, <1>6
  <2>3. Successful(resps[n]) /\ resps[n].payload = resps[1].payload
    BY <1>1 DEF Match
  <2>4. Successful(r.resp)
    BY <2>1, <2>3
  <2>5. /\ r.resp.endorsement = [endorser  |-> r.peer,
                                 signature |-> Sign(r.peer, <<r.resp.payload, r.peer>>)]
        /\ r.resp.endorsement # NoEndorsement
        /\ Unmarshal(r.resp.payload).proposalHash =
             GetProposalHash1(Unmarshal(r.prop.header), r.prop.payload)
    BY <2>4, AnswerSays DEF MessageInv, EnvelopeInv
  <2>6. r.resp.endorsement.endorser = r.peer
        /\ r.resp.endorsement.signature = Sign(r.peer, <<r.resp.payload, r.peer>>)
    BY <2>5
  <2> QED
    BY <2>1, <2>3, <2>5, <2>6
<1>8. Identified(e)
  BY <1>2, <1>4 DEF Identified, GetOrComputeTxIDFromEnvelope
<1>9. 1 \in DOMAIN resps
  <2>1. DOMAIN peers = 1..k /\ peers # <<>>
    BY DEF CreateSignedTx
  <2>2. k # 0
    BY <2>1
  <2> QED
    BY <1>6, <2>1, <2>2
<1>10. Accepted(e)
  <2>1. SignatureIsGood(env.signature, SignatureHeaderOf(env).creator, env.payload)
    BY <1>1, <1>2 DEF SignatureIsGood, SignerIsCreator
  <2>2. p.given = EmptyTxID =>
          CheckTxID(ChannelHeaderOf(env).txId, SignatureHeaderOf(env).nonce,
                    SignatureHeaderOf(env).creator)
    BY <1>2, <1>4 DEF CheckTxID
  <2>3. Unmarshal(resps[1].payload).proposalHash =
          GetProposalHash2(hdr, GetBytesProposalPayloadForTx(Unmarshal(p.prop.payload)))
    BY <1>7, <1>9, HashesAgree
  <2>4. \A n \in DOMAIN resps :
          /\ resps[n].endorsement # NoEndorsement
          /\ SignatureIsGood(resps[n].endorsement.signature, resps[n].endorsement.endorser,
                             <<resps[1].payload, resps[n].endorsement.endorser>>)
    BY <1>7 DEF SignatureIsGood
  <2> QED
    BY <1>2, <2>1, <2>2, <2>3, <2>4 DEF Accepted
<1>11. AnsweredAlike(e)
  <2>1. GetActionFromEnvelope(env) = Unmarshal(Unmarshal(resps[1].payload).extension)
    BY <1>2 DEF GetActionFromEnvelope
  <2> SUFFICES ASSUME NEW n \in DOMAIN resps
      PROVE \E r \in responses :
              /\ r.prop = p.prop /\ r.resp.endorsement = resps[n].endorsement
              /\ Unmarshal(Unmarshal(r.resp.payload).extension) = GetActionFromEnvelope(env)
    BY <1>2 DEF AnsweredAlike
  <2>2. PICK r \in responses : r.prop = p.prop /\ r.resp = resps[n]
    BY <1>7
  <2>3. r.resp.payload = resps[1].payload
    BY <1>7, <2>2
  <2> QED
    BY <2>1, <2>2, <2>3
<1>12. Unmarshal(ActionPayloadOf(env).chaincodeProposalPayload).transientMap = NoTransient
  BY <1>2 DEF GetBytesProposalPayloadForTx, Marshal, Unmarshal
<1>13. e.of = p /\ e.env = env
  OBVIOUS
<1> HIDE DEF e
<1> QED
  BY <1>1, <1>4, <1>8, <1>10, <1>11, <1>12, <1>13, Added

(* What the readers find in an envelope that is not a transaction.         *)
LEMMA SignedReads ==
  ASSUME NEW type, NEW ch, NEW signer, NEW data, NEW nonce, NEW env,
         env = CreateSignedEnvelopeWithTLSBinding(type, ch, signer, data, nonce)
  PROVE  /\ Unmarshal(env.payload).data = Marshal(data)
         /\ TypeOf(env) = type /\ ChannelHeaderOf(env).channelId = ch
         /\ ChannelHeaderOf(env).txId = EmptyTxID
         /\ signer # NilSigner =>
              /\ SignatureHeaderOf(env).creator = signer
              /\ env.signature = Sign(signer, env.payload)
<1> DEFINE sh == IF signer = NilSigner THEN [nonce |-> <<>>, creator |-> <<>>]
                 ELSE [nonce |-> nonce, creator |-> signer]
           chh == [type |-> type, channelId |-> ch, txId |-> EmptyTxID, extension |-> ""]
<1>1. env.payload = Marshal([header |-> [channelHeader |-> Marshal(chh),
                                         signatureHeader |-> Marshal(sh)],
                             data |-> Marshal(data)])
  BY DEF CreateSignedEnvelopeWithTLSBinding
<1>2. signer # NilSigner => env.signature = Sign(signer, env.payload)
  BY DEF CreateSignedEnvelopeWithTLSBinding
<1>3. signer # NilSigner => sh.creator = signer
  OBVIOUS
<1> HIDE DEF sh, chh
<1>4. /\ Unmarshal(env.payload).data = Marshal(data)
      /\ ChannelHeaderOf(env) = chh /\ SignatureHeaderOf(env) = sh
  BY <1>1 DEF ChannelHeaderOf, SignatureHeaderOf, Marshal, Unmarshal
<1>5. chh.type = type /\ chh.channelId = ch /\ chh.txId = EmptyTxID
  BY DEF chh
<1> QED
  BY <1>2, <1>3, <1>4, <1>5 DEF TypeOf

(* An envelope without an identifier is found under the hash of its own    *)
(* nonce and creator.                                                      *)
LEMMA IdentifiedByHash ==
  ASSUME NEW e, e.of = NoProposal, ChannelHeaderOf(e.env).txId = EmptyTxID
  PROVE  Identified(e)
BY DEF Identified, CheckTxID, GetOrComputeTxIDFromEnvelope

(* The envelope that asks for blocks is neither a transaction nor an       *)
(* update.                                                                 *)
LEMMA SeekStep ==
  ASSUME MessageInv, NEW c, Seek(c)  PROVE MessageInv'
<1>1. PICK type, data : type = "DELIVER_SEEK_INFO" /\ data = [start |-> "newest"]
  OBVIOUS
<1>2. PICK nonce \in getRandomNonce :
        Sent(CreateSignedEnvelopeWithTLSBinding(type, Channel, c, data, nonce), Channel)
  BY <1>1 DEF Seek
<1>3. PICK env : env = CreateSignedEnvelopeWithTLSBinding(type, Channel, c, data, nonce)
  OBVIOUS
<1>4. PICK e : e = [of |-> NoProposal, to |-> Channel, env |-> env]
  OBVIOUS
<1>5. envelopes' = envelopes \cup {e} /\ UNCHANGED <<proposals, responses>>
  BY <1>2, <1>3, <1>4 DEF Sent
<1>6. e.of = NoProposal /\ e.env = env
  BY <1>4
<1>7. TypeOf(env) = type
  BY <1>3, SignedReads
<1>8. ChannelHeaderOf(env).txId = EmptyTxID
  BY <1>3, SignedReads
<1>9. Identified(e)
  BY <1>6, <1>8, IdentifiedByHash
<1> QED
  BY <1>1, <1>5, <1>6, <1>7, <1>9, Added

(* sanityCheckAndSignConfigTx adds a signature to the ones there are.      *)
LEMMA UpdateStep ==
  ASSUME MessageInv, NEW given \in GivenEnvelope, NEW c \in Creator, NEW channelID,
         Update(given, c, channelID)
  PROVE  MessageInv'
<1>1. PICK nonces \in getRandomNonce \X getRandomNonce :
        LET signedEnv == sanityCheckAndSignConfigTx(given, c, channelID, nonces)
        IN  signedEnv \notin {Absent, Error} /\ Sent(signedEnv, channelID)
  BY DEF Update
<1> DEFINE payload == Unmarshal(given.payload)
           ch == Unmarshal(payload.header.channelHeader)
           update == Unmarshal(payload.data)
           mine == SignUpdateConfig(c, update.configUpdate, nonces[1])
           signed == [update EXCEPT !.signatures = Append(@, mine)]
<1>2. PICK env : env = sanityCheckAndSignConfigTx(given, c, channelID, nonces)
  OBVIOUS
<1>3. env \notin {Absent, Error} /\ Sent(env, channelID)
  BY <1>1, <1>2
<1>4. /\ ch.channelId # NoChannel
      /\ channelID \in {NoChannel, ch.channelId}
      /\ Carries(payload.data, {"configUpdate", "signatures"})
      /\ env = CreateSignedEnvelopeWithTLSBinding(
                 "CONFIG_UPDATE", ch.channelId, c, signed, nonces[2])
  BY <1>2, <1>3 DEF sanityCheckAndSignConfigTx
<1>5. PICK e : e = [of |-> NoProposal, to |-> channelID, env |-> env]
  OBVIOUS
<1>6. envelopes' = envelopes \cup {e} /\ UNCHANGED <<proposals, responses>>
  BY <1>3, <1>5 DEF Sent
<1>7. e.of = NoProposal /\ e.env = env /\ e.to = channelID
  BY <1>5
<1>8. c # NilSigner
  BY CreatorAssumption DEF NilSigner
<1>9. PICK sigs : sigs = update.signatures
  OBVIOUS
<1>10. sigs \in Seq(Range(sigs))
  BY <1>4, <1>9, GivenAssumption
<1>11. /\ DOMAIN signed = {"configUpdate", "signatures"}
       /\ signed.configUpdate = update.configUpdate
       /\ signed.signatures = Append(sigs, mine)
  BY <1>4, <1>9 DEF Carries, Unmarshal
<1>12. signed.signatures[Len(signed.signatures)] = mine
  BY <1>10, <1>11
<1>13. /\ Unmarshal(mine.signatureHeader).creator = c
       /\ mine.signature = Sign(c, <<mine.signatureHeader, update.configUpdate>>)
  BY DEF SignUpdateConfig, Marshal, Unmarshal
<1> HIDE DEF signed, mine, ch
<1>14. PICK id, type : id = ch.channelId /\ type = "CONFIG_UPDATE"
  OBVIOUS
<1>15. PICK data, nonce : data = signed /\ nonce = nonces[2]
  OBVIOUS
<1>16. /\ Unmarshal(env.payload).data = Marshal(data)
       /\ TypeOf(env) = type /\ ChannelHeaderOf(env).channelId = id
       /\ ChannelHeaderOf(env).txId = EmptyTxID
       /\ SignatureHeaderOf(env).creator = c
       /\ env.signature = Sign(c, env.payload)
  <2>1. env = CreateSignedEnvelopeWithTLSBinding(type, id, c, data, nonce)
    BY <1>4, <1>14, <1>15
  <2>2. Unmarshal(env.payload).data = Marshal(data)
    BY <2>1, SignedReads
  <2>3. TypeOf(env) = type
    BY <2>1, SignedReads
  <2>4. ChannelHeaderOf(env).channelId = id
    BY <2>1, SignedReads
  <2>5. ChannelHeaderOf(env).txId = EmptyTxID
    BY <2>1, SignedReads
  <2>6. SignatureHeaderOf(env).creator = c
    BY <1>8, <2>1, SignedReads
  <2>7. env.signature = Sign(c, env.payload)
    BY <1>8, <2>1, SignedReads
  <2> QED
    BY <2>2, <2>3, <2>4, <2>5, <2>6, <2>7
<1>17. Identified(e)
  BY <1>7, <1>16, IdentifiedByHash
<1>18. Sane(e)
  <2>1. Unmarshal(Marshal(data)) = signed
    BY <1>15 DEF Marshal, Unmarshal
  <2>2. Carries(Marshal(data), {"configUpdate", "signatures"})
    BY <1>11, <1>15 DEF Carries, Marshal
  <2> QED
    BY <1>4, <1>7, <1>11, <1>12, <1>13, <1>14, <1>16, <2>1, <2>2
    DEF Sane, SignatureIsGood
<1> QED
  BY <1>6, <1>7, <1>17, <1>18, Added

(* One step of anybody: proposing, endorsing, assembling, seeking,         *)
(* updating; the ordering service changes no message.                      *)
LEMMA NextMessageInv == MessageInv /\ [NextBlocks]_chainVars => MessageInv'
<1> SUFFICES ASSUME MessageInv, [NextBlocks]_chainVars  PROVE MessageInv'
  OBVIOUS
<1>1. CASE UNCHANGED messages
  <2>1. TypeMessages'
    BY <1>1 DEF messages, MessageInv, EnvelopeInv, TypeMessages
  <2> QED
    BY <1>1, <2>1, Grown DEF messages
<1>2. CASE NextMessages
  <2>1. CASE \E c \in Creator, n \in Name, g \in GivenTxID, t \in Secret \cup {NoTransient} :
               Propose(c, n, g, t)
    BY <2>1, ProposeStep
  <2>2. CASE \E peer \in Peer, p \in proposals, s \in {200, 500}, r \in Result :
               EndorseProposal(peer, p, s, r)
    BY <2>2, EndorseProposalStep
  <2>3. CASE \E p \in proposals, c \in Creator, k \in 1..Cardinality(Peer) :
               \E peers \in [1..k -> Peer] : CreateSignedTx(p, c, peers)
    <3>1. PICK p \in proposals, c \in Creator, k \in 1..Cardinality(Peer) :
               \E peers \in [1..k -> Peer] : CreateSignedTx(p, c, peers)
      BY <2>3
    <3>2. PICK peers \in [1..k -> Peer] : CreateSignedTx(p, c, peers)
      BY <3>1
    <3>3. k \in Nat
      OBVIOUS
    <3> QED
      BY <3>2, <3>3, CreateSignedTxStep
  <2>4. CASE \E c \in Creator \cup {NilSigner} : Seek(c)
    BY <2>4, SeekStep
  <2> QED
    BY <1>2, <2>1, <2>2, <2>3, <2>4 DEF NextMessages
<1>3. CASE \E g \in GivenEnvelope, c \in Creator, ch \in {Channel, NoChannel} : Update(g, c, ch)
  BY <1>3, UpdateStep
<1>4. CASE CutTransactions
  BY <1>1, <1>4 DEF CutTransactions, messages
<1>5. CASE CutConfig
  BY <1>1, <1>5 DEF CutConfig, messages
<1>6. CASE UNCHANGED chainVars
  BY <1>1, <1>6 DEF chainVars, messages
<1> QED
  BY <1>2, <1>3, <1>4, <1>5, <1>6 DEF NextBlocks

(* The invariant holds of every run.                                       *)
LEMMA MessagesHold == SpecBlocks => []MessageInv
<1>1. InitBlocks => MessageInv
  BY InitMessageInv DEF InitBlocks
<1> QED
  BY <1>1, NextMessageInv, PTL DEF SpecBlocks

(* Whoever proposes, endorses and assembles, in any order and any number:  *)
(* a transaction carries the action every one of its endorsers answered    *)
(* its own proposal with, is found under the identifier its client waits   *)
(* for, and shares that identifier with no proposal of another creator or  *)
(* nonce, although ComputeTxID hashes a mere concatenation.                *)
THEOREM EnvelopesTellTruth == SpecBlocks => []EnvelopeInv
<1>1. MessageInv => EnvelopeInv
  BY DEF MessageInv
<1> QED
  BY <1>1, MessagesHold, PTL

(* Every transaction that createSignedTx assembles passes what a           *)
(* committing peer checks of it: the signatures of client and endorsers,   *)
(* the identifier, and the proposal hash, which is computed anew of a      *)
(* payload from which the transient data is gone.                          *)
THEOREM CommittersAccept == SpecBlocks => []CommitterAccepts
<1>1. MessageInv => CommitterAccepts
  BY DEF MessageInv
<1> QED
  BY <1>1, MessagesHold, PTL

(* Transient data stays between client and endorsers: no envelope that     *)
(* goes to the orderer has any.                                            *)
THEOREM SecretsStay == SpecBlocks => []NoSecretLeaves
<1>1. MessageInv => NoSecretLeaves
  BY DEF MessageInv
<1> QED
  BY <1>1, MessagesHold, PTL

(* What sanityCheckAndSignConfigTx lets pass, of any envelope that it is   *)
(* given, is an update of the channel it is called for, signed by the      *)
(* submitter as a whole and as an update; what it rejects with a nil error *)
(* is not sent.                                                            *)
THEOREM UpdatesAreSane == SpecBlocks => []UpdateIsSane
<1>1. MessageInv => UpdateIsSane
  BY DEF MessageInv
<1> QED
  BY <1>1, MessagesHold, PTL

-----------------------------------------------------------------------------
(* Blocks, and what their readers make of them. *)

(* To write the writes of a set once more changes nothing.                 *)
LEMMA MarshalKVTwice ==
  ASSUME NEW kv, "writes" \in DOMAIN kv
  PROVE  /\ MarshalKV(Unmarshal(MarshalKV(kv))) = MarshalKV(kv)
         /\ "writes" \in DOMAIN Unmarshal(MarshalKV(kv))
<1> DEFINE Kept(v) == IF v = Empty THEN Nil ELSE v
           Norm(x) == [w \in DOMAIN x |-> [x[w] EXCEPT !.value = Kept(@)]]
<1>1. \A y : MarshalKV(y) = Marshal([y EXCEPT !.writes = Norm(@)])
  BY DEF MarshalKV
<1>2. \A v : Kept(Kept(v)) = Kept(v)
  OBVIOUS
<1>3. \A y : LET z == [y EXCEPT !.value = Kept(@)]
             IN  [z EXCEPT !.value = Kept(@)] = z
  BY <1>2
<1>4. \A x : Norm(Norm(x)) = Norm(x)
  BY <1>3
<1> HIDE DEF Norm
<1>5. PICK z : z = [kv EXCEPT !.writes = Norm(@)]
  OBVIOUS
<1>6. "writes" \in DOMAIN z /\ z.writes = Norm(kv.writes)
  BY <1>5
<1>7. [z EXCEPT !.writes = Norm(@)] = z
  <2>1. Norm(z.writes) = z.writes
    BY <1>4, <1>6
  <2> QED
    BY <1>5, <2>1
<1>8. MarshalKV(kv) = Marshal(z) /\ MarshalKV(z) = Marshal(z)
  BY <1>1, <1>5, <1>7
<1> QED
  BY <1>6, <1>8 DEF Marshal, Unmarshal

(* The namespaces of a set that was read are the ones that were written.   *)
LEMMA NamespaceComesBack ==
  ASSUME NEW ns, "writes" \in DOMAIN ns.kvRwSet,
         \A c \in DOMAIN ns.collHashedRwSets : ns.collHashedRwSets[c].hashedRwSet # Absent,
         NEW m, m = nsRwSetToProtoMsg(ns),
         NEW back, back = nsRwSetFromProtoMsg(m)
  PROVE  /\ nsRwSetToProtoMsg(back) = m /\ back.kvRwSet # Absent
         /\ \A c \in DOMAIN back.collHashedRwSets :
              back.collHashedRwSets[c].hashedRwSet # Absent
<1> DEFINE D == DOMAIN ns.collHashedRwSets
           Msg(c) == collHashedRwSetToProtoMsg(ns.collHashedRwSets[c])
<1>1. /\ m.namespace = ns.nameSpace /\ m.rwset = MarshalKV(ns.kvRwSet)
      /\ m.collectionHashedRwset = [c \in D |-> Msg(c)]
      /\ m = [namespace |-> m.namespace, rwset |-> m.rwset,
              collectionHashedRwset |-> m.collectionHashedRwset]
  BY DEF nsRwSetToProtoMsg
<1>2. /\ back.nameSpace = m.namespace /\ back.kvRwSet = Unmarshal(m.rwset)
      /\ back.collHashedRwSets = [c \in D |-> collHashedRwSetFromProtoMsg(Msg(c))]
  BY <1>1 DEF nsRwSetFromProtoMsg
<1>3. ASSUME NEW c \in D
      PROVE  /\ collHashedRwSetToProtoMsg(back.collHashedRwSets[c]) = Msg(c)
             /\ back.collHashedRwSets[c].hashedRwSet # Absent
  <2>1. PICK x : x = ns.collHashedRwSets[c]
    OBVIOUS
  <2>2. back.collHashedRwSets[c] =
          collHashedRwSetFromProtoMsg(collHashedRwSetToProtoMsg(x))
    BY <1>2, <2>1
  <2>3. collHashedRwSetFromProtoMsg(collHashedRwSetToProtoMsg(x)) =
          [collectionName |-> x.collectionName, pvtRwSetHash |-> x.pvtRwSetHash,
           hashedRwSet |-> x.hashedRwSet]
    BY DEF collHashedRwSetFromProtoMsg, collHashedRwSetToProtoMsg, Marshal, Unmarshal
  <2>4. x.hashedRwSet # Absent
    BY <2>1
  <2> QED
    BY <2>1, <2>2, <2>3, <2>4 DEF collHashedRwSetToProtoMsg
<1>4. MarshalKV(back.kvRwSet) = m.rwset /\ "writes" \in DOMAIN back.kvRwSet
  <2>1. PICK kv : kv = ns.kvRwSet
    OBVIOUS
  <2>2. "writes" \in DOMAIN kv
    BY <2>1
  <2> QED
    BY <1>1, <1>2, <2>1, <2>2, MarshalKVTwice
<1>5. back.kvRwSet # Absent
  <2>1. "writes" \notin DOMAIN Absent
    BY DEF Absent
  <2> QED
    BY <1>4, <2>1
<1> HIDE DEF Msg
<1>6. DOMAIN back.collHashedRwSets = D
  BY <1>2
<1>7. [c \in D |-> collHashedRwSetToProtoMsg(back.collHashedRwSets[c])] = [c \in D |-> Msg(c)]
  BY <1>3
<1>8. nsRwSetToProtoMsg(back) =
        [namespace |-> m.namespace, rwset |-> m.rwset,
         collectionHashedRwset |-> m.collectionHashedRwset]
  BY <1>1, <1>2, <1>4, <1>6, <1>7 DEF nsRwSetToProtoMsg
<1> QED
  BY <1>1, <1>3, <1>5, <1>6, <1>8

(* A read-write set that was read gives the bytes it was read from.        *)
LEMMA SetComesBack ==
  ASSUME NEW r \in Result, IsTxRwSet(r)
  PROVE  TxRwSetToProtoBytes(ProtoUnmarshal(r)) = r
<1>1. PICK t \in Simulated : r = TxRwSetToProtoBytes(t)
  BY ResultAssumption
<1> DEFINE Nils(u) ==
      \E n \in DOMAIN u :
         \/ u[n].kvRwSet = Absent
         \/ \E c \in DOMAIN u[n].collHashedRwSets :
              u[n].collHashedRwSets[c].hashedRwSet = Absent
           Msgs(u) == [n \in DOMAIN u |-> nsRwSetToProtoMsg(u[n])]
<1>2. \A u : TxRwSetToProtoBytes(u) =
               IF Nils(u) THEN Error ELSE Marshal([dataModel |-> "KV", nsRwset |-> Msgs(u)])
  BY DEF TxRwSetToProtoBytes
<1>3. r # Error
  <2>1. DOMAIN r = {"bytes"} /\ DOMAIN Error = {"error"}
    BY DEF IsTxRwSet, Carries, Error
  <2> QED
    BY <2>1
<1>4. ~Nils(t) /\ r = Marshal([dataModel |-> "KV", nsRwset |-> Msgs(t)])
  BY <1>1, <1>2, <1>3
<1>5. PICK back : back = ProtoUnmarshal(r)
  OBVIOUS
<1>6. back = [n \in DOMAIN t |-> nsRwSetFromProtoMsg(nsRwSetToProtoMsg(t[n]))]
  <2>1. Unmarshal(r).nsRwset = Msgs(t)
    BY <1>4 DEF Marshal, Unmarshal
  <2> QED
    BY <1>5, <2>1 DEF ProtoUnmarshal, TxRwSetFromProtoBytes
<1>7. ASSUME NEW n \in DOMAIN t
      PROVE  /\ nsRwSetToProtoMsg(back[n]) = nsRwSetToProtoMsg(t[n])
             /\ back[n].kvRwSet # Absent
             /\ \A c \in DOMAIN back[n].collHashedRwSets :
                  back[n].collHashedRwSets[c].hashedRwSet # Absent
  <2>1. PICK ns : ns = t[n]
    OBVIOUS
  <2>2. PICK m : m = nsRwSetToProtoMsg(ns)
    OBVIOUS
  <2>3. PICK b : b = nsRwSetFromProtoMsg(m)
    OBVIOUS
  <2>4. "writes" \in DOMAIN ns.kvRwSet
    BY <2>1, SimulatedAssumption
  <2>5. \A c \in DOMAIN ns.collHashedRwSets : ns.collHashedRwSets[c].hashedRwSet # Absent
    BY <1>4, <2>1
  <2>6. b = back[n]
    BY <1>6, <2>1, <2>2, <2>3
  <2>7. /\ nsRwSetToProtoMsg(b) = m /\ b.kvRwSet # Absent
        /\ \A c \in DOMAIN b.collHashedRwSets : b.collHashedRwSets[c].hashedRwSet # Absent
    BY <2>2, <2>3, <2>4, <2>5, NamespaceComesBack
  <2> QED
    BY <2>1, <2>2, <2>6, <2>7
<1>8. DOMAIN back = DOMAIN t
  BY <1>6
<1>9. ~Nils(back)
  BY <1>7, <1>8
<1>10. Msgs(back) = Msgs(t)
  BY <1>7, <1>8
<1> HIDE DEF Nils, Msgs
<1>11. TxRwSetToProtoBytes(back) = Marshal([dataModel |-> "KV", nsRwset |-> Msgs(t)])
  BY <1>2, <1>9, <1>10
<1> QED
  BY <1>4, <1>5, <1>11

(* What was encoded carries its fields, and is the outcome of no failure.  *)
LEMMA Encoded ==
  ASSUME NEW m  PROVE Carries(Marshal(m), DOMAIN m) /\ Unmarshal(Marshal(m)) = m
BY DEF Carries, Marshal, Unmarshal

(* The headers of an envelope parse.                                       *)
Headed(env) ==
  LET header == Unmarshal(env.payload).header
  IN  /\ header # Absent
      /\ Carries(header.channelHeader, {"type", "channelId", "txId", "extension"})
      /\ Carries(header.signatureHeader, {"nonce", "creator"})

(* What is told of the headers of an envelope.                             *)
LEMMA ReadHeader ==
  ASSUME NEW env, Headed(env), NEW header, header = Unmarshal(env.payload).header
  PROVE  LET told == unmarshalEnvelopsPayloadHeader(header)
         IN  /\ told # Error /\ told.channelHeader = ChannelHeaderOf(env)
             /\ unmarshalSignatureHeader(header.signatureHeader) # Error
<1>1. PICK sh : sh = unmarshalSignatureHeader(header.signatureHeader)
  OBVIOUS
<1>2. DOMAIN sh = {"creator", "nonce"} /\ DOMAIN Error = {"error"}
  BY <1>1 DEF Headed, unmarshalSignatureHeader, Error
<1>3. sh # Error
  BY <1>2
<1>4. unmarshalEnvelopsPayloadHeader(header) =
        [channelHeader |-> Unmarshal(header.channelHeader), signatureHeader |-> sh]
  BY <1>1, <1>3 DEF Headed, unmarshalEnvelopsPayloadHeader
<1>5. unmarshalEnvelopsPayloadHeader(header) # Error
  <2>1. DOMAIN unmarshalEnvelopsPayloadHeader(header) = {"channelHeader", "signatureHeader"}
    BY <1>4
  <2> QED
    BY <1>2, <2>1
<1> QED
  BY <1>1, <1>3, <1>4, <1>5 DEF ChannelHeaderOf

(* What is told of the endorsed action: it is an error exactly when the    *)
(* read-write set in it does not parse.                                    *)
LEMMA ReadAction ==
  ASSUME NEW hash, NEW status, NEW results, NEW name, results # Nil,
         NEW action,
         action.proposalResponsePayload =
           GetBytesProposalResponsePayload(hash, status, results, name),
         NEW told, told = unmarshalChaincodeEndorsedAction(action)
  PROVE  /\ ~IsTxRwSet(results) => told = Error
         /\ IsTxRwSet(results) =>
              /\ told # Error
              /\ told.endorsements =
                   [n \in DOMAIN action.endorsements |->
                      [endorser  |-> SerializedIdentity(action.endorsements[n].endorser),
                       signature |-> action.endorsements[n].signature]]
              /\ told.proposalHash = hash
              /\ told.extension.results = ProtoUnmarshal(results)
              /\ told.extension.chaincodeID = name
<1>1. PICK cc : cc = [response |-> status, results |-> results, chaincodeId |-> name]
  OBVIOUS
<1>2. PICK ext : ext = Marshal(cc)
  OBVIOUS
<1>3. PICK prp : prp = [proposalHash |-> hash, extension |-> ext]
  OBVIOUS
<1>4. action.proposalResponsePayload = Marshal(prp)
  BY <1>1, <1>2, <1>3 DEF GetBytesProposalResponsePayload
<1>5. /\ Carries(ext, {"response", "results", "chaincodeId"}) /\ Unmarshal(ext) = cc
      /\ cc.results = results /\ cc.chaincodeId = name
  <2>1. DOMAIN cc = {"response", "results", "chaincodeId"}
    BY <1>1
  <2> QED
    BY <1>1, <1>2, <2>1, Encoded
<1>6. /\ Carries(Marshal(prp), {"proposalHash", "extension"}) /\ Unmarshal(Marshal(prp)) = prp
      /\ prp.proposalHash = hash /\ prp.extension = ext
  <2>1. DOMAIN prp = {"proposalHash", "extension"}
    BY <1>3
  <2> QED
    BY <1>3, <2>1, Encoded
<1>7. PICK read : read = unmarshalChaincodeAction(ext)
  OBVIOUS
<1>8. CASE ~IsTxRwSet(results)
  <2>1. read = Error
    BY <1>5, <1>7, <1>8 DEF unmarshalChaincodeAction
  <2> QED
    BY <1>4, <1>6, <1>7, <1>8, <2>1 DEF unmarshalChaincodeEndorsedAction
<1>9. CASE IsTxRwSet(results)
  <2>1. read = [response |-> cc.response, chaincodeID |-> name,
                results |-> ProtoUnmarshal(results)]
    BY <1>5, <1>7, <1>9 DEF unmarshalChaincodeAction
  <2>2. read # Error
    <3>1. DOMAIN read = {"response", "chaincodeID", "results"} /\ DOMAIN Error = {"error"}
      BY <2>1 DEF Error
    <3> QED
      BY <3>1
  <2>3. told = [endorsements |->
                  [n \in DOMAIN action.endorsements |->
                     [endorser  |-> SerializedIdentity(action.endorsements[n].endorser),
                      signature |-> action.endorsements[n].signature]],
                proposalHash |-> hash, extension |-> read]
    BY <1>4, <1>6, <1>7, <2>2 DEF unmarshalChaincodeEndorsedAction
  <2>4. told # Error
    <3>1. DOMAIN told = {"endorsements", "proposalHash", "extension"} /\ DOMAIN Error = {"error"}
      BY <2>3 DEF Error
    <3> QED
      BY <3>1
  <2> QED
    BY <1>9, <2>1, <2>3, <2>4
<1> QED
  BY <1>8, <1>9

(* What is told of the input of a proposal.                                *)
LEMMA ReadInput ==
  ASSUME NEW input, Carries(input, {"name"}), NEW transient,
         NEW b, b = Marshal([input |-> input, transientMap |-> transient]),
         NEW told, told = unmarshalChaincodeProposalPayload(b)
  PROVE  told # Error /\ told.transientMap = transient /\ told.input = Unmarshal(input)
<1>1. PICK m : m = [input |-> input, transientMap |-> transient]
  OBVIOUS
<1>2. DOMAIN m = {"input", "transientMap"} /\ m.input = input /\ m.transientMap = transient
  BY <1>1
<1>3. b = Marshal(m)
  BY <1>1
<1>4. Carries(b, {"input", "transientMap"}) /\ Unmarshal(b) = m
  BY <1>2, <1>3, Encoded
<1>5. told = [transientMap |-> transient, input |-> Unmarshal(input)]
  BY <1>2, <1>4 DEF unmarshalChaincodeProposalPayload
<1>6. DOMAIN told = {"transientMap", "input"} /\ DOMAIN Error = {"error"}
  BY <1>5 DEF Error
<1> QED
  BY <1>5, <1>6

(* What UnmarshalEnvelope tells of a transaction that was assembled.       *)
LEMMA ReadTransaction ==
  ASSUME NEW prop, NEW signer, NEW resps, NEW env, env = Assemble(prop, signer, resps),
         Headed(env), NEW hash, NEW status, NEW results, NEW name, results # Nil,
         resps[1].payload = GetBytesProposalResponsePayload(hash, status, results, name),
         Unmarshal(prop.payload).input = Marshal([name |-> name]),
         NEW told, told = UnmarshalEnvelope(env)
  PROVE  /\ ~IsTxRwSet(results) => told = Error
         /\ IsTxRwSet(results) =>
              LET action == told.actions[1].action
                  cpp == told.actions[1].chaincodeProposalPayload
              IN  /\ told # Error /\ told.header.channelHeader = ChannelHeaderOf(env)
                  /\ action.endorsements =
                       [n \in DOMAIN resps |->
                          [endorser  |-> SerializedIdentity(resps[n].endorsement.endorser),
                           signature |-> resps[n].endorsement.signature]]
                  /\ action.proposalHash = hash
                  /\ action.extension.results = ProtoUnmarshal(results)
                  /\ action.extension.chaincodeID = name
                  /\ cpp.transientMap = NoTransient /\ cpp.input.name = name
<1>1. PICK hdr : hdr = Unmarshal(prop.header)
  OBVIOUS
<1>2. PICK endorsed : endorsed = [proposalResponsePayload |-> resps[1].payload,
                                  endorsements |-> [n \in DOMAIN resps |-> resps[n].endorsement]]
  OBVIOUS
<1>3. PICK input : input = Unmarshal(prop.payload).input
  OBVIOUS
<1>4. PICK b : b = Marshal([input |-> input, transientMap |-> NoTransient])
  OBVIOUS
<1>5. PICK cap : cap = [chaincodeProposalPayload |-> b, action |-> endorsed]
  OBVIOUS
<1>6. PICK act : act = [header |-> hdr.signatureHeader, payload |-> Marshal(cap)]
  OBVIOUS
<1>7. PICK tx : tx = [actions |-> <<act>>]
  OBVIOUS
<1>8. Unmarshal(env.payload) = [header |-> hdr, data |-> Marshal(tx)]
  BY <1>1, <1>2, <1>3, <1>4, <1>5, <1>6, <1>7
  DEF Assemble, TransactionOf, GetBytesProposalPayloadForTx, Marshal, Unmarshal
<1>9. PICK payload : payload = Unmarshal(env.payload)
  OBVIOUS
<1>10. payload.header = hdr /\ payload.data = Marshal(tx)
  BY <1>8, <1>9
<1>11. Carries(Marshal(tx), {"actions"}) /\ Unmarshal(Marshal(tx)) = tx
       /\ tx.actions = <<act>>
  <2>1. DOMAIN tx = {"actions"}
    BY <1>7
  <2> QED
    BY <1>7, <2>1, Encoded
<1>12. Carries(Marshal(cap), {"chaincodeProposalPayload", "action"})
       /\ Unmarshal(Marshal(cap)) = cap /\ cap.chaincodeProposalPayload = b
       /\ cap.action = endorsed
  <2>1. DOMAIN cap = {"chaincodeProposalPayload", "action"}
    BY <1>5
  <2> QED
    BY <1>5, <2>1, Encoded
<1>13. PICK header : header = unmarshalEnvelopsPayloadHeader(hdr)
  OBVIOUS
<1>14. /\ header # Error /\ header.channelHeader = ChannelHeaderOf(env)
       /\ unmarshalSignatureHeader(hdr.signatureHeader) # Error
  BY <1>9, <1>10, <1>13, ReadHeader
<1>15. PICK proposed : proposed = unmarshalChaincodeProposalPayload(b)
  OBVIOUS
<1>16. proposed # Error /\ proposed.transientMap = NoTransient /\ proposed.input.name = name
  <2>1. PICK n : n = [name |-> name]
    OBVIOUS
  <2>2. input = Marshal(n) /\ DOMAIN n = {"name"} /\ n.name = name
    BY <1>3, <2>1
  <2>3. Carries(input, {"name"}) /\ Unmarshal(input) = n
    BY <2>2, Encoded
  <2> QED
    BY <1>4, <1>15, <2>2, <2>3, ReadInput
<1>17. PICK read : read = unmarshalChaincodeEndorsedAction(endorsed)
  OBVIOUS
<1>18. /\ endorsed.proposalResponsePayload =
            GetBytesProposalResponsePayload(hash, status, results, name)
       /\ endorsed.endorsements = [n \in DOMAIN resps |-> resps[n].endorsement]
  BY <1>2
<1>19. /\ ~IsTxRwSet(results) => read = Error
       /\ IsTxRwSet(results) =>
            /\ read # Error
            /\ read.endorsements =
                 [n \in DOMAIN endorsed.endorsements |->
                    [endorser  |-> SerializedIdentity(endorsed.endorsements[n].endorser),
                     signature |-> endorsed.endorsements[n].signature]]
            /\ read.proposalHash = hash
            /\ read.extension.results = ProtoUnmarshal(results)
            /\ read.extension.chaincodeID = name
  BY <1>17, <1>18, ReadAction
<1>20. read.endorsements =
         [n \in DOMAIN endorsed.endorsements |->
            [endorser  |-> SerializedIdentity(endorsed.endorsements[n].endorser),
             signature |-> endorsed.endorsements[n].signature]]
       => read.endorsements =
            [n \in DOMAIN resps |->
               [endorser  |-> SerializedIdentity(resps[n].endorsement.endorser),
                signature |-> resps[n].endorsement.signature]]
  BY <1>18
<1>21. PICK one : one = unmarshalTransactionAction(act)
  OBVIOUS
<1>22. act.header = hdr.signatureHeader /\ act.payload = Marshal(cap)
  BY <1>6
<1>23. /\ read = Error => one = Error
       /\ read # Error =>
            one = [header |-> unmarshalSignatureHeader(hdr.signatureHeader), action |-> read,
                   chaincodeProposalPayload |-> proposed]
  BY <1>12, <1>14, <1>15, <1>16, <1>17, <1>21, <1>22 DEF unmarshalTransactionAction
<1>24. read # Error => one # Error
  <2> SUFFICES ASSUME read # Error  PROVE one # Error
    OBVIOUS
  <2>1. DOMAIN one = {"header", "action", "chaincodeProposalPayload"} /\ DOMAIN Error = {"error"}
    BY <1>23 DEF Error
  <2> QED
    BY <2>1
<1>25. PICK actions : actions = [n \in DOMAIN <<act>> |-> unmarshalTransactionAction(<<act>>[n])]
  OBVIOUS
<1>26. Range(actions) = {one} /\ actions[1] = one
  BY <1>21, <1>25 DEF Range
<1>27. told = IF one = Error THEN Error
              ELSE [header |-> header, actions |-> actions, signature |-> env.signature]
  BY <1>9, <1>10, <1>11, <1>13, <1>14, <1>25, <1>26 DEF UnmarshalEnvelope
<1>28. CASE ~IsTxRwSet(results)
  BY <1>19, <1>23, <1>27, <1>28
<1>29. CASE IsTxRwSet(results)
  <2>1. read # Error /\ one # Error
    BY <1>19, <1>24, <1>29
  <2>2. told = [header |-> header, actions |-> actions, signature |-> env.signature]
    BY <1>27, <2>1
  <2>3. told # Error
    <3>1. DOMAIN told = {"header", "actions", "signature"} /\ DOMAIN Error = {"error"}
      BY <2>2 DEF Error
    <3> QED
      BY <3>1
  <2>4. told.actions[1] = one /\ told.header = header
    BY <1>26, <2>2
  <2>5. one.action = read /\ one.chaincodeProposalPayload = proposed
    BY <1>23, <2>1
  <2> QED
    BY <1>14, <1>16, <1>19, <1>20, <1>29, <2>3, <2>4, <2>5
<1> QED
  BY <1>28, <1>29

(* A transaction is assembled of answers to its own proposal.              *)
Assembled(e) ==
  \E signer \in Creator, k \in Nat \ {0} : \E answers \in [1..k -> responses] :
    /\ \A n \in 1..k : answers[n].prop = e.of.prop /\ Successful(answers[n].resp)
    /\ e.env = Assemble(e.of.prop, signer, [n \in 1..k |-> answers[n].resp])

(* All who signed an update signed it with SignUpdateConfig.               *)
Cosigned(env) ==
  LET update == Unmarshal(Unmarshal(env.payload).data)
  IN  /\ update.signatures \in Seq(Range(update.signatures))
      /\ \A n \in DOMAIN update.signatures :
           \E c \in Creator, nonce \in getRandomNonce :
             update.signatures[n] = SignUpdateConfig(c, update.configUpdate, nonce)

(* How the envelopes there are were made.                                  *)
MadeInv ==
  /\ \A e \in envelopes : Headed(e.env)
  /\ \A e \in Transactions : Assembled(e)
  /\ \A e \in envelopes :
       (e.of = NoProposal /\ TypeOf(e.env) # "DELIVER_SEEK_INFO") => Cosigned(e.env)

(* New proposals and answers leave envelopes as they were made.            *)
LEMMA MadeGrown ==
  ASSUME MadeInv, responses \subseteq responses', envelopes' = envelopes
  PROVE  MadeInv'
<1>1. Transactions' = Transactions
  BY DEF Transactions
<1>2. ASSUME NEW e \in Transactions  PROVE Assembled(e)'
  <2>1. Assembled(e)
    BY DEF MadeInv
  <2>2. PICK signer \in Creator, k \in Nat \ {0} : \E answers \in [1..k -> responses] :
          /\ \A n \in 1..k : answers[n].prop = e.of.prop /\ Successful(answers[n].resp)
          /\ e.env = Assemble(e.of.prop, signer, [n \in 1..k |-> answers[n].resp])
    BY <2>1 DEF Assembled
  <2>3. [1..k -> responses] \subseteq [1..k -> responses']
    OBVIOUS
  <2> QED
    BY <2>2, <2>3 DEF Assembled
<1> QED
  BY <1>1, <1>2 DEF MadeInv

(* One more envelope, made as envelopes are.                               *)
LEMMA MadeAdded ==
  ASSUME MadeInv, UNCHANGED responses, NEW e, envelopes' = envelopes \cup {e},
         Headed(e.env), e.of # NoProposal => Assembled(e),
         (e.of = NoProposal /\ TypeOf(e.env) # "DELIVER_SEEK_INFO") => Cosigned(e.env)
  PROVE  MadeInv'
<1>1. Transactions' \subseteq Transactions \cup {e}
  BY DEF Transactions
<1>2. ASSUME NEW f \in Transactions'  PROVE Assembled(f)'
  <2>1. Assembled(f)
    BY <1>1 DEF MadeInv, Transactions
  <2> QED
    BY <2>1 DEF Assembled
<1> QED
  BY <1>2 DEF MadeInv

(* The headers of what the library signs parse.                            *)
LEMMA ProposalHeaded ==
  ASSUME NEW p \in Proposal, NEW signer, NEW resps,
         NEW env, env = Assemble(p.prop, signer, resps)
  PROVE  Headed(env)
<1>1. Unmarshal(env.payload).header = Unmarshal(p.prop.header)
  <2>1. PICK prop : prop = p.prop
    OBVIOUS
  <2>2. env = Assemble(prop, signer, resps)
    BY <2>1
  <2>3. Unmarshal(env.payload).header = Unmarshal(prop.header)
    BY <2>2 DEF Assemble, Marshal, Unmarshal
  <2> QED
    BY <2>1, <2>3
<1>2. PICK c \in Creator, n \in Name, nonce \in getRandomNonce, g \in GivenTxID,
           t \in Secret \cup {NoTransient} :
        p = CreateChaincodeProposalWithTxIDAndTransient(c, n, nonce, g, t)
  BY DEF Proposal
<1>3. PICK txid : p.prop = CreateChaincodeProposalWithTxIDNonceAndTransient(txid, n, nonce, c, t)
  BY <1>2 DEF CreateChaincodeProposalWithTxIDAndTransient
<1>4. PICK ch : ch = [type |-> "ENDORSER_TRANSACTION", channelId |-> Channel,
                      txId |-> txid, extension |-> n]
  OBVIOUS
<1>5. PICK sh : sh = [nonce |-> nonce, creator |-> c]
  OBVIOUS
<1>6. PICK header : header = [channelHeader |-> Marshal(ch), signatureHeader |-> Marshal(sh)]
  OBVIOUS
<1>7. p.prop.header = Marshal(header)
  BY <1>3, <1>4, <1>5, <1>6 DEF CreateChaincodeProposalWithTxIDNonceAndTransient
<1>8. Unmarshal(env.payload).header = header
  BY <1>1, <1>7, Encoded
<1>9. DOMAIN ch = {"type", "channelId", "txId", "extension"} /\ DOMAIN sh = {"nonce", "creator"}
  BY <1>4, <1>5
<1>10. header # Absent
  <2>1. DOMAIN header = {"channelHeader", "signatureHeader"} /\ DOMAIN Absent = {"absent"}
    BY <1>6 DEF Absent
  <2> QED
    BY <2>1
<1>11. header.channelHeader = Marshal(ch) /\ header.signatureHeader = Marshal(sh)
  BY <1>6
<1> QED
  BY <1>8, <1>9, <1>10, <1>11, Encoded DEF Headed

(* They parse of an update and of a seek, too.                             *)
LEMMA SignedHeaded ==
  ASSUME NEW type, NEW id, NEW signer, NEW data, NEW nonce,
         NEW env, env = CreateSignedEnvelopeWithTLSBinding(type, id, signer, data, nonce)
  PROVE  Headed(env)
<1>1. PICK sh : sh = IF signer = NilSigner THEN [nonce |-> <<>>, creator |-> <<>>]
                     ELSE [nonce |-> nonce, creator |-> signer]
  OBVIOUS
<1>2. PICK ch : ch = [type |-> type, channelId |-> id, txId |-> EmptyTxID, extension |-> ""]
  OBVIOUS
<1>3. PICK header : header = [channelHeader |-> Marshal(ch), signatureHeader |-> Marshal(sh)]
  OBVIOUS
<1>4. env.payload = Marshal([header |-> header, data |-> Marshal(data)])
  BY <1>1, <1>2, <1>3 DEF CreateSignedEnvelopeWithTLSBinding
<1>5. Unmarshal(env.payload).header = header
  BY <1>4 DEF Marshal, Unmarshal
<1>6. DOMAIN ch = {"type", "channelId", "txId", "extension"} /\ DOMAIN sh = {"nonce", "creator"}
  BY <1>1, <1>2
<1>7. header # Absent
  <2>1. DOMAIN header = {"channelHeader", "signatureHeader"} /\ DOMAIN Absent = {"absent"}
    BY <1>3 DEF Absent
  <2> QED
    BY <2>1
<1>8. header.channelHeader = Marshal(ch) /\ header.signatureHeader = Marshal(sh)
  BY <1>3
<1> QED
  BY <1>5, <1>6, <1>7, <1>8, Encoded DEF Headed

(* A sequence and one more.                                                *)
LEMMA Appended ==
  ASSUME NEW s, s \in Seq(Range(s)), NEW x, NEW t, t = Append(s, x)
  PROVE  /\ t \in Seq(Range(t)) /\ Len(s) \in Nat /\ DOMAIN s = 1..Len(s)
         /\ Len(t) = Len(s) + 1 /\ DOMAIN t = 1..Len(s) + 1
         /\ \A n \in 1..Len(s) : t[n] = s[n]
         /\ t[Len(s) + 1] = x
<1> DEFINE S == Range(s) \cup {x}
<1>1. s \in Seq(S)
  <2>1. Range(s) \subseteq S
    OBVIOUS
  <2> HIDE DEF S
  <2> QED
    BY <2>1, SeqMonotonic
<1>2. x \in S
  OBVIOUS
<1> HIDE DEF S
<1>3. t \in Seq(S)
  BY <1>1, <1>2
<1>4. /\ Len(s) \in Nat /\ DOMAIN s = 1..Len(s)
      /\ Len(t) = Len(s) + 1 /\ DOMAIN t = 1..Len(s) + 1
      /\ \A n \in 1..Len(s) : t[n] = s[n]
      /\ t[Len(s) + 1] = x
  BY <1>1, <1>2
<1>5. t \in Seq(Range(t))
  <2>1. PICK k \in Nat : k = Len(t)
    BY <1>4
  <2>2. t \in [1..k -> Range(t)]
    BY <1>3, <2>1, LenProperties DEF Range
  <2>3. t \in UNION {[1..n -> Range(t)] : n \in Nat}
    BY <2>2
  <2>4. Seq(Range(t)) = UNION {[1..n -> Range(t)] : n \in Nat}
    BY SeqDef
  <2> QED
    BY <2>3, <2>4
<1> QED
  BY <1>4, <1>5

(* createSignedTx assembles answers to one proposal.                       *)
LEMMA CreateSignedTxMade ==
  ASSUME MessageInv, MadeInv, NEW p \in proposals, NEW c \in Creator, NEW k \in Nat,
         NEW peers \in [1..k -> Peer], CreateSignedTx(p, c, peers)
  PROVE  MadeInv'
<1> DEFINE r(n) == CHOOSE r \in responses : r.prop = p.prop /\ r.peer = peers[n]
<1>1. PICK answers : answers = [n \in 1..k |-> r(n)]
  OBVIOUS
<1>2. \A n \in 1..k : r(n) \in responses /\ r(n).prop = p.prop
  BY DEF CreateSignedTx
<1>3. PICK resps : resps = Responses(p, peers)
  OBVIOUS
<1>4. resps = [n \in 1..k |-> r(n).resp]
  BY <1>3 DEF Responses
<1> HIDE DEF r
<1>5. answers \in [1..k -> responses] /\ resps = [n \in 1..k |-> answers[n].resp]
  BY <1>1, <1>2, <1>4
<1>6. k \in Nat \ {0}
  <2>1. DOMAIN peers = 1..k /\ peers # <<>>
    BY DEF CreateSignedTx
  <2> QED
    BY <2>1
<1>7. Match(resps)
  BY <1>3 DEF CreateSignedTx
<1>8. \A n \in 1..k : answers[n].prop = p.prop /\ Successful(answers[n].resp)
  BY <1>1, <1>2, <1>5, <1>7 DEF Match
<1>9. PICK env : env = Assemble(p.prop, c, resps)
  OBVIOUS
<1>10. PICK e : e = [of |-> p, to |-> Channel, env |-> env]
  OBVIOUS
<1>11. /\ envelopes' = envelopes \cup {e} /\ UNCHANGED responses
       /\ e.of = p /\ e.env = env
  BY <1>3, <1>9, <1>10 DEF CreateSignedTx
<1>12. p \in Proposal /\ p # NoProposal
  <2>1. p \in Proposal
    BY DEF MessageInv, EnvelopeInv, TypeMessages
  <2> QED
    BY <2>1, ProposalSays
<1>13. Headed(e.env)
  <2>1. Headed(env)
    BY <1>9, <1>12, ProposalHeaded
  <2> QED
    BY <1>11, <2>1
<1>14. Assembled(e)
  <2>1. e.env = Assemble(e.of.prop, c, [n \in 1..k |-> answers[n].resp])
    BY <1>5, <1>9, <1>11
  <2>2. \A n \in 1..k : answers[n].prop = e.of.prop /\ Successful(answers[n].resp)
    BY <1>8, <1>11
  <2> QED
    BY <1>5, <1>6, <2>1, <2>2 DEF Assembled
<1> QED
  BY <1>11, <1>12, <1>13, <1>14, MadeAdded

(* A seek is signed by one.                                                *)
LEMMA SeekMade ==
  ASSUME MadeInv, NEW c, Seek(c)  PROVE MadeInv'
<1>1. PICK type, data : type = "DELIVER_SEEK_INFO" /\ data = [start |-> "newest"]
  OBVIOUS
<1>2. PICK nonce \in getRandomNonce :
        Sent(CreateSignedEnvelopeWithTLSBinding(type, Channel, c, data, nonce), Channel)
  BY <1>1 DEF Seek
<1>3. PICK env : env = CreateSignedEnvelopeWithTLSBinding(type, Channel, c, data, nonce)
  OBVIOUS
<1>4. PICK e : e = [of |-> NoProposal, to |-> Channel, env |-> env]
  OBVIOUS
<1>5. /\ envelopes' = envelopes \cup {e} /\ UNCHANGED responses
      /\ e.of = NoProposal /\ e.env = env
  BY <1>2, <1>3, <1>4 DEF Sent
<1>6. Headed(e.env)
  BY <1>3, <1>5, SignedHeaded
<1>7. TypeOf(e.env) = "DELIVER_SEEK_INFO"
  <2>1. TypeOf(env) = type
    BY <1>3, SignedReads
  <2> QED
    BY <1>1, <1>5, <2>1
<1> QED
  BY <1>5, <1>6, <1>7, MadeAdded

(* sanityCheckAndSignConfigTx adds one signature made by SignUpdateConfig. *)
LEMMA UpdateMade ==
  ASSUME MadeInv, NEW given \in GivenEnvelope, NEW c \in Creator, NEW channelID,
         Update(given, c, channelID)
  PROVE  MadeInv'
<1>1. PICK nonces \in getRandomNonce \X getRandomNonce :
        LET signedEnv == sanityCheckAndSignConfigTx(given, c, channelID, nonces)
        IN  signedEnv \notin {Absent, Error} /\ Sent(signedEnv, channelID)
  BY DEF Update
<1>2. PICK env : env = sanityCheckAndSignConfigTx(given, c, channelID, nonces)
  OBVIOUS
<1>3. env \notin {Absent, Error} /\ Sent(env, channelID)
  BY <1>1, <1>2
<1>4. PICK payload : payload = Unmarshal(given.payload)
  OBVIOUS
<1>5. PICK id : id = Unmarshal(payload.header.channelHeader).channelId
  OBVIOUS
<1>6. PICK update : update = Unmarshal(payload.data)
  OBVIOUS
<1>7. PICK mine : mine = SignUpdateConfig(c, update.configUpdate, nonces[1])
  OBVIOUS
<1>8. PICK data : data = [update EXCEPT !.signatures = Append(@, mine)]
  OBVIOUS
<1>9. PICK type, nonce : type = "CONFIG_UPDATE" /\ nonce = nonces[2]
  OBVIOUS
<1>10. /\ Carries(payload.data, {"configUpdate", "signatures"})
       /\ env = CreateSignedEnvelopeWithTLSBinding(type, id, c, data, nonce)
  BY <1>2, <1>3, <1>4, <1>5, <1>6, <1>7, <1>8, <1>9 DEF sanityCheckAndSignConfigTx
<1>11. PICK e : e = [of |-> NoProposal, to |-> channelID, env |-> env]
  OBVIOUS
<1>12. /\ envelopes' = envelopes \cup {e} /\ UNCHANGED responses
       /\ e.of = NoProposal /\ e.env = env
  BY <1>3, <1>11 DEF Sent
<1>13. Headed(e.env)
  BY <1>10, <1>12, SignedHeaded
<1>14. PICK sigs : sigs = update.signatures
  OBVIOUS
<1>15. sigs \in Seq(Range(sigs))
  BY <1>4, <1>6, <1>10, <1>14, GivenAssumption
<1>16. \A n \in DOMAIN sigs : \E d \in Creator, m \in getRandomNonce :
         sigs[n] = SignUpdateConfig(d, update.configUpdate, m)
  BY <1>4, <1>6, <1>10, <1>14, SignaturesAssumption
<1>17. PICK more : more = Append(sigs, mine)
  OBVIOUS
<1>18. data.signatures = more /\ data.configUpdate = update.configUpdate
  BY <1>6, <1>8, <1>10, <1>14, <1>17 DEF Carries, Unmarshal
<1>19. /\ more \in Seq(Range(more)) /\ Len(sigs) \in Nat /\ DOMAIN sigs = 1..Len(sigs)
       /\ DOMAIN more = 1..Len(sigs) + 1
       /\ \A n \in 1..Len(sigs) : more[n] = sigs[n]
       /\ more[Len(sigs) + 1] = mine
  <2>1. more \in Seq(Range(more))
    BY <1>15, <1>17, Appended
  <2>2. Len(sigs) \in Nat /\ DOMAIN sigs = 1..Len(sigs)
    BY <1>15, LenProperties
  <2>3. /\ DOMAIN more = 1..Len(sigs) + 1
        /\ \A n \in 1..Len(sigs) : more[n] = sigs[n]
        /\ more[Len(sigs) + 1] = mine
    BY ONLY <1>15, <1>17, Appended
  <2> QED
    BY <2>1, <2>2, <2>3
<1>20. ASSUME NEW n \in DOMAIN more
       PROVE  \E d \in Creator, m \in getRandomNonce :
                more[n] = SignUpdateConfig(d, data.configUpdate, m)
  <2>1. CASE n \in 1..Len(sigs)
    BY <1>16, <1>18, <1>19, <2>1
  <2>2. CASE n = Len(sigs) + 1
    <3>1. nonces[1] \in getRandomNonce
      OBVIOUS
    <3> QED
      BY <1>7, <1>18, <1>19, <2>2, <3>1
  <2> QED
    BY <1>19, <2>1, <2>2
<1>21. Unmarshal(Unmarshal(env.payload).data) = data
  <2>1. Unmarshal(env.payload).data = Marshal(data)
    BY <1>10, SignedReads
  <2> QED
    BY <2>1, Encoded
<1>22. Cosigned(e.env)
  BY <1>12, <1>18, <1>19, <1>20, <1>21 DEF Cosigned
<1> QED
  BY <1>12, <1>13, <1>22, MadeAdded

(* Every envelope there is was made by the library.                        *)
LEMMA NextMadeInv == MessageInv /\ MadeInv /\ [NextBlocks]_chainVars => MadeInv'
<1> SUFFICES ASSUME MessageInv, MadeInv, [NextBlocks]_chainVars  PROVE MadeInv'
  OBVIOUS
<1>1. CASE UNCHANGED messages
  BY <1>1, MadeGrown DEF messages
<1>2. CASE NextMessages
  <2>1. CASE \E c \in Creator, n \in Name, g \in GivenTxID, t \in Secret \cup {NoTransient} :
               Propose(c, n, g, t)
    BY <2>1, MadeGrown DEF Propose
  <2>2. CASE \E peer \in Peer, p \in proposals, s \in {200, 500}, r \in Result :
               EndorseProposal(peer, p, s, r)
    <3>1. responses \subseteq responses' /\ envelopes' = envelopes
      BY <2>2 DEF EndorseProposal
    <3> QED
      BY <3>1, MadeGrown
  <2>3. CASE \E p \in proposals, c \in Creator, k \in 1..Cardinality(Peer) :
               \E peers \in [1..k -> Peer] : CreateSignedTx(p, c, peers)
    <3>1. PICK p \in proposals, c \in Creator, k \in 1..Cardinality(Peer) :
               \E peers \in [1..k -> Peer] : CreateSignedTx(p, c, peers)
      BY <2>3
    <3>2. PICK peers \in [1..k -> Peer] : CreateSignedTx(p, c, peers)
      BY <3>1
    <3>3. k \in Nat
      OBVIOUS
    <3> QED
      BY <3>2, <3>3, CreateSignedTxMade
  <2>4. CASE \E c \in Creator \cup {NilSigner} : Seek(c)
    BY <2>4, SeekMade
  <2> QED
    BY <1>2, <2>1, <2>2, <2>3, <2>4 DEF NextMessages
<1>3. CASE \E g \in GivenEnvelope, c \in Creator, ch \in {Channel, NoChannel} : Update(g, c, ch)
  BY <1>3, UpdateMade
<1>4. CASE CutTransactions
  BY <1>1, <1>4 DEF CutTransactions, messages
<1>5. CASE CutConfig
  BY <1>1, <1>5 DEF CutConfig, messages
<1>6. CASE UNCHANGED chainVars
  BY <1>1, <1>6 DEF chainVars, messages
<1> QED
  BY <1>2, <1>3, <1>4, <1>5, <1>6 DEF NextBlocks

(* A configuration that no update or a submitted one led to.               *)
ConfigBlock(b, n) ==
  \E u \in {Absent} \cup {e.env : e \in {f \in envelopes : TypeOf(f.env) = "CONFIG_UPDATE"}} :
    b.data = <<ConfigEnvelope(n - 1, u)>>

(* Transactions that were sent, one at least.                              *)
TransactionBlock(b) ==
  \E k \in Nat \ {0} : \E batch \in [1..k -> Transactions] :
    b.data = [n \in 1..k |-> Marshal(batch[n].env)]

(* The chain is of such blocks, each configuration in its place.           *)
ChainInv ==
  /\ chain \in Seq(Range(chain))
  /\ \A n \in DOMAIN chain : ConfigBlock(chain[n], n) \/ TransactionBlock(chain[n])

(* The inductive invariant.                                                *)
BlockInv == MessageInv /\ MadeInv /\ ChainInv

(* A block holds what it holds, whatever is sent afterwards.               *)
LEMMA BlockStays ==
  ASSUME NEW b, NEW n, envelopes \subseteq envelopes'
  PROVE  /\ ConfigBlock(b, n) => ConfigBlock(b, n)'
         /\ TransactionBlock(b) => TransactionBlock(b)'
<1>1. Transactions \subseteq Transactions'
  BY DEF Transactions
<1>2. ASSUME ConfigBlock(b, n)  PROVE ConfigBlock(b, n)'
  BY <1>2 DEF ConfigBlock
<1>3. ASSUME TransactionBlock(b)  PROVE TransactionBlock(b)'
  <2>1. PICK k \in Nat \ {0} : \E batch \in [1..k -> Transactions] :
          b.data = [i \in 1..k |-> Marshal(batch[i].env)]
    BY <1>3 DEF TransactionBlock
  <2>2. [1..k -> Transactions] \subseteq [1..k -> Transactions']
    BY <1>1
  <2> QED
    BY <2>1, <2>2 DEF TransactionBlock
<1> QED
  BY <1>2, <1>3

(* One more block, of what was sent.                                       *)
LEMMA ChainGrows ==
  ASSUME ChainInv, UNCHANGED envelopes, NEW b, chain' = Append(chain, b),
         ConfigBlock(b, Len(chain) + 1) \/ TransactionBlock(b)
  PROVE  ChainInv'
<1>1. PICK old, new : old = chain /\ new = chain'
  OBVIOUS
<1>2. /\ old \in Seq(Range(old)) /\ new = Append(old, b)
  BY <1>1 DEF ChainInv
<1>3. new \in Seq(Range(new))
  BY <1>2, Appended
<1>4. /\ DOMAIN old = 1..Len(old) /\ Len(old) \in Nat
  BY <1>2, LenProperties
<1>5. /\ DOMAIN new = 1..Len(old) + 1 /\ \A n \in 1..Len(old) : new[n] = old[n]
      /\ new[Len(old) + 1] = b
  BY ONLY <1>2, Appended
<1>6. ASSUME NEW n \in DOMAIN new
      PROVE  ConfigBlock(new[n], n) \/ TransactionBlock(new[n])
  <2>1. CASE n \in 1..Len(old)
    BY <1>1, <1>4, <1>5, <2>1 DEF ChainInv
  <2>2. CASE n = Len(old) + 1
    BY <1>1, <1>5, <2>2
  <2> QED
    BY <1>4, <1>5, <2>1, <2>2
<1>7. ASSUME NEW n \in DOMAIN new
      PROVE  (ConfigBlock(new[n], n) \/ TransactionBlock(new[n]))'
  <2>1. PICK x : x = new[n]
    OBVIOUS
  <2>2. ConfigBlock(x, n) \/ TransactionBlock(x)
    BY <1>6, <2>1
  <2>3. (ConfigBlock(x, n) \/ TransactionBlock(x))'
    BY <2>2, BlockStays
  <2> QED
    BY <2>1, <2>3 DEF ConfigBlock, TransactionBlock
<1> QED
  BY <1>1, <1>3, <1>7 DEF ChainInv

(* The first block is the first configuration.                             *)
LEMMA InitBlockInv == InitBlocks => BlockInv
<1> SUFFICES ASSUME InitBlocks  PROVE BlockInv
  OBVIOUS
<1>1. MessageInv /\ MadeInv
  <2>1. MessageInv
    BY InitMessageInv DEF InitBlocks
  <2>2. MadeInv
    BY DEF MadeInv, InitBlocks, InitMessages, Transactions
  <2> QED
    BY <2>1, <2>2
<1>2. PICK b : b = [header |-> [number |-> 0, previousHash |-> Nil,
                                dataHash |-> Sha256(<<ConfigEnvelope(0, Absent)>>)],
                    data |-> <<ConfigEnvelope(0, Absent)>>]
  OBVIOUS
<1>3. chain = <<b>> /\ b.data = <<ConfigEnvelope(0, Absent)>>
  BY <1>2 DEF InitBlocks
<1>4. chain \in Seq(Range(chain)) /\ DOMAIN chain = {1} /\ chain[1] = b
  <2>1. b \in Range(chain)
    BY <1>3 DEF Range
  <2> QED
    BY <1>3, <2>1
<1>5. ConfigBlock(chain[1], 1)
  <2>1. b.data = <<ConfigEnvelope(1 - 1, Absent)>>
    BY <1>3
  <2> QED
    BY <1>4, <2>1 DEF ConfigBlock
<1> QED
  BY <1>1, <1>4, <1>5 DEF BlockInv, ChainInv

(* The ordering service cuts blocks of what it was sent.                   *)
LEMMA NextBlockInv == BlockInv /\ [NextBlocks]_chainVars => BlockInv'
<1> SUFFICES ASSUME BlockInv, [NextBlocks]_chainVars  PROVE BlockInv'
  OBVIOUS
<1>1. MessageInv' /\ MadeInv'
  BY NextMessageInv, NextMadeInv DEF BlockInv
<1>2. ASSUME UNCHANGED chain, envelopes \subseteq envelopes'  PROVE ChainInv'
  <2>1. chain' \in Seq(Range(chain'))
    BY <1>2 DEF BlockInv, ChainInv
  <2>2. ASSUME NEW n \in DOMAIN chain
        PROVE  (ConfigBlock(chain[n], n) \/ TransactionBlock(chain[n]))'
    <3>1. PICK x : x = chain[n]
      OBVIOUS
    <3>2. ConfigBlock(x, n) \/ TransactionBlock(x)
      BY <3>1 DEF BlockInv, ChainInv
    <3>3. (ConfigBlock(x, n) \/ TransactionBlock(x))'
      BY <1>2, <3>2, BlockStays
    <3> QED
      BY <1>2, <3>1, <3>3 DEF ConfigBlock, TransactionBlock
  <2> QED
    BY <1>2, <2>1, <2>2 DEF ChainInv
<1>3. CASE NextMessages /\ UNCHANGED chain
  <2>1. envelopes \subseteq envelopes'
    BY <1>3 DEF NextMessages, Propose, EndorseProposal, CreateSignedTx, Seek, Sent
  <2> QED
    BY <1>1, <1>2, <1>3, <2>1 DEF BlockInv
<1>4. CASE \E g \in GivenEnvelope, c \in Creator, ch \in {Channel, NoChannel} : Update(g, c, ch)
  BY <1>1, <1>2, <1>4 DEF BlockInv, Update, Sent
<1>5. CASE CutTransactions
  <2>1. PICK k \in 1..MaxBatch : \E batch \in [1..k -> Transactions] :
          /\ chain' = Append(chain, Block([n \in 1..k |-> Marshal(batch[n].env)]))
          /\ UNCHANGED <<proposals, responses, envelopes>>
    BY <1>5 DEF CutTransactions
  <2>2. PICK batch \in [1..k -> Transactions] :
          /\ chain' = Append(chain, Block([n \in 1..k |-> Marshal(batch[n].env)]))
          /\ UNCHANGED <<proposals, responses, envelopes>>
    BY <2>1
  <2>3. PICK b : b = Block([n \in 1..k |-> Marshal(batch[n].env)])
    OBVIOUS
  <2>4. b.data = [n \in 1..k |-> Marshal(batch[n].env)]
    BY <2>3 DEF Block
  <2>5. k \in Nat \ {0}
    OBVIOUS
  <2>6. TransactionBlock(b)
    BY <2>4, <2>5 DEF TransactionBlock
  <2>7. ChainInv'
    BY <2>2, <2>3, <2>6, ChainGrows DEF BlockInv
  <2> QED
    BY <1>1, <2>7 DEF BlockInv
<1>6. CASE CutConfig
  <2>1. PICK e \in envelopes :
          /\ TypeOf(e.env) = "CONFIG_UPDATE"
          /\ chain' = Append(chain, Block(<<ConfigEnvelope(Len(chain), e.env)>>))
          /\ UNCHANGED <<proposals, responses, envelopes>>
    BY <1>6 DEF CutConfig
  <2>2. PICK b : b = Block(<<ConfigEnvelope(Len(chain), e.env)>>)
    OBVIOUS
  <2>3. b.data = <<ConfigEnvelope(Len(chain), e.env)>>
    BY <2>2 DEF Block
  <2>4. PICK n : n = Len(chain) + 1
    OBVIOUS
  <2>5. Len(chain) = n - 1
    <3>1. Len(chain) \in Nat
      BY LenProperties DEF BlockInv, ChainInv
    <3> QED
      BY <2>4, <3>1
  <2>6. ConfigBlock(b, n)
    BY <2>1, <2>3, <2>5 DEF ConfigBlock
  <2>7. ChainInv'
    BY <2>1, <2>2, <2>4, <2>6, ChainGrows DEF BlockInv
  <2> QED
    BY <1>1, <2>7 DEF BlockInv
<1>7. CASE UNCHANGED chainVars
  BY <1>1, <1>2, <1>7 DEF BlockInv, chainVars
<1> QED
  BY <1>3, <1>4, <1>5, <1>6, <1>7 DEF NextBlocks

(* The invariant of the chain holds of every run.                          *)
LEMMA BlocksHold == SpecBlocks => []BlockInv
BY InitBlockInv, NextBlockInv, PTL DEF SpecBlocks

(* What an answer carries, whatever its status.                            *)
LEMMA AnswerCarries ==
  ASSUME TypeMessages, NEW r \in responses
  PROVE  \E hash, status : \E x \in Result :
           r.resp.payload =
             GetBytesProposalResponsePayload(hash, status, x, InvokedChaincodeName(Marshal(r.prop)))
<1>1. PICK s \in {200, 500}, x \in Result : r = Answer(r.prop, r.peer, s, x)
  BY DEF TypeMessages
<1>2. PICK prop, peer : prop = r.prop /\ peer = r.peer
  OBVIOUS
<1>3. PICK name, hash : /\ name = InvokedChaincodeName(Marshal(prop))
                        /\ hash = GetProposalHash1(Unmarshal(prop.header), prop.payload)
  OBVIOUS
<1>4. r = Answer(prop, peer, s, x)
  BY <1>1, <1>2
<1>5. r.resp = IF s < 400 THEN CreateProposalResponse(prop, s, x, name, peer)
               ELSE CreateProposalResponseFailure(prop, s, x, name)
  BY <1>3, <1>4 DEF Answer
<1>6. r.resp.payload = GetBytesProposalResponsePayload(hash, s, x, name)
  BY <1>3, <1>5 DEF CreateProposalResponse, CreateProposalResponseFailure
<1> QED
  BY <1>2, <1>3, <1>6

(* The name of the chaincode, and the type of the header, of a proposal.   *)
LEMMA ProposalNames ==
  ASSUME NEW p \in Proposal, NEW prop, prop = p.prop
  PROVE  /\ Unmarshal(prop.payload).input =
              Marshal([name |-> InvokedChaincodeName(Marshal(prop))])
         /\ Unmarshal(Unmarshal(prop.header).channelHeader).type = "ENDORSER_TRANSACTION"
<1>1. PICK c \in Creator, n \in Name, nonce \in getRandomNonce, g \in GivenTxID,
           t \in Secret \cup {NoTransient} :
        p = CreateChaincodeProposalWithTxIDAndTransient(c, n, nonce, g, t)
  BY DEF Proposal
<1>2. PICK txid : prop = CreateChaincodeProposalWithTxIDNonceAndTransient(txid, n, nonce, c, t)
  BY <1>1 DEF CreateChaincodeProposalWithTxIDAndTransient
<1>3. /\ prop.payload = Marshal([input |-> Marshal([name |-> n]), transientMap |-> t])
      /\ prop.header = Marshal(
           [channelHeader   |-> Marshal([type |-> "ENDORSER_TRANSACTION", channelId |-> Channel,
                                         txId |-> txid, extension |-> n]),
            signatureHeader |-> Marshal([nonce |-> nonce, creator |-> c])])
  BY <1>2 DEF CreateChaincodeProposalWithTxIDNonceAndTransient
<1>4. Unmarshal(prop.payload).input = Marshal([name |-> n])
  BY <1>3 DEF Marshal, Unmarshal
<1>5. InvokedChaincodeName(Marshal(prop)) = n
  <2>1. Unmarshal(Marshal(prop)) = prop
    BY Encoded
  <2>2. Unmarshal(Marshal([name |-> n])) = [name |-> n]
    BY DEF Marshal, Unmarshal
  <2> QED
    BY <1>4, <2>1, <2>2 DEF InvokedChaincodeName
<1>6. Unmarshal(Unmarshal(prop.header).channelHeader).type = "ENDORSER_TRANSACTION"
  BY <1>3 DEF Marshal, Unmarshal
<1> QED
  BY <1>4, <1>5, <1>6

(* What BlockTells says of one transaction and what is told of it.         *)
Tells(e, t) ==
  LET prp == ActionPayloadOf(e.env).action.proposalResponsePayload
      action == t.actions[1].action
      cpp == t.actions[1].chaincodeProposalPayload
  IN  /\ GetTxType(t) = "ENDORSER_TRANSACTION"
      /\ t.header.channelHeader.txId = e.of.txID
      /\ action.endorsements # <<>>
      /\ \A k \in DOMAIN action.endorsements :
           LET en == action.endorsements[k]
           IN  /\ SignatureIsGood(en.signature, en.endorser.identity,
                                  <<prp, en.endorser.identity>>)
               /\ \E r \in responses :
                    r.prop = e.of.prop /\ r.peer = en.endorser.identity
      /\ action.proposalHash =
           GetProposalHash2(Unmarshal(e.env.payload).header,
                            ActionPayloadOf(e.env).chaincodeProposalPayload)
      /\ TxRwSetToProtoBytes(action.extension.results) =
           GetActionFromEnvelope(e.env).results
      /\ cpp.transientMap = NoTransient
      /\ cpp.input.name = action.extension.chaincodeID

(* UnmarshalEnvelope fails on a transaction only when its read-write set   *)
(* does not parse, and else tells of it what it is.                        *)
LEMMA TransactionTold ==
  ASSUME MessageInv, MadeInv, NEW e \in Transactions, NEW t, t = UnmarshalEnvelope(e.env)
  PROVE  /\ TypeOf(e.env) = "ENDORSER_TRANSACTION"
         /\ ~HasRwSet(e) => t = Error
         /\ HasRwSet(e) => t # Error /\ Tells(e, t)
<1>1. /\ TypeMessages /\ e \in envelopes /\ e.of # NoProposal /\ e.of \in Proposal
      /\ Assembled(e) /\ Headed(e.env) /\ Accepted(e) /\ Identified(e)
  BY DEF MessageInv, MadeInv, EnvelopeInv, TypeMessages, Transactions, CommitterAccepts,
    TxIDFound
<1>2. PICK prop, env : prop = e.of.prop /\ env = e.env
  OBVIOUS
<1>3. PICK signer \in Creator, k \in Nat \ {0} : \E answers \in [1..k -> responses] :
        /\ \A n \in 1..k : answers[n].prop = e.of.prop /\ Successful(answers[n].resp)
        /\ e.env = Assemble(e.of.prop, signer, [n \in 1..k |-> answers[n].resp])
  BY <1>1 DEF Assembled
<1>4. PICK answers \in [1..k -> responses] :
        /\ \A n \in 1..k : answers[n].prop = prop /\ Successful(answers[n].resp)
        /\ env = Assemble(prop, signer, [n \in 1..k |-> answers[n].resp])
  BY <1>2, <1>3
<1>5. PICK resps : resps = [n \in 1..k |-> answers[n].resp]
  OBVIOUS
<1>6. PICK name : name = InvokedChaincodeName(Marshal(prop))
  OBVIOUS
<1>7. /\ Unmarshal(prop.payload).input = Marshal([name |-> name])
      /\ Unmarshal(Unmarshal(prop.header).channelHeader).type = "ENDORSER_TRANSACTION"
  BY <1>1, <1>2, <1>6, ProposalNames
<1>8. PICK hash, status, x : /\ x \in Result
                             /\ resps[1].payload =
                                  GetBytesProposalResponsePayload(hash, status, x, name)
  <2>1. answers[1] \in responses /\ answers[1].prop = prop /\ resps[1] = answers[1].resp
    BY <1>4, <1>5
  <2>2. PICK r : r = answers[1]
    OBVIOUS
  <2> QED
    BY <1>1, <1>6, <2>1, <2>2, AnswerCarries
<1>9. x # Nil
  BY <1>8, ResultAssumption
<1>10. env = Assemble(prop, signer, resps)
  BY <1>4, <1>5
<1>11. /\ Unmarshal(env.payload).header = Unmarshal(prop.header)
       /\ ChannelHeaderOf(env) = Unmarshal(Unmarshal(prop.header).channelHeader)
       /\ ActionPayloadOf(env).action.proposalResponsePayload = resps[1].payload
       /\ ActionPayloadOf(env).action.endorsements = [n \in DOMAIN resps |-> resps[n].endorsement]
  BY <1>10, AssembledReads
<1>12. TypeOf(env) = "ENDORSER_TRANSACTION"
  BY <1>7, <1>11 DEF TypeOf
<1>13. /\ GetActionFromEnvelope(env).results = x
       /\ Unmarshal(resps[1].payload).proposalHash = hash
  BY <1>8, <1>11 DEF GetActionFromEnvelope, GetBytesProposalResponsePayload, Marshal, Unmarshal
<1>14. HasRwSet(e) <=> IsTxRwSet(x)
  BY <1>2, <1>13 DEF HasRwSet
<1>15. t = UnmarshalEnvelope(env) /\ Headed(env)
  BY <1>1, <1>2
<1>16. /\ ~IsTxRwSet(x) => t = Error
       /\ IsTxRwSet(x) =>
            LET action == t.actions[1].action
                cpp == t.actions[1].chaincodeProposalPayload
            IN  /\ t # Error /\ t.header.channelHeader = ChannelHeaderOf(env)
                /\ action.endorsements =
                     [n \in DOMAIN resps |->
                        [endorser  |-> SerializedIdentity(resps[n].endorsement.endorser),
                         signature |-> resps[n].endorsement.signature]]
                /\ action.proposalHash = hash
                /\ action.extension.results = ProtoUnmarshal(x)
                /\ action.extension.chaincodeID = name
                /\ cpp.transientMap = NoTransient /\ cpp.input.name = name
  BY <1>7, <1>8, <1>9, <1>10, <1>15, ReadTransaction
<1>17. ASSUME IsTxRwSet(x)  PROVE t # Error /\ Tells(e, t)
  <2>1. PICK action, cpp : /\ action = t.actions[1].action
                           /\ cpp = t.actions[1].chaincodeProposalPayload
    OBVIOUS
  <2>2. /\ t # Error /\ t.header.channelHeader = ChannelHeaderOf(env)
        /\ action.endorsements =
             [n \in DOMAIN resps |->
                [endorser  |-> SerializedIdentity(resps[n].endorsement.endorser),
                 signature |-> resps[n].endorsement.signature]]
        /\ action.proposalHash = hash
        /\ action.extension.results = ProtoUnmarshal(x)
        /\ action.extension.chaincodeID = name
        /\ cpp.transientMap = NoTransient /\ cpp.input.name = name
    BY <1>16, <1>17, <2>1
  <2>3. GetTxType(t) = "ENDORSER_TRANSACTION"
    BY <1>12, <2>2 DEF GetTxType, TypeOf
  <2>4. t.header.channelHeader.txId = e.of.txID
    <3>1. ChannelHeaderOf(env).txId = e.of.txID
      BY <1>1, <1>2, <1>11, ProposalSays
    <3> QED
      BY <2>2, <3>1
  <2>5. DOMAIN resps = 1..k /\ DOMAIN action.endorsements = 1..k
    BY <1>5, <2>2
  <2>6. action.endorsements # <<>>
    <3>1. 1 \in DOMAIN action.endorsements
      BY <2>5
    <3> QED
      BY <3>1
  <2>7. ASSUME NEW n \in 1..k
        PROVE  LET en == action.endorsements[n]
               IN  /\ SignatureIsGood(en.signature, en.endorser.identity,
                                      <<resps[1].payload, en.endorser.identity>>)
                   /\ \E r \in responses : r.prop = prop /\ r.peer = en.endorser.identity
    <3>1. PICK r \in responses : r = answers[n]
      OBVIOUS
    <3>2. r.prop = prop /\ Successful(r.resp) /\ resps[n] = r.resp
      BY <1>4, <1>5, <3>1
    <3>3. r.resp.endorsement = [endorser  |-> r.peer,
                                signature |-> Sign(r.peer, <<r.resp.payload, r.peer>>)]
      BY <1>1, <3>2, AnswerSays
    <3>4. PICK en : en = action.endorsements[n]
      OBVIOUS
    <3>5. en = [endorser  |-> SerializedIdentity(resps[n].endorsement.endorser),
                signature |-> resps[n].endorsement.signature]
      BY <2>2, <2>5, <3>4
    <3>6. /\ en.endorser.identity = resps[n].endorsement.endorser
          /\ en.signature = resps[n].endorsement.signature
      BY <3>5 DEF SerializedIdentity
    <3>7. en.endorser.identity = r.peer
      BY <3>2, <3>3, <3>6
    <3>8. SignatureIsGood(resps[n].endorsement.signature, resps[n].endorsement.endorser,
                          <<resps[1].payload, resps[n].endorsement.endorser>>)
      BY <1>1, <1>2, <1>11, <2>5 DEF Accepted
    <3> QED
      BY <3>2, <3>4, <3>6, <3>7, <3>8
  <2>8. action.proposalHash =
          GetProposalHash2(Unmarshal(env.payload).header,
                           ActionPayloadOf(env).chaincodeProposalPayload)
    BY <1>1, <1>2, <1>11, <1>13, <2>2 DEF Accepted
  <2>9. TxRwSetToProtoBytes(action.extension.results) = GetActionFromEnvelope(env).results
    BY <1>8, <1>13, <1>17, <2>2, SetComesBack
  <2> QED
    BY <1>2, <1>11, <2>1, <2>2, <2>3, <2>4, <2>5, <2>6, <2>7, <2>8, <2>9 DEF Tells
<1> QED
  BY <1>2, <1>12, <1>14, <1>16, <1>17

(* What is in the envelope of a configuration.                             *)
LEMMA ConfigReads ==
  ASSUME NEW n, NEW u, NEW env, env = Unmarshal(ConfigEnvelope(n, u))
  PROVE  /\ Headed(env) /\ TypeOf(env) = "CONFIG" /\ env # Error
         /\ Unmarshal(env.payload).data =
              Marshal([config |-> [sequence |-> n], lastUpdate |-> u])
<1>1. PICK ch : ch = [type |-> "CONFIG", channelId |-> Channel, txId |-> EmptyTxID,
                      extension |-> ""]
  OBVIOUS
<1>2. PICK sh : sh = [nonce |-> <<>>, creator |-> Orderer]
  OBVIOUS
<1>3. PICK header : header = [channelHeader |-> Marshal(ch), signatureHeader |-> Marshal(sh)]
  OBVIOUS
<1>4. PICK cfg : cfg = [config |-> [sequence |-> n], lastUpdate |-> u]
  OBVIOUS
<1>5. PICK payl : payl = Marshal([header |-> header, data |-> Marshal(cfg)])
  OBVIOUS
<1>6. ConfigEnvelope(n, u) = Marshal([payload |-> payl, signature |-> Sign(Orderer, payl)])
  BY <1>1, <1>2, <1>3, <1>4, <1>5 DEF ConfigEnvelope
<1>7. env = [payload |-> payl, signature |-> Sign(Orderer, payl)]
  BY <1>6, Encoded
<1>8. env # Error
  <2>1. DOMAIN env = {"payload", "signature"} /\ DOMAIN Error = {"error"}
    BY <1>7 DEF Error
  <2> QED
    BY <2>1
<1>9. Unmarshal(env.payload).header = header /\ Unmarshal(env.payload).data = Marshal(cfg)
  BY <1>5, <1>7 DEF Marshal, Unmarshal
<1>10. DOMAIN ch = {"type", "channelId", "txId", "extension"} /\ DOMAIN sh = {"nonce", "creator"}
       /\ ch.type = "CONFIG"
  BY <1>1, <1>2
<1>11. header # Absent
  <2>1. DOMAIN header = {"channelHeader", "signatureHeader"} /\ DOMAIN Absent = {"absent"}
    BY <1>3 DEF Absent
  <2> QED
    BY <2>1
<1>12. header.channelHeader = Marshal(ch) /\ header.signatureHeader = Marshal(sh)
  BY <1>3
<1>13. Headed(env)
  BY <1>9, <1>10, <1>11, <1>12, Encoded DEF Headed
<1>14. TypeOf(env) = "CONFIG"
  BY <1>9, <1>10, <1>12, Encoded DEF TypeOf, ChannelHeaderOf
<1> QED
  BY <1>4, <1>8, <1>9, <1>13, <1>14

(* What is told of an update that was submitted.                           *)
LEMMA ReadUpdate ==
  ASSUME NEW env, Headed(env), Cosigned(env),
         Carries(Unmarshal(env.payload).data, {"configUpdate", "signatures"}),
         NEW update, update = Unmarshal(Unmarshal(env.payload).data),
         NEW told, told = unmarshalLastUpdate(env)
  PROVE  /\ told # Error /\ told.signature = env.signature
         /\ told.data.configUpdate = Unmarshal(update.configUpdate)
         /\ Len(told.data.signatures) = Len(update.signatures)
         /\ \A k \in DOMAIN update.signatures :
              LET s == told.data.signatures[k]
              IN  SignatureIsGood(s.signature, s.signatureHeader.creator.identity,
                                  <<update.signatures[k].signatureHeader, update.configUpdate>>)
<1>1. PICK sigs : sigs = update.signatures
  OBVIOUS
<1>2. sigs \in Seq(Range(sigs))
  BY <1>1 DEF Cosigned
<1>3. PICK read : read = [n \in DOMAIN sigs |->
                            [signatureHeader |-> unmarshalSignatureHeader(sigs[n].signatureHeader),
                             signature |-> sigs[n].signature]]
  OBVIOUS
<1>4. ASSUME NEW n \in DOMAIN sigs
      PROVE  /\ read[n].signatureHeader # Error
             /\ SignatureIsGood(read[n].signature, read[n].signatureHeader.creator.identity,
                                <<sigs[n].signatureHeader, update.configUpdate>>)
  <2>1. PICK c \in Creator, nonce \in getRandomNonce :
          sigs[n] = SignUpdateConfig(c, update.configUpdate, nonce)
    BY <1>1 DEF Cosigned
  <2>2. PICK sh : sh = [nonce |-> nonce, creator |-> c]
    OBVIOUS
  <2>3. DOMAIN sh = {"nonce", "creator"} /\ sh.creator = c
    BY <2>2
  <2>4. /\ sigs[n].signatureHeader = Marshal(sh)
        /\ sigs[n].signature = Sign(c, <<Marshal(sh), update.configUpdate>>)
    BY <2>1, <2>2 DEF SignUpdateConfig
  <2>5. PICK h : h = unmarshalSignatureHeader(Marshal(sh))
    OBVIOUS
  <2>6. h = [creator |-> SerializedIdentity(c), nonce |-> sh.nonce]
    BY <2>3, <2>5, Encoded DEF unmarshalSignatureHeader
  <2>7. h # Error
    <3>1. DOMAIN h = {"creator", "nonce"} /\ DOMAIN Error = {"error"}
      BY <2>6 DEF Error
    <3> QED
      BY <3>1
  <2>8. h.creator.identity = c
    BY <2>6 DEF SerializedIdentity
  <2>9. read[n].signatureHeader = h /\ read[n].signature = sigs[n].signature
    BY <1>3, <2>4, <2>5
  <2> QED
    BY <2>4, <2>7, <2>8, <2>9 DEF SignatureIsGood
<1>5. PICK data : data = unmarshalConfigUpdateEnvelope(Unmarshal(env.payload).data)
  OBVIOUS
<1>6. data = [configUpdate |-> Unmarshal(update.configUpdate), signatures |-> read]
  <2>1. DOMAIN read = DOMAIN sigs
    BY <1>3
  <2> QED
    BY <1>1, <1>3, <1>4, <1>5, <2>1 DEF unmarshalConfigUpdateEnvelope
<1>7. data # Error
  <2>1. DOMAIN data = {"configUpdate", "signatures"} /\ DOMAIN Error = {"error"}
    BY <1>6 DEF Error
  <2> QED
    BY <2>1
<1>8. PICK header : header = unmarshalEnvelopsPayloadHeader(Unmarshal(env.payload).header)
  OBVIOUS
<1>9. header # Error
  BY <1>8, ReadHeader
<1>10. told = [data |-> data, header |-> header, signature |-> env.signature]
  BY <1>5, <1>7, <1>8, <1>9 DEF unmarshalLastUpdate
<1>11. told # Error
  <2>1. DOMAIN told = {"data", "header", "signature"} /\ DOMAIN Error = {"error"}
    BY <1>10 DEF Error
  <2> QED
    BY <2>1
<1>12. told.data.signatures = read
  BY <1>6, <1>10
<1>13. Len(read) = Len(sigs)
  <2>1. PICK k \in Nat : k = Len(sigs)
    BY <1>2, LenProperties
  <2>2. DOMAIN sigs = 1..k
    BY <1>2, <2>1, LenProperties
  <2>3. DOMAIN read = 1..k
    BY <1>3, <2>2
  <2>4. Len(read) = k
    BY <1>3, <2>2, <2>3
  <2> QED
    BY <2>1, <2>4
<1>14. told.signature = env.signature /\ told.data.configUpdate = Unmarshal(update.configUpdate)
  BY <1>6, <1>10
<1>15. \A k \in DOMAIN sigs :
         SignatureIsGood(read[k].signature, read[k].signatureHeader.creator.identity,
                         <<sigs[k].signatureHeader, update.configUpdate>>)
  BY <1>4
<1> QED
  BY <1>1, <1>11, <1>12, <1>13, <1>14, <1>15

(* What is told of a configuration.                                        *)
LEMMA ReadConfig ==
  ASSUME NEW n, NEW u, NEW env, env = Unmarshal(ConfigEnvelope(n, u)),
         NEW last, last = IF u = Absent THEN Absent ELSE unmarshalLastUpdate(u), last # Error,
         NEW told, told = UnmarshalConfigPayload(env.payload)
  PROVE  /\ told # Error /\ told.header.channelHeader.type = "CONFIG"
         /\ told.data.config = [sequence |-> n] /\ told.data.lastUpdate = last
<1>1. PICK cfg : cfg = [config |-> [sequence |-> n], lastUpdate |-> u]
  OBVIOUS
<1>2. /\ Headed(env) /\ TypeOf(env) = "CONFIG"
      /\ Unmarshal(env.payload).data = Marshal(cfg)
  BY <1>1, ConfigReads
<1>3. DOMAIN cfg = {"config", "lastUpdate"} /\ cfg.config = [sequence |-> n] /\ cfg.lastUpdate = u
  BY <1>1
<1>4. PICK data : data = unmarshalPayloadConfigEnvelope(Marshal(cfg))
  OBVIOUS
<1>5. data = [config |-> [sequence |-> n], lastUpdate |-> last]
  <2>1. Carries(Marshal(cfg), {"config", "lastUpdate"}) /\ Unmarshal(Marshal(cfg)) = cfg
    BY <1>3, Encoded
  <2> QED
    BY <1>3, <1>4, <2>1 DEF unmarshalPayloadConfigEnvelope
<1>6. data # Error
  <2>1. DOMAIN data = {"config", "lastUpdate"} /\ DOMAIN Error = {"error"}
    BY <1>5 DEF Error
  <2> QED
    BY <2>1
<1>7. PICK header : header = unmarshalEnvelopsPayloadHeader(Unmarshal(env.payload).header)
  OBVIOUS
<1>8. header # Error /\ header.channelHeader = ChannelHeaderOf(env)
  BY <1>2, <1>7, ReadHeader
<1>9. told = [data |-> data, header |-> header]
  BY <1>2, <1>4, <1>6, <1>7, <1>8 DEF UnmarshalConfigPayload
<1>10. told # Error
  <2>1. DOMAIN told = {"data", "header"} /\ DOMAIN Error = {"error"}
    BY <1>9 DEF Error
  <2> QED
    BY <2>1
<1> QED
  BY <1>2, <1>5, <1>8, <1>9, <1>10 DEF TypeOf

(* The type of an envelope tells what it is of.                            *)
LEMMA KindOf ==
  ASSUME MessageInv, MadeInv, NEW e \in envelopes
  PROVE  /\ TypeOf(e.env) = "ENDORSER_TRANSACTION" => e \in Transactions
         /\ TypeOf(e.env) = "CONFIG_UPDATE" =>
              e.of = NoProposal /\ Sane(e) /\ Cosigned(e.env) /\ Headed(e.env)
<1>1. e.of # NoProposal => e \in Transactions /\ TypeOf(e.env) = "ENDORSER_TRANSACTION"
  BY TransactionTold DEF Transactions
<1>2. (e.of = NoProposal /\ TypeOf(e.env) # "DELIVER_SEEK_INFO") =>
         Sane(e) /\ Cosigned(e.env)
  BY DEF MessageInv, UpdateIsSane, MadeInv
<1>3. Sane(e) => TypeOf(e.env) = "CONFIG_UPDATE"
  BY DEF Sane
<1>4. Headed(e.env)
  BY DEF MadeInv
<1> QED
  BY <1>1, <1>2, <1>3, <1>4

(* A block of transactions is not one of a configuration.                  *)
LEMMA KindOfBlock ==
  ASSUME MessageInv, MadeInv, NEW b, NEW n
  PROVE  /\ ConfigBlock(b, n) => IsConfigBlock(b)
         /\ TransactionBlock(b) => ~IsConfigBlock(b)
<1>1. ASSUME ConfigBlock(b, n)  PROVE IsConfigBlock(b)
  <2>1. PICK u : b.data = <<ConfigEnvelope(n - 1, u)>>
    BY <1>1 DEF ConfigBlock
  <2>2. PICK i, env : i = n - 1 /\ env = Unmarshal(ConfigEnvelope(i, u))
    OBVIOUS
  <2>3. ExtractEnvelope(b, 1) = env
    BY <2>1, <2>2 DEF ExtractEnvelope
  <2>4. TypeOf(env) = "CONFIG" /\ env # Error
    BY <2>2, ConfigReads
  <2> QED
    BY <2>3, <2>4 DEF IsConfigBlock, TypeOf
<1>2. ASSUME TransactionBlock(b)  PROVE ~IsConfigBlock(b)
  <2>1. PICK k \in Nat \ {0} : \E batch \in [1..k -> Transactions] :
          b.data = [i \in 1..k |-> Marshal(batch[i].env)]
    BY <1>2 DEF TransactionBlock
  <2>2. PICK batch \in [1..k -> Transactions] : b.data = [i \in 1..k |-> Marshal(batch[i].env)]
    BY <2>1
  <2>3. PICK e \in Transactions : e = batch[1]
    OBVIOUS
  <2>4. 1 \in DOMAIN b.data /\ b.data[1] = Marshal(e.env)
    BY <2>2, <2>3
  <2>5. ExtractEnvelope(b, 1) = e.env
    BY <2>4, Encoded DEF ExtractEnvelope
  <2>6. TypeOf(e.env) = "ENDORSER_TRANSACTION"
    BY TransactionTold
  <2> QED
    BY <2>5, <2>6 DEF IsConfigBlock, TypeOf
<1> QED
  BY <1>1, <1>2

(* What BlockTells says of a block.                                        *)
BlockTold(b) ==
  LET of(n) == CHOOSE e \in envelopes : Marshal(e.env) = b.data[n]
      told == UnmarshalBlock(b)
  IN  IF IsConfigBlock(b) THEN told = Error
      ELSE IF told = Error THEN \E n \in DOMAIN b.data : ~HasRwSet(of(n))
      ELSE \A n \in DOMAIN b.data : Tells(of(n), told.data[n])

(* Blocks of transactions tell of them, and no other block is read as one. *)
LEMMA BlocksTell == BlockInv => BlockTells
<1> SUFFICES ASSUME BlockInv, NEW n \in DOMAIN chain, NEW b, b = chain[n]
    PROVE  BlockTold(b)
  <2>1. (\A b \in Blocks : BlockTold(b)) => BlockTells
    BY Zenon DEF BlockTells, BlockTold, Tells
  <2> QED
    BY <2>1 DEF Blocks
<1> DEFINE of(i) == CHOOSE e \in envelopes : Marshal(e.env) = b.data[i]
<1>1. MessageInv /\ MadeInv /\ (ConfigBlock(b, n) \/ TransactionBlock(b))
  BY DEF BlockInv, ChainInv
<1>2. PICK envs : envs = [i \in DOMAIN b.data |-> UnmarshalEnvelope(Unmarshal(b.data[i]))]
  OBVIOUS
<1>3. PICK told : told = UnmarshalBlock(b)
  OBVIOUS
<1>4. told = IF Error \in Range(envs) THEN Error ELSE [header |-> b.header, data |-> envs]
  BY <1>2, <1>3 DEF UnmarshalBlock
<1>5. CASE ConfigBlock(b, n)
  <2>1. PICK u : b.data = <<ConfigEnvelope(n - 1, u)>>
    BY <1>5 DEF ConfigBlock
  <2>2. PICK m, env : m = n - 1 /\ env = Unmarshal(ConfigEnvelope(m, u))
    OBVIOUS
  <2>3. PICK cfg : cfg = [config |-> [sequence |-> m], lastUpdate |-> u]
    OBVIOUS
  <2>4. Unmarshal(env.payload).data = Marshal(cfg)
    BY <2>2, <2>3, ConfigReads
  <2>5. DOMAIN cfg = {"config", "lastUpdate"}
    BY <2>3
  <2>6. ~Carries(Marshal(cfg), {"actions"})
    BY <2>5 DEF Carries, Marshal
  <2>7. UnmarshalEnvelope(env) = Error
    BY <2>4, <2>6 DEF UnmarshalEnvelope
  <2>8. envs[1] = Error /\ 1 \in DOMAIN envs
    BY <1>2, <2>1, <2>2, <2>7
  <2>9. told = Error
    BY <1>4, <2>8 DEF Range
  <2> QED
    BY <1>1, <1>3, <1>5, <2>9, KindOfBlock DEF BlockTold
<1>6. CASE TransactionBlock(b)
  <2>1. PICK k \in Nat \ {0} : \E batch \in [1..k -> Transactions] :
          b.data = [i \in 1..k |-> Marshal(batch[i].env)]
    BY <1>6 DEF TransactionBlock
  <2>2. PICK batch \in [1..k -> Transactions] : b.data = [i \in 1..k |-> Marshal(batch[i].env)]
    BY <2>1
  <2>3. DOMAIN b.data = 1..k /\ DOMAIN envs = 1..k
    BY <1>2, <2>2
  <2>4. ASSUME NEW i \in 1..k
        PROVE  /\ ~HasRwSet(of(i)) => envs[i] = Error
               /\ HasRwSet(of(i)) => envs[i] # Error /\ Tells(of(i), envs[i])
    <3>1. PICK e \in Transactions : e = batch[i]
      OBVIOUS
    <3>2. b.data[i] = Marshal(e.env)
      BY <2>2, <3>1
    <3>3. PICK f : f = of(i)
      OBVIOUS
    <3>4. e \in envelopes
      BY DEF Transactions
    <3>5. f \in envelopes /\ Marshal(f.env) = Marshal(e.env)
      BY <3>2, <3>3, <3>4
    <3>6. f.env = e.env
      BY <3>5, Encoded
    <3>7. f \in Transactions
      BY <1>1, <3>5, <3>6, KindOf, TransactionTold
    <3>8. envs[i] = UnmarshalEnvelope(f.env)
      BY <1>2, <2>3, <3>2, <3>6, Encoded
    <3> HIDE DEF of
    <3>9. /\ ~HasRwSet(f) => envs[i] = Error
          /\ HasRwSet(f) => envs[i] # Error /\ Tells(f, envs[i])
      BY <1>1, <3>7, <3>8, TransactionTold
    <3> QED
      BY <3>3, <3>9
  <2> HIDE DEF of
  <2>5. told = Error => \E i \in DOMAIN b.data : ~HasRwSet(of(i))
    <3>1. ASSUME Error \notin Range(envs)  PROVE told # Error
      <4>1. DOMAIN told = {"header", "data"} /\ DOMAIN Error = {"error"}
        BY <1>4, <3>1 DEF Error
      <4> QED
        BY <4>1
    <3>2. Error \in Range(envs) => \E i \in 1..k : envs[i] = Error
      BY <2>3 DEF Range
    <3> QED
      BY <2>3, <2>4, <3>1, <3>2
  <2>6. told # Error => \A i \in DOMAIN b.data : Tells(of(i), told.data[i])
    <3> SUFFICES ASSUME told # Error, NEW i \in 1..k  PROVE Tells(of(i), told.data[i])
      BY <2>3
    <3>1. Error \notin Range(envs) /\ told = [header |-> b.header, data |-> envs]
      BY <1>4
    <3>2. envs[i] # Error /\ told.data[i] = envs[i]
      BY <2>3, <3>1 DEF Range
    <3> QED
      BY <2>4, <3>2
  <2>7. ~IsConfigBlock(b)
    BY <1>1, <1>6, KindOfBlock
  <2> QED
    BY <1>3, <2>5, <2>6, <2>7 DEF of, BlockTold
<1> QED
  BY <1>1, <1>5, <1>6

(* Configurations tell what they are and who signed the update that led to *)
(* them, and no block of transactions is read as one.                      *)
LEMMA ConfigsTell == BlockInv => ConfigTells
<1> SUFFICES ASSUME BlockInv, NEW n \in DOMAIN chain
    PROVE  IF ~IsConfigBlock(chain[n]) THEN UnmarshalConfig(chain[n]) = Error
           ELSE
           LET told == UnmarshalConfig(chain[n]).data[1].payload
               lastUpdate == told.data.lastUpdate
           IN  /\ UnmarshalConfig(chain[n]) # Error
               /\ getBlockConfig(chain[n]) = [sequence |-> n - 1]
               /\ told.header.channelHeader.type = "CONFIG"
               /\ lastUpdate # Absent =>
                    LET sent == CHOOSE e \in envelopes :
                                  /\ TypeOf(e.env) = "CONFIG_UPDATE"
                                  /\ e.env.signature = lastUpdate.signature
                        update == EnvelopeToConfigUpdate(sent.env)
                    IN  /\ Len(lastUpdate.data.signatures) = Len(update.signatures)
                        /\ lastUpdate.data.configUpdate = Unmarshal(update.configUpdate)
                        /\ \A k \in DOMAIN update.signatures :
                             LET s == lastUpdate.data.signatures[k]
                             IN  SignatureIsGood(
                                   s.signature, s.signatureHeader.creator.identity,
                                   <<update.signatures[k].signatureHeader, update.configUpdate>>)
  BY Zenon DEF ConfigTells
<1>1. PICK b : b = chain[n]
  OBVIOUS
<1>2. MessageInv /\ MadeInv /\ (ConfigBlock(b, n) \/ TransactionBlock(b))
  BY <1>1 DEF BlockInv, ChainInv
<1>3. PICK payloads : payloads = [i \in DOMAIN b.data |->
                                    UnmarshalConfigPayload(Unmarshal(b.data[i]).payload)]
  OBVIOUS
<1>4. PICK config : config = UnmarshalConfig(b)
  OBVIOUS
<1>5. config = IF Error \in Range(payloads) THEN Error
               ELSE [header |-> b.header,
                     data |-> [i \in DOMAIN b.data |->
                                 [payload |-> payloads[i],
                                  signature |-> Unmarshal(b.data[i]).signature]]]
  BY <1>3, <1>4 DEF UnmarshalConfig
<1>6. CASE TransactionBlock(b)
  <2>1. PICK k \in Nat \ {0} : \E batch \in [1..k -> Transactions] :
          b.data = [i \in 1..k |-> Marshal(batch[i].env)]
    BY <1>6 DEF TransactionBlock
  <2>2. PICK batch \in [1..k -> Transactions] : b.data = [i \in 1..k |-> Marshal(batch[i].env)]
    BY <2>1
  <2>3. PICK e \in Transactions : e = batch[1]
    OBVIOUS
  <2>4. 1 \in DOMAIN b.data /\ b.data[1] = Marshal(e.env)
    BY <2>2, <2>3
  <2>5. \E tx : Unmarshal(e.env.payload).data = Marshal(tx) /\ DOMAIN tx = {"actions"}
    <3>1. PICK prop, signer, resps : e.env = Assemble(prop, signer, resps)
      BY <1>2 DEF MadeInv, Assembled
    <3>2. PICK tx : tx = TransactionOf(prop, Unmarshal(prop.header), resps)
      OBVIOUS
    <3>3. e.env.payload = Marshal([header |-> Unmarshal(prop.header), data |-> Marshal(tx)])
      BY <3>1, <3>2 DEF Assemble
    <3>4. Unmarshal(e.env.payload).data = Marshal(tx)
      BY <3>3 DEF Marshal, Unmarshal
    <3>5. DOMAIN tx = {"actions"}
      BY <3>2 DEF TransactionOf
    <3> QED
      BY <3>4, <3>5
  <2>6. PICK tx : Unmarshal(e.env.payload).data = Marshal(tx) /\ DOMAIN tx = {"actions"}
    BY <2>5
  <2>7. ~Carries(Marshal(tx), {"config", "lastUpdate"})
    BY <2>6 DEF Carries, Marshal
  <2>8. UnmarshalConfigPayload(e.env.payload) = Error
    BY <2>6, <2>7 DEF UnmarshalConfigPayload, unmarshalPayloadConfigEnvelope
  <2>9. payloads[1] = Error /\ 1 \in DOMAIN payloads
    BY <1>3, <2>4, <2>8, Encoded
  <2>10. config = Error
    BY <1>5, <2>9 DEF Range
  <2>11. ~IsConfigBlock(b)
    BY <1>2, <1>6, KindOfBlock
  <2> QED
    BY <1>1, <1>4, <2>10, <2>11
<1>7. CASE ConfigBlock(b, n)
  <2>1. PICK u : /\ \/ u = Absent
                    \/ \E e \in envelopes : TypeOf(e.env) = "CONFIG_UPDATE" /\ u = e.env
                 /\ b.data = <<ConfigEnvelope(n - 1, u)>>
    BY <1>7 DEF ConfigBlock
  <2>2. PICK m, env : m = n - 1 /\ env = Unmarshal(ConfigEnvelope(m, u))
    OBVIOUS
  <2>3. PICK last : last = IF u = Absent THEN Absent ELSE unmarshalLastUpdate(u)
    OBVIOUS
  <2>4. ASSUME NEW e \in envelopes, TypeOf(e.env) = "CONFIG_UPDATE",
               NEW update, update = Unmarshal(Unmarshal(e.env.payload).data),
               NEW t, t = unmarshalLastUpdate(e.env)
        PROVE  /\ EnvelopeToConfigUpdate(e.env) = update
               /\ t # Error /\ t.signature = e.env.signature
               /\ t.data.configUpdate = Unmarshal(update.configUpdate)
               /\ Len(t.data.signatures) = Len(update.signatures)
               /\ \A k \in DOMAIN update.signatures :
                    LET s == t.data.signatures[k]
                    IN  SignatureIsGood(
                          s.signature, s.signatureHeader.creator.identity,
                          <<update.signatures[k].signatureHeader, update.configUpdate>>)
    <3>1. Sane(e) /\ Cosigned(e.env) /\ Headed(e.env)
      BY <1>2, <2>4, KindOf
    <3>2. Carries(Unmarshal(e.env.payload).data, {"configUpdate", "signatures"})
      BY <3>1 DEF Sane
    <3>3. EnvelopeToConfigUpdate(e.env) = update
      BY <2>4, <3>1, <3>2
      DEF EnvelopeToConfigUpdate, UnmarshalEnvelopeOfType, Headed, TypeOf, ChannelHeaderOf
    <3>4. PICK v : v = e.env
      OBVIOUS
    <3>5. /\ Headed(v) /\ Cosigned(v)
          /\ Carries(Unmarshal(v.payload).data, {"configUpdate", "signatures"})
          /\ update = Unmarshal(Unmarshal(v.payload).data) /\ t = unmarshalLastUpdate(v)
      BY <2>4, <3>1, <3>2, <3>4
    <3>6. /\ t # Error /\ t.signature = v.signature
          /\ t.data.configUpdate = Unmarshal(update.configUpdate)
          /\ Len(t.data.signatures) = Len(update.signatures)
          /\ \A k \in DOMAIN update.signatures :
               LET s == t.data.signatures[k]
               IN  SignatureIsGood(
                     s.signature, s.signatureHeader.creator.identity,
                     <<update.signatures[k].signatureHeader, update.configUpdate>>)
      BY <3>5, ReadUpdate
    <3> QED
      BY <3>3, <3>4, <3>6
  <2>5. last # Error
    <3>1. CASE u = Absent
      <4>1. DOMAIN Absent = {"absent"} /\ DOMAIN Error = {"error"}
        BY DEF Absent, Error
      <4> QED
        BY <2>3, <3>1, <4>1
    <3>2. CASE u # Absent
      BY <2>1, <2>3, <2>4, <3>2
    <3> QED
      BY <3>1, <3>2
  <2>6. PICK told : told = UnmarshalConfigPayload(env.payload)
    OBVIOUS
  <2>7. /\ told # Error /\ told.header.channelHeader.type = "CONFIG"
        /\ told.data.config = [sequence |-> m] /\ told.data.lastUpdate = last
    BY <2>2, <2>3, <2>5, <2>6, ReadConfig
  <2>8. DOMAIN b.data = {1} /\ Unmarshal(b.data[1]) = env
    BY <2>1, <2>2
  <2>9. DOMAIN payloads = {1} /\ payloads[1] = told
    BY <1>3, <2>6, <2>8
  <2>10. Error \notin Range(payloads)
    BY <2>7, <2>9 DEF Range
  <2>11. config = [header |-> b.header,
                   data |-> [i \in DOMAIN b.data |->
                               [payload |-> payloads[i],
                                signature |-> Unmarshal(b.data[i]).signature]]]
    BY <1>5, <2>10
  <2>12. config # Error
    <3>1. DOMAIN config = {"header", "data"} /\ DOMAIN Error = {"error"}
      BY <2>11 DEF Error
    <3> QED
      BY <3>1
  <2>13. config.data[1].payload = told
    BY <2>8, <2>9, <2>11
  <2>14. getBlockConfig(b) = [sequence |-> n - 1]
    BY <1>4, <2>2, <2>7, <2>12, <2>13 DEF getBlockConfig
  <2>15. ASSUME last # Absent
         PROVE  LET sent == CHOOSE e \in envelopes :
                              /\ TypeOf(e.env) = "CONFIG_UPDATE"
                              /\ e.env.signature = last.signature
                    update == EnvelopeToConfigUpdate(sent.env)
                IN  /\ Len(last.data.signatures) = Len(update.signatures)
                    /\ last.data.configUpdate = Unmarshal(update.configUpdate)
                    /\ \A k \in DOMAIN update.signatures :
                         LET s == last.data.signatures[k]
                         IN  SignatureIsGood(
                               s.signature, s.signatureHeader.creator.identity,
                               <<update.signatures[k].signatureHeader, update.configUpdate>>)
    <3>1. PICK e \in envelopes : TypeOf(e.env) = "CONFIG_UPDATE" /\ u = e.env
      BY <2>1, <2>3, <2>15
    <3>2. last = unmarshalLastUpdate(e.env)
      BY <2>3, <2>15, <3>1
    <3>3. PICK sent : sent = CHOOSE f \in envelopes :
                               /\ TypeOf(f.env) = "CONFIG_UPDATE"
                               /\ f.env.signature = last.signature
      OBVIOUS
    <3>4. last.signature = e.env.signature
      BY <2>4, <3>1, <3>2
    <3>5. /\ sent \in envelopes /\ TypeOf(sent.env) = "CONFIG_UPDATE"
          /\ sent.env.signature = e.env.signature
      BY <3>1, <3>3, <3>4
    <3>6. sent.env.payload = e.env.payload
      <4>1. Sane(e) /\ Sane(sent)
        BY <1>2, <3>1, <3>5, KindOf
      <4>2. PICK c : e.env.signature = Sign(c, e.env.payload)
        BY <4>1 DEF Sane, SignatureIsGood
      <4>3. PICK d : sent.env.signature = Sign(d, sent.env.payload)
        BY <4>1 DEF Sane, SignatureIsGood
      <4>4. Sign(c, e.env.payload) = Sign(d, sent.env.payload)
        BY <3>5, <4>2, <4>3
      <4> QED
        BY <4>4 DEF Sign
    <3>7. PICK update : update = Unmarshal(Unmarshal(e.env.payload).data)
      OBVIOUS
    <3>8. EnvelopeToConfigUpdate(sent.env) = update
      BY <2>4, <3>5, <3>6, <3>7
    <3>9. /\ last.data.configUpdate = Unmarshal(update.configUpdate)
          /\ Len(last.data.signatures) = Len(update.signatures)
          /\ \A k \in DOMAIN update.signatures :
               LET s == last.data.signatures[k]
               IN  SignatureIsGood(
                     s.signature, s.signatureHeader.creator.identity,
                     <<update.signatures[k].signatureHeader, update.configUpdate>>)
      BY <2>4, <3>1, <3>2, <3>7
    <3> QED
      BY <3>3, <3>8, <3>9
  <2>16. IsConfigBlock(b)
    BY <1>2, <1>7, KindOfBlock
  <2> QED
    BY <1>1, <1>4, <2>7, <2>12, <2>13, <2>14, <2>15, <2>16
<1> QED
  BY <1>2, <1>6, <1>7

(* What a client reads of any block it is delivered is what the endorsers  *)
(* and the submitters of its envelopes signed, although the envelopes of   *)
(* all clients are mixed by the ordering service and read back by nothing  *)
(* but their bytes; it fails only on a read-write set that does not parse, *)
(* and takes no block for one of the other kind.                           *)
THEOREM DecodersTellTruth == SpecBlocks => []DecodersTell
<1>1. BlockInv => DecodersTell
  BY BlocksTell, ConfigsTell DEF DecodersTell
<1> QED
  BY <1>1, BlocksHold, PTL

-----------------------------------------------------------------------------
(* Definitions. *)

(* There is a greatest of finitely many numbers.                           *)
LEMMA Greatest ==
  ASSUME NEW n \in Nat, NEW C \in SUBSET (0..n), C # {}
  PROVE  \E m \in C : \A d \in C : d <= m
<1> DEFINE T == {n - c : c \in C}
<1>1. T \subseteq Nat /\ T # {}
  <2>1. PICK c \in C : TRUE
    OBVIOUS
  <2>2. n - c \in T
    BY <2>1
  <2>3. \A y \in T : y \in Nat
    OBVIOUS
  <2> QED
    BY <2>2, <2>3
<1>2. PICK x \in T : \A y \in T : ~ (<<y, x>> \in OpToRel(<, Nat))
  BY <1>1, NatLessThanWellFounded, WFMin
<1>3. \A y \in T : ~(y < x)
  BY <1>1, <1>2 DEF OpToRel
<1>4. PICK m \in C : x = n - m
  OBVIOUS
<1>5. ASSUME NEW d \in C  PROVE d <= m
  <2>1. ~(n - d < n - m)
    BY <1>3, <1>4
  <2> QED
    BY <2>1
<1> QED
  BY <1>5

(* A larger set is a majority if the smaller is.                           *)
LEMMA MajorityGrows ==
  ASSUME NEW S, NEW T, S \subseteq T, T \subseteq Org, Majority(S)
  PROVE  Majority(T)
<1>1. IsFiniteSet(T)
  BY OrgAssumption, FS_Subset
<1>2. IsFiniteSet(S) /\ Cardinality(S) <= Cardinality(T)
  BY <1>1, FS_Subset
<1>3. Cardinality(S) \in Nat /\ Cardinality(T) \in Nat /\ Cardinality(Org) \in Nat
  BY <1>1, <1>2, OrgAssumption, FS_CardinalityType
<1> QED
  BY <1>2, <1>3 DEF Majority

Mine(h, o) ==
  {i \in Effective(h, "approve") :
     ledger[i].org = o /\ ledger[i].def.seq = Sequence(h) + 1}

(* ApprovalTx is the greatest of an organization's approvals, or 0.        *)
LEMMA ApprovalIs ==
  ASSUME NEW h \in Nat, NEW o
  PROVE  /\ ApprovalTx(h, o) \in Mine(h, o) \cup {0}
         /\ \A j \in Mine(h, o) : j <= ApprovalTx(h, o)
<1> DEFINE C == Mine(h, o) \cup {0}
<1>1. C \in SUBSET (0..h) /\ C # {}
  BY DEF Mine, Effective
<1>2. PICK m \in C : \A d \in C : d <= m
  BY <1>1, Greatest
<1>3. \E i \in Mine(h, o) \cup {0} : \A j \in Mine(h, o) : j <= i
  BY <1>2
<1> QED
  BY <1>3 DEF ApprovalTx, Mine

(* The sequence of the committed definition counts finitely many           *)
(* transactions.                                                           *)
LEMMA SequenceIsNat ==
  ASSUME NEW h \in Nat  PROVE Sequence(h) \in Nat
<1>1. Effective(h, "commit") \subseteq 1..h
  BY DEF Effective
<1>2. IsFiniteSet(1..h)
  BY FS_Interval
<1> QED
  BY <1>1, <1>2, FS_Subset, FS_CardinalityType DEF Sequence

(* What the first h transactions say does not change as the channel grows. *)
LEMMA Kept ==
  ASSUME ledger \in Seq(Transaction), NEW t, ledger' = Append(ledger, t),
         NEW h \in 0..Len(ledger)
  PROVE  /\ \A i \in 1..h : ledger'[i] = ledger[i]
         /\ \A op : Effective(h, op)' = Effective(h, op)
         /\ \A o : ApprovalTx(h, o)' = ApprovalTx(h, o)
<1>1. \A i \in 1..h : ledger'[i] = ledger[i]
  OBVIOUS
<1>2. ASSUME NEW op  PROVE Effective(h, op)' = Effective(h, op)
  BY <1>1 DEF Effective
<1>3. Sequence(h)' = Sequence(h)
  BY <1>2 DEF Sequence
<1>4. ASSUME NEW o  PROVE Mine(h, o)' = Mine(h, o)
  <2>1. \A i \in Effective(h, "approve") : ledger'[i] = ledger[i]
    BY <1>1 DEF Effective
  <2>2. Effective(h, "approve")' = Effective(h, "approve")
    BY <1>2
  <2> HIDE DEF Mine
  <2>3. Mine(h, o)' = {i \in Effective(h, "approve")' :
            ledger'[i].org = o /\ ledger'[i].def.seq = Sequence(h)' + 1}
    BY DEF Mine
  <2>4. Mine(h, o)' = {i \in Effective(h, "approve") :
            ledger'[i].org = o /\ ledger'[i].def.seq = Sequence(h) + 1}
    BY <1>3, <2>2, <2>3
  <2> QED
    BY <2>1, <2>4 DEF Mine
<1>5. ASSUME NEW o  PROVE ApprovalTx(h, o)' = ApprovalTx(h, o)
  BY <1>4 DEF ApprovalTx, Mine
<1> QED
  BY <1>1, <1>2, <1>5

(* What a peer has approved for another is a definition, and it is that    *)
(* organization's last approval that says so.                              *)
LEMMA ApprovalSays ==
  ASSUME TypeOK, NEW h \in 0..Len(ledger), NEW o \in Org
  PROVE  /\ Approval(h, o) \in Request \cup {None}
         /\ ApprovalTx(h, o) \in 0..h
         /\ Approval(h, o) # None =>
              ApprovalTx(h, o) # 0 /\ ledger[ApprovalTx(h, o)].def = Approval(h, o)
<1>1. ApprovalTx(h, o) \in Mine(h, o) \cup {0}
  BY ApprovalIs DEF TypeOK
<1>2. ApprovalTx(h, o) \in 0..h
  BY <1>1 DEF Mine, Effective
<1>3. CASE ApprovalTx(h, o) = 0
  BY <1>2, <1>3 DEF Approval
<1>4. CASE ApprovalTx(h, o) # 0
  <2>1. ApprovalTx(h, o) \in 1..Len(ledger)
    BY <1>2, <1>4 DEF TypeOK
  <2>2. ledger[ApprovalTx(h, o)] \in Transaction
    BY <2>1 DEF TypeOK
  <2>3. ledger[ApprovalTx(h, o)].def \in Request
    BY <2>2 DEF Transaction
  <2> QED
    BY <1>2, <1>4, <2>3 DEF Approval
<1> QED
  BY <1>3, <1>4

(* What a peer sees at its height is a sequence and the approvals of all.  *)
LEMMA ViewIsTyped ==
  ASSUME TypeOK, NEW h \in 0..Len(ledger), NEW op  PROVE View(op, h) \in Views
<1>1. Sequence(h) \in Nat
  BY SequenceIsNat DEF TypeOK
<1>2. [o \in Org |-> Approval(h, o)] \in [Org -> Request \cup {None}]
  BY ApprovalSays
<1> QED
  BY <1>1, <1>2 DEF View, Views

(* Before the first call there is nothing to be wrong about.               *)
LEMMA InitCaller == Init => CallerInv /\ CommittedWasMeant
<1> SUFFICES ASSUME Init  PROVE CallerInv /\ CommittedWasMeant
  OBVIOUS
<1>1. TypeOK
  BY DEF Init, TypeOK
<1>2. Calls = {} /\ NilMeansEffective
  BY DEF Init, Calls, NilMeansEffective
<1>3. Effective(Len(ledger), "commit") = {}
  BY DEF Init, Effective
<1>4. DOMAIN ledger = {}
  BY DEF Init
<1> QED
  BY <1>1, <1>2, <1>3, <1>4 DEF CallerInv, CommittedWasMeant

(* The arguments are what is asked for, as far as it parses.               *)
LEMMA ArgsMean ==
  ASSUME NEW op \in {"approve", "commit"}, NEW d \in Definition, Args(op, d) # None
  PROVE  Args(op, d) \in Request /\ Means(d, Args(op, d))
<1>1. d \in Request
  BY DefinitionAssumption
<1>2. CASE op = "approve"
  BY <1>1, <1>2 DEF Args, ApproveArgs, Means, Request
<1>3. CASE op = "commit"
  BY <1>1, <1>3 DEF Args, CommitArgs, Means
<1> QED
  BY <1>2, <1>3

(* A step that leaves the ledger alone keeps the invariant if the calls    *)
(* and results it changes are as the invariant wants them.                 *)
LEMMA LedgerStays ==
  ASSUME CallerInv, CommittedWasMeant, UNCHANGED ledger
  PROVE  /\ CommittedWasMeant'
         /\ \A i \in DOMAIN ledger' : Means(ledger'[i].asked, ledger'[i].def)
<1>1. \A h, op : Effective(h, op)' = Effective(h, op)
  BY DEF Effective
<1>2. \A h : Sequence(h)' = Sequence(h)
  BY <1>1 DEF Sequence
<1>3. \A h, o : ApprovalTx(h, o)' = ApprovalTx(h, o)
  BY <1>1, <1>2 DEF ApprovalTx
<1>4. Len(ledger)' = Len(ledger)
  OBVIOUS
<1>5. CommittedWasMeant'
  BY <1>1, <1>3, <1>4 DEF CommittedWasMeant
<1> QED
  BY <1>5 DEF CallerInv

(* Ending a call.                                                          *)
LEMMA FailStep ==
  ASSUME CallerInv, CommittedWasMeant, NEW o \in Org, Fail(o), UNCHANGED <<ledger, height>>
  PROVE  CallerInv' /\ CommittedWasMeant'
<1>1. CommittedWasMeant' /\ \A i \in DOMAIN ledger' : Means(ledger'[i].asked, ledger'[i].def)
  BY LedgerStays
<1>2. TypeOK'
  BY DEF CallerInv, TypeOK, Fail, Call
<1>3. NilMeansEffective'
  BY DEF CallerInv, TypeOK, Fail, NilMeansEffective
<1>4. ASSUME NEW q \in Calls'  PROVE CallInHand(q, call[q])'
  <2>1. q \in Calls /\ call'[q] = call[q]
    BY DEF CallerInv, TypeOK, Fail, Calls
  <2>2. CallInHand(q, call[q])
    BY <2>1 DEF CallerInv
  <2> QED
    BY <2>1, <2>2 DEF CallInHand, Seen
<1> QED
  BY <1>1, <1>2, <1>3, <1>4 DEF CallerInv

(* A call that starts asks for what its caller asked for and has seen      *)
(* nothing.                                                                *)
LEMMA StartStep ==
  ASSUME CallerInv, CommittedWasMeant, NEW o \in Org, NEW op \in {"approve", "commit"},
         NEW d \in Definition, NEW t \in Timed,
         NEW peers \in Endorsers \cup {{q} : q \in Org}, Start(o, op, d, t, peers)
  PROVE  CallerInv' /\ CommittedWasMeant'
<1> DEFINE c == [op |-> op, asked |-> d, args |-> Args(op, d), timed |-> t,
                 peers |-> peers, left |-> peers, views |-> {}, tx |-> 0]
<1>0. UNCHANGED <<ledger, height>> /\ result' = [result EXCEPT ![o] = None]
  BY DEF Start
<1>1. CommittedWasMeant' /\ \A i \in DOMAIN ledger' : Means(ledger'[i].asked, ledger'[i].def)
  BY <1>0, LedgerStays
<1>2. NilMeansEffective'
  BY <1>0 DEF CallerInv, TypeOK, NilMeansEffective
<1>3. CASE call' = call
  <2>1. TypeOK'
    BY <1>0, <1>3 DEF CallerInv, TypeOK, Call
  <2>2. ASSUME NEW q \in Calls'  PROVE CallInHand(q, call[q])'
    BY <1>0, <1>3 DEF CallerInv, Calls, CallInHand, Seen
  <2> QED
    BY <1>1, <1>2, <2>1, <2>2 DEF CallerInv
<1>4. CASE Args(op, d) # None /\ call' = [call EXCEPT ![o] = c]
  <2>1. Args(op, d) \in Request /\ Means(d, Args(op, d))
    BY <1>4, ArgsMean
  <2>2. peers \in SUBSET Org
    BY EndorsersAssumption
  <2>3. c \in Call
    BY <2>1, <2>2 DEF Call, CallerInv, TypeOK
  <2>4. TypeOK'
    BY <1>0, <1>4, <2>3 DEF CallerInv, TypeOK, Call
  <2>5. ASSUME NEW q \in Calls'  PROVE CallInHand(q, call[q])'
    <3>1. CASE q = o
      <4>1. call'[q] = c
        BY <1>4, <3>1 DEF CallerInv, TypeOK
      <4> QED
        BY <2>1, <4>1 DEF CallInHand
    <3>2. CASE q # o
      <4>1. q \in Calls /\ call'[q] = call[q]
        BY <1>4, <3>2 DEF CallerInv, TypeOK, Calls
      <4>2. CallInHand(q, call[q])
        BY <4>1 DEF CallerInv
      <4> QED
        BY <1>0, <4>1, <4>2 DEF CallInHand, Seen
    <3> QED
      BY <3>1, <3>2
  <2> QED
    BY <1>1, <1>2, <2>4, <2>5 DEF CallerInv
<1> QED
  BY <1>3, <1>4 DEF Start

(* An endorsement of a call is what that peer sees of the channel now; a   *)
(* mismatch ends the call.                                                 *)
LEMMA EndorseStep ==
  ASSUME CallerInv, CommittedWasMeant, NEW o \in Org, NEW p \in Org, Endorse(o, p)
  PROVE  CallerInv' /\ CommittedWasMeant'
<1>0. UNCHANGED <<ledger, height>> /\ call[o] # None /\ call[o] \in Call /\ o \in Calls
  BY DEF Endorse, CallerInv, TypeOK, Calls
<1> DEFINE old == call[o]
           view == View(old.op, height[p])
<1>1. CASE Fail(o)
  BY <1>0, <1>1, FailStep
<1>2. CASE /\ Endorsable(old.op, old.args, height[p])
           /\ call' = [call EXCEPT ![o].left = @ \ {p}, ![o].views = @ \cup {view}]
           /\ UNCHANGED result
  <2>1. CommittedWasMeant' /\ \A i \in DOMAIN ledger' : Means(ledger'[i].asked, ledger'[i].def)
    BY <1>0, LedgerStays
  <2>2. NilMeansEffective'
    BY <1>0, <1>2 DEF CallerInv, NilMeansEffective
  <2>3. call' = [call EXCEPT ![o] = [old EXCEPT !.left = @ \ {p}, !.views = @ \cup {view}]]
    BY <1>2 DEF CallerInv, TypeOK
  <2> DEFINE new == [old EXCEPT !.left = @ \ {p}, !.views = @ \cup {view}]
  <2>4. view \in Views
    BY ViewIsTyped DEF CallerInv, TypeOK
  <2>5. new \in Call
    BY <1>0, <2>4 DEF Call
  <2>6. TypeOK'
    BY <1>0, <1>2, <2>3, <2>5 DEF CallerInv, TypeOK, Call
  <2>7. CallInHand(o, old)
    BY <1>0 DEF CallerInv
  <2>8. Seen(old, view)
    BY <1>2 DEF Seen, View, Endorsable
  <2>9. ASSUME NEW q \in Calls'  PROVE CallInHand(q, call[q])'
    <3>1. CASE q = o
      <4>1. call'[q] = new
        BY <2>3, <3>1 DEF CallerInv, TypeOK
      <4>2. /\ new.asked = old.asked /\ new.args = old.args /\ new.op = old.op
            /\ new.tx = old.tx /\ new.views = old.views \cup {view}
        BY <1>0 DEF Call
      <4>3. \A v \in new.views : Seen(new, v)
        BY <2>7, <2>8, <4>2 DEF CallInHand, Seen
      <4> QED
        BY <1>0, <2>7, <3>1, <4>1, <4>2, <4>3 DEF CallInHand, Seen
    <3>2. CASE q # o
      <4>1. q \in Calls /\ call'[q] = call[q]
        BY <2>3, <3>2 DEF CallerInv, TypeOK, Calls
      <4>2. CallInHand(q, call[q])
        BY <4>1 DEF CallerInv
      <4> QED
        BY <1>0, <4>1, <4>2 DEF CallInHand, Seen
    <3> QED
      BY <3>1, <3>2
  <2> QED
    BY <2>1, <2>2, <2>6, <2>9 DEF CallerInv
<1> QED
  BY <1>1, <1>2 DEF Endorse

(* A call waits for its own transaction, and returns nil when the last of  *)
(* its peers has it.                                                       *)
LEMMA WaitStep ==
  ASSUME CallerInv, CommittedWasMeant, NEW o \in Org, Wait(o)
  PROVE  CallerInv' /\ CommittedWasMeant'
<1>0. UNCHANGED <<ledger, height>> /\ call[o] # None /\ call[o] \in Call /\ o \in Calls
  BY DEF Wait, CallerInv, TypeOK, Calls
<1>1. CASE Fail(o)
  BY <1>0, <1>1, FailStep
<1>2. CASE ledger[call[o].tx].valid /\ Succeed(o, call[o].tx)
  <2>1. CommittedWasMeant' /\ \A i \in DOMAIN ledger' : Means(ledger'[i].asked, ledger'[i].def)
    BY <1>0, LedgerStays
  <2>2. call[o].tx \in 1..Len(ledger) /\ call[o].peers \in SUBSET Org
    BY <1>0 DEF Wait, Call, CallerInv, TypeOK
  <2>3. TypeOK'
    BY <1>0, <1>2, <2>2 DEF CallerInv, TypeOK, Succeed, Call
  <2>4. ledger[call[o].tx].org = o
    BY <1>0 DEF CallerInv, CallInHand, Wait
  <2>5. NilMeansEffective'
    BY <1>0, <1>2, <2>2, <2>4 DEF CallerInv, TypeOK, Wait, Succeed, NilMeansEffective
  <2>6. ASSUME NEW q \in Calls'  PROVE CallInHand(q, call[q])'
    <3>1. q \in Calls /\ call'[q] = call[q]
      BY <1>2 DEF CallerInv, TypeOK, Succeed, Calls
    <3>2. CallInHand(q, call[q])
      BY <3>1 DEF CallerInv
    <3> QED
      BY <1>0, <3>1, <3>2 DEF CallInHand, Seen
  <2> QED
    BY <2>1, <2>3, <2>5, <2>6 DEF CallerInv
<1> QED
  BY <1>1, <1>2 DEF Wait

(* A peer that commits a transaction changes no call.                      *)
LEMMA AdvanceStep ==
  ASSUME CallerInv, CommittedWasMeant, NEW p \in Org, Advance(p)
  PROVE  CallerInv' /\ CommittedWasMeant'
<1>1. CommittedWasMeant' /\ \A i \in DOMAIN ledger' : Means(ledger'[i].asked, ledger'[i].def)
  BY LedgerStays DEF Advance
<1>2. TypeOK'
  BY DEF CallerInv, TypeOK, Advance, Call
<1>3. \A q \in Org : height'[q] >= height[q]
  BY DEF CallerInv, TypeOK, Advance
<1>4. NilMeansEffective'
  BY <1>3 DEF CallerInv, TypeOK, Advance, NilMeansEffective
<1>5. ASSUME NEW q \in Calls'  PROVE CallInHand(q, call[q])'
  BY DEF CallerInv, Advance, Calls, CallInHand, Seen
<1> QED
  BY <1>1, <1>2, <1>4, <1>5 DEF CallerInv

(* What ordering a transaction adds to the channel.                        *)
LEMMA OrderedIs ==
  ASSUME CallerInv, NEW o \in Org, Endorsed(o), Ordered(o)
  PROVE  /\ ledger' \in Seq(Transaction) /\ Len(ledger') = Len(ledger) + 1
         /\ \E t \in Transaction : ledger' = Append(ledger, t)
         /\ \A i \in 1..Len(ledger) : ledger'[i] = ledger[i]
         /\ ledger'[Len(ledger')].org = o
         /\ \A i \in DOMAIN ledger' : Means(ledger'[i].asked, ledger'[i].def)
<1>0. ledger \in Seq(Transaction) /\ call[o] \in Call /\ o \in Calls
  BY DEF CallerInv, TypeOK, Endorsed, Calls
<1>1. PICK view \in call[o].views : ledger' = Append(ledger, Tx(o, call[o], view))
  BY DEF Ordered
<1> DEFINE t == Tx(o, call[o], view)
<1>2. t \in Transaction /\ t.org = o /\ t.asked = call[o].asked /\ t.def = call[o].args
  BY <1>0 DEF Tx, Transaction, Call
<1>3. Means(t.asked, t.def)
  BY <1>0, <1>2 DEF CallerInv, CallInHand
<1>4. \A i \in DOMAIN ledger : Means(ledger[i].asked, ledger[i].def)
  BY DEF CallerInv
<1> HIDE DEF t
<1>5. /\ ledger' \in Seq(Transaction) /\ Len(ledger') = Len(ledger) + 1
      /\ \A i \in 1..Len(ledger) : ledger'[i] = ledger[i]
      /\ ledger'[Len(ledger')] = t
      /\ DOMAIN ledger' = 1..(Len(ledger) + 1) /\ DOMAIN ledger = 1..Len(ledger)
      /\ Len(ledger) \in Nat
  BY <1>0, <1>1, <1>2 DEF t
<1>6. ASSUME NEW i \in DOMAIN ledger'  PROVE Means(ledger'[i].asked, ledger'[i].def)
  <2>1. CASE i \in DOMAIN ledger
    BY <1>4, <1>5, <2>1
  <2>2. CASE i = Len(ledger')
    BY <1>3, <1>5, <2>2
  <2> QED
    BY <1>5, <2>1, <2>2
<1> QED
  BY <1>1, <1>2, <1>5, <1>6 DEF t

(* What the members meant by the transactions there already.               *)
LEMMA EarlierStillMeant ==
  ASSUME CallerInv, CommittedWasMeant, NEW o \in Org, Endorsed(o), Ordered(o),
         NEW i \in Effective(Len(ledger), "commit")
  PROVE  Majority({q \in Org : LET j == ApprovalTx(i - 1, q) IN
                     j # 0 /\ Means(ledger[j].asked, ledger[i].def)})'
<1>0. ledger \in Seq(Transaction) /\ Len(ledger) \in Nat
  BY DEF CallerInv, TypeOK
<1>1. PICK t \in Transaction : ledger' = Append(ledger, t)
  BY OrderedIs
<1>2. i \in 1..Len(ledger) /\ i - 1 \in 0..Len(ledger) /\ i - 1 \in Nat
  BY <1>0 DEF Effective
<1>3. \A q : ApprovalTx(i - 1, q)' = ApprovalTx(i - 1, q)
  BY <1>0, <1>1, <1>2, Kept
<1>4. ledger'[i] = ledger[i]
  BY <1>0, <1>1, <1>2, OrderedIs
<1>5. ASSUME NEW q \in Org, ApprovalTx(i - 1, q) # 0
      PROVE  ledger'[ApprovalTx(i - 1, q)] = ledger[ApprovalTx(i - 1, q)]
  <2>1. ApprovalTx(i - 1, q) \in 1..Len(ledger)
    BY <1>0, <1>2, <1>5, ApprovalSays DEF CallerInv
  <2> QED
    BY <2>1, OrderedIs
<1> DEFINE S == {q \in Org : ApprovalTx(i - 1, q) # 0
                   /\ Means(ledger[ApprovalTx(i - 1, q)].asked, ledger[i].def)}
           T == {q \in Org : ApprovalTx(i - 1, q)' # 0
                   /\ Means(ledger'[ApprovalTx(i - 1, q)'].asked, ledger'[i].def)}
<1>6. Majority(S)
  BY DEF CommittedWasMeant
<1>7. S \subseteq T /\ T \subseteq Org
  BY <1>3, <1>4, <1>5
<1>8. Majority(T)
  BY <1>6, <1>7, MajorityGrows
<1> QED
  BY <1>8 DEF Majority

(* What takes effect now, a majority approved on the ledger as it is.      *)
LEMMA NewIsMeant ==
  ASSUME CallerInv, CommittedWasMeant, NEW o \in Org, Endorsed(o), Ordered(o),
         NEW n \in Nat, n = Len(ledger), n + 1 \in Effective(n + 1, "commit")'
  PROVE  Majority({q \in Org : LET j == ApprovalTx(n, q)' IN
                     j # 0 /\ Means(ledger'[j].asked, ledger'[n + 1].def)})
<1> DEFINE c == call[o]
<1>0. /\ ledger \in Seq(Transaction) /\ n \in 0..Len(ledger)
      /\ c \in Call /\ o \in Calls /\ CallInHand(o, c)
  BY DEF CallerInv, TypeOK, Endorsed, Calls
<1>1. PICK view \in c.views : ledger' = Append(ledger, Tx(o, c, view))
  BY DEF Ordered
<1>2. ledger'[n + 1] = Tx(o, c, view)
  BY <1>0, <1>1
<1>3. c.op = "commit" /\ view = View("commit", n)
  <2>1. ledger'[n + 1].op = "commit" /\ ledger'[n + 1].valid
    BY DEF Effective
  <2>2. Tx(o, c, view).op = c.op /\ Tx(o, c, view).valid = (view = View(c.op, Len(ledger)))
    BY DEF Tx
  <2>3. c.op = "commit"
    BY <1>2, <2>1, <2>2
  <2>4. view = View(c.op, Len(ledger))
    BY <1>2, <2>1, <2>2
  <2> QED
    BY <2>3, <2>4
<1>4. Majority({q \in Org : view.approvals[q] = c.args})
  BY <1>0, <1>3 DEF CallInHand, Seen
<1>5. \A q \in Org : view.approvals[q] = Approval(n, q)
  BY <1>3 DEF View
<1>6. c.args \in Request /\ c.args # None
  BY <1>0, NoneAssumption DEF Call
<1>7. \A q : ApprovalTx(n, q)' = ApprovalTx(n, q)
  BY <1>0, <1>1, Kept
<1> DEFINE S == {q \in Org : view.approvals[q] = c.args}
           T == {q \in Org : ApprovalTx(n, q)' # 0
                   /\ Means(ledger'[ApprovalTx(n, q)'].asked, ledger'[n + 1].def)}
<1>8. ASSUME NEW q \in S  PROVE q \in T
  <2> DEFINE j == ApprovalTx(n, q)
  <2>1. Approval(n, q) = c.args /\ q \in Org
    BY <1>5
  <2>2. j # 0 /\ ledger[j].def = c.args /\ j \in 1..n
    BY <1>0, <1>6, <2>1, ApprovalSays DEF CallerInv
  <2> HIDE DEF j
  <2>3. Means(ledger[j].asked, c.args)
    BY <1>0, <2>2 DEF CallerInv
  <2>4. ledger'[j] = ledger[j]
    BY <2>2, OrderedIs
  <2>5. ledger'[n + 1].def = c.args
    BY <1>2 DEF Tx
  <2> QED
    BY <1>7, <2>1, <2>2, <2>3, <2>4, <2>5 DEF j
<1>9. Majority(T)
  BY <1>4, <1>8, MajorityGrows
<1> QED
  BY <1>9 DEF Majority

(* Ordering keeps what took effect meant, and adds nothing that is not.    *)
LEMMA OrderedWasMeant ==
  ASSUME CallerInv, CommittedWasMeant, NEW o \in Org, Endorsed(o), Ordered(o)
  PROVE  CommittedWasMeant'
<1>0. ledger \in Seq(Transaction) /\ Len(ledger) \in Nat
  BY DEF CallerInv, TypeOK
<1>1. PICK n \in Nat : n = Len(ledger)
  BY <1>0
<1>2. Len(ledger') = n + 1 /\ \A i \in 1..n : ledger'[i] = ledger[i]
  BY <1>1, OrderedIs
<1>3. ASSUME NEW i \in Effective(n + 1, "commit")'
      PROVE Majority({q \in Org : LET j == ApprovalTx(i - 1, q)' IN
                        j # 0 /\ Means(ledger'[j].asked, ledger'[i].def)})
  <2>1. i \in 1..(n + 1) /\ ledger'[i].op = "commit" /\ ledger'[i].valid
    BY DEF Effective
  <2>2. CASE i \in 1..n
    <3>1. i \in Effective(n, "commit")
      BY <1>2, <2>1, <2>2 DEF Effective
    <3> QED
      BY <1>1, <3>1, EarlierStillMeant DEF Majority
  <2>3. CASE i = n + 1
    <3>1. i - 1 = n
      BY <2>3
    <3>2. n + 1 \in Effective(n + 1, "commit")'
      BY <2>3
    <3> QED
      BY <1>1, <2>3, <3>1, <3>2, NewIsMeant
  <2> QED
    BY <2>1, <2>2, <2>3
<1>4. \A i \in Effective(n + 1, "commit")' :
        Majority({q \in Org : LET j == ApprovalTx(i - 1, q)' IN
                    j # 0 /\ Means(ledger'[j].asked, ledger'[i].def)})
  BY <1>3
<1> QED
  BY <1>2, <1>4 DEF CommittedWasMeant, Majority

(* A transaction more, and o's call as far as that takes it.               *)
LEMMA OrderedStep ==
  ASSUME CallerInv, CommittedWasMeant, NEW o \in Org, Endorsed(o),
         Ordered(o), UNCHANGED height,
         \/ Fail(o)
         \/ ~call[o].timed /\ Succeed(o, Len(ledger'))
         \/ call' = [call EXCEPT ![o].tx = Len(ledger')] /\ UNCHANGED result
  PROVE  CallerInv' /\ CommittedWasMeant'
<1> DEFINE n == Len(ledger)
<1>0. ledger \in Seq(Transaction) /\ n \in Nat /\ call[o] \in Call /\ o \in Calls
  BY DEF CallerInv, TypeOK, Endorsed, Calls
<1>1. CommittedWasMeant'
  BY OrderedWasMeant
<1>2. /\ ledger' \in Seq(Transaction) /\ Len(ledger') = n + 1
      /\ \A i \in 1..n : ledger'[i] = ledger[i]
      /\ ledger'[Len(ledger')].org = o
      /\ \A i \in DOMAIN ledger' : Means(ledger'[i].asked, ledger'[i].def)
  BY OrderedIs
<1>3. \A q \in Org : call[q] \in Call => call[q] \in Call'
  BY <1>0, <1>2 DEF Call
<1>4. [call[o] EXCEPT !.tx = n + 1] \in Call'
  <2>1. n + 1 \in 0..Len(ledger')
    BY <1>0, <1>2
  <2>2. call[o] \in Call'
    BY <1>0, <1>3
  <2> QED
    BY <2>1, <2>2 DEF Call
<1>5. call' \in [Org -> Call' \cup {None}]
  <2>1. CASE call' = [call EXCEPT ![o] = None]
    BY <1>3, <2>1 DEF CallerInv, TypeOK
  <2>2. CASE call' = [call EXCEPT ![o].tx = Len(ledger')]
    BY <1>2, <1>3, <1>4, <2>2 DEF CallerInv, TypeOK
  <2> QED
    BY <2>1, <2>2 DEF Fail, Succeed
<1>6. \A q \in Org : result'[q] = result[q] \/ result'[q] = None
  BY DEF Fail, Succeed, CallerInv, TypeOK
<1>7. result' \in [Org -> [tx : 1..Len(ledger'), peers : SUBSET Org] \cup {None}]
  <2>1. DOMAIN result' = Org /\ result' = [q \in Org |-> result'[q]]
    BY DEF Fail, Succeed, CallerInv, TypeOK
  <2>2. \A q \in Org : result[q] \in [tx : 1..Len(ledger'), peers : SUBSET Org] \cup {None}
    BY <1>0, <1>2 DEF CallerInv, TypeOK
  <2> QED
    BY <1>6, <2>1, <2>2
<1>8. TypeOK'
  <2>1. height' \in [Org -> 0..Len(ledger')]
    BY <1>0, <1>2 DEF CallerInv, TypeOK
  <2> QED
    BY <1>2, <1>5, <1>7, <2>1 DEF TypeOK
<1>9. NilMeansEffective'
  <2> SUFFICES ASSUME NEW q \in Org, result'[q] # None
      PROVE  /\ ledger'[result'[q].tx].org = q /\ ledger'[result'[q].tx].valid
             /\ \A p \in result'[q].peers : height'[p] >= result'[q].tx
    BY DEF NilMeansEffective
  <2>1. result'[q] = result[q] /\ result[q] # None
    BY <1>6
  <2>2. result[q].tx \in 1..n
    BY <2>1 DEF CallerInv, TypeOK
  <2> QED
    BY <1>2, <2>1, <2>2 DEF CallerInv, NilMeansEffective
<1>10. ASSUME NEW q \in Calls'  PROVE CallInHand(q, call[q])'
  <2>1. CASE q # o \/ call'[q] = call[q]
    <3>1. q \in Calls /\ call'[q] = call[q]
      BY <2>1 DEF CallerInv, TypeOK, Fail, Succeed, Calls
    <3>2. CallInHand(q, call[q]) /\ call[q].tx \in 0..n
      BY <3>1 DEF CallerInv, TypeOK, Calls, Call
    <3>3. \A v \in call[q].views : Seen(call[q], v)'
      BY <3>1, <3>2 DEF CallInHand, Seen, Majority
    <3>4. call[q].tx # 0 => ledger'[call[q].tx].org = q
      BY <1>0, <1>2, <3>2 DEF CallInHand
    <3> QED
      BY <3>1, <3>2, <3>3, <3>4 DEF CallInHand
  <2>2. CASE q = o /\ call' = [call EXCEPT ![o].tx = Len(ledger')]
    <3>1. call'[o] = [call[o] EXCEPT !.tx = Len(ledger')]
      BY <2>2 DEF CallerInv, TypeOK
    <3>2. /\ call'[o].tx = Len(ledger') /\ call'[o].asked = call[o].asked
          /\ call'[o].args = call[o].args /\ call'[o].op = call[o].op
          /\ call'[o].views = call[o].views
      BY <1>0, <3>1 DEF Call
    <3>3. CallInHand(o, call[o])
      BY <1>0 DEF CallerInv
    <3>4. \A v \in call[o].views : Seen(call[o], v)
      BY <3>3 DEF CallInHand
    <3>5. \A v \in call'[o].views : Seen(call[o], v)'
      BY <3>2, <3>4 DEF Seen, Majority
    <3> QED
      BY <1>2, <2>2, <3>2, <3>3, <3>5 DEF CallInHand
  <2>3. q # o \/ call' = [call EXCEPT ![o].tx = Len(ledger')]
    BY DEF CallerInv, TypeOK, Fail, Succeed, Calls
  <2> QED
    BY <2>1, <2>2, <2>3
<1> QED
  BY <1>1, <1>2, <1>8, <1>9, <1>10 DEF CallerInv

(* One step of any call, of the orderer or of a peer.                      *)
LEMMA NextCaller ==
  CallerInv /\ CommittedWasMeant /\ [Next]_vars => CallerInv' /\ CommittedWasMeant'
<1> SUFFICES ASSUME CallerInv, CommittedWasMeant, [Next]_vars
    PROVE CallerInv' /\ CommittedWasMeant'
  OBVIOUS
<1>1. CASE \E o \in Org, op \in {"approve", "commit"}, d \in Definition, t \in Timed,
             peers \in Endorsers \cup {{q} : q \in Org} : Start(o, op, d, t, peers)
  BY <1>1, StartStep
<1>2. CASE \E o, p \in Org : Endorse(o, p)
  BY <1>2, EndorseStep
<1>3. ASSUME NEW o \in Org, Mismatch(o)  PROVE CallerInv' /\ CommittedWasMeant'
  BY <1>3, FailStep DEF Mismatch
<1>4. ASSUME NEW o \in Org, Broadcast(o)  PROVE CallerInv' /\ CommittedWasMeant'
  BY <1>4, OrderedStep DEF Broadcast
<1>5. ASSUME NEW o \in Org, AckLost(o)  PROVE CallerInv' /\ CommittedWasMeant'
  <2>1. CASE Ordered(o)
    BY <1>5, <2>1, OrderedStep DEF AckLost
  <2>2. CASE UNCHANGED ledger
    BY <1>5, <2>2, FailStep DEF AckLost
  <2> QED
    BY <1>5, <2>1, <2>2 DEF AckLost
<1>6. ASSUME NEW o \in Org, Wait(o)  PROVE CallerInv' /\ CommittedWasMeant'
  BY <1>6, WaitStep
<1>7. ASSUME NEW o \in Org, Timeout(o)  PROVE CallerInv' /\ CommittedWasMeant'
  BY <1>7, FailStep DEF Timeout
<1>8. ASSUME NEW p \in Org, Advance(p)  PROVE CallerInv' /\ CommittedWasMeant'
  BY <1>8, AdvanceStep
<1>9. CASE UNCHANGED vars
  <2>1. CommittedWasMeant' /\ \A i \in DOMAIN ledger' : Means(ledger'[i].asked, ledger'[i].def)
    BY <1>9, LedgerStays DEF vars
  <2>2. TypeOK' /\ NilMeansEffective'
    BY <1>9 DEF vars, CallerInv, TypeOK, NilMeansEffective, Call
  <2>3. ASSUME NEW q \in Calls'  PROVE CallInHand(q, call[q])'
    BY <1>9 DEF vars, CallerInv, Calls, CallInHand, Seen
  <2> QED
    BY <2>1, <2>2, <2>3 DEF CallerInv
<1> QED
  BY <1>1, <1>2, <1>3, <1>4, <1>5, <1>6, <1>7, <1>8, <1>9 DEF Next

(* The two invariants hold together: what takes effect depends on what     *)
(* calls in hand have seen.                                                *)
LEMMA CallerAndMeant == Spec => [](CallerInv /\ CommittedWasMeant)
BY InitCaller, NextCaller, PTL DEF Spec

(* For any organizations, definitions and named endorsers: a call sends    *)
(* the definition it was asked for, approvals and commits refer to what    *)
(* all its endorsers saw, and nil from a call with a timeout means that    *)
(* its own transaction took effect and that every peer it named has it.    *)
THEOREM CallersRely == Spec => []CallerInv
BY CallerAndMeant, PTL

(* A definition takes effect only if the last requests of a majority asked *)
(* for it, whatever calls of other organizations came in between, at       *)
(* whatever heights the peers endorsed, and however often an approval was  *)
(* replaced.                                                               *)
THEOREM MembersMeantIt == Spec => []CommittedWasMeant
BY CallerAndMeant, PTL
================================================================================
