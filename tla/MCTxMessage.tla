------------------------------ MODULE MCTxMessage ------------------------------
EXTENDS BlockDecode, TLC

CONSTANTS nsA, collA, key1, val1, otherChannel, update1

(* One identity is a prefix extension of the other, so that concatenations *)
(* with nonces of different lengths would collide.                         *)
MCCreator == {<<0>>, <<1, 0>>}
MCOrderer == <<1, 1>>

(* A read-write set with a collection, in bytes; and something else. *)
MCSimulated == {
  <<[nameSpace |-> nsA,
     kvRwSet |-> [reads |-> <<NewKVRead(key1, <<1, 0>>)>>,
                  writes |-> <<newKVWrite(key1, Nil)>>],
     collHashedRwSets |->
       <<[collectionName |-> collA, pvtRwSetHash |-> Sha256(val1),
          hashedRwSet |->
            [hashedReads |-> <<>>,
             hashedWrites |-> <<newPvtKVWriteAndHash(key1, Empty)[2]>>]]>>]>>}
MCResult ==
  {TxRwSetToProtoBytes(t) : t \in MCSimulated} \cup {Marshal([other |-> val1])}

(* Updates of this channel and of another, signed already or not; with no  *)
(* channel, without a header, and an envelope that is no update.           *)
Given(header, data) == [payload |-> Marshal([header |-> header, data |-> Marshal(data)]),
                        signature |-> NoSignature]
Header(type, ch) ==
  [channelHeader |-> Marshal([type |-> type, channelId |-> ch, txId |-> EmptyTxID,
                              extension |-> ""]),
   signatureHeader |-> Marshal([nonce |-> <<>>, creator |-> <<>>])]
UpdateData(signatures) ==
  [configUpdate |-> Marshal([update |-> update1]), signatures |-> signatures]
MCGivenEnvelope == {
  Given(Header("CONFIG_UPDATE", Channel), UpdateData(<<>>)),
  Given(Header("CONFIG_UPDATE", Channel),
        UpdateData(<<SignUpdateConfig(<<0>>, Marshal([update |-> update1]), <<0>>)>>)),
  Given(Header("CONFIG_UPDATE", otherChannel), UpdateData(<<>>)),
  Given(Header("CONFIG_UPDATE", NoChannel), UpdateData(<<>>)),
  Given(Header("CONFIG", Channel), UpdateData(<<>>)),
  Given(Header("CONFIG_UPDATE", Channel), [actions |-> <<>>]),
  Given(Absent, UpdateData(<<>>))}

Peers == Permutations(Peer)

(* Transactions and updates do not meet before they are ordered: a         *)
(* behaviour has envelopes of one kind.                                    *)
NextOneKind ==
  /\ NextBlocks
  /\ proposals' = {} \/ envelopes' \subseteq Transactions'

SpecOneKind == InitBlocks /\ [][NextOneKind]_chainVars
=============================================================================
