--------------------------------- MODULE RwSet ---------------------------------
(***************************************************************************)
(* internal/rwsetutil/rw_util.go: the read-write set of a transaction as   *)
(* the messages a ledger stores, and back.  The public set goes into the   *)
(* block; of a private collection it has hashes only, and the private set  *)
(* itself travels beside it.                                               *)
(***************************************************************************)
EXTENDS Wire, Naturals, Sequences, FiniteSetsExt

CONSTANTS
  Nil,     \* a nil slice, or the version of no key
  Empty    \* the value of no bytes, which is not nil

-----------------------------------------------------------------------------
(* Entries.  A version is a pair, or nil for a key that did not exist. *)

newProtoVersion(height) ==
  IF height = Nil THEN Nil ELSE [blockNum |-> height[1], txNum |-> height[2]]

NewVersion(v) == IF v = Nil THEN Nil ELSE <<v.blockNum, v.txNum>>

NewKVRead(key, version) == [key |-> key, version |-> newProtoVersion(version)]

newPvtKVReadHash(key, version) ==
  [keyHash |-> Sha256(key), version |-> newProtoVersion(version)]

(* A nil value deletes the key; an empty one does not. *)
newKVWrite(key, value) == [key |-> key, isDelete |-> value = Nil, value |-> value]

(* Mutant: the hash of every value is written, that of no value too. *)
newPvtKVWriteAndHashAlways(key, value) ==
  <<newKVWrite(key, value),
    [keyHash |-> Sha256(key), isDelete |-> value = Nil, valueHash |-> Sha256(value)]>>

newPvtKVWriteAndHash(key, value) ==
  <<newKVWrite(key, value),
    [keyHash |-> Sha256(key), isDelete |-> value = Nil,
     valueHash |-> IF value = Nil THEN Nil ELSE Sha256(value)]>>

-----------------------------------------------------------------------------
(* To bytes.  A field of no bytes is not written and is read as nil. *)

MarshalKV(kv) ==
  Marshal([kv EXCEPT !.writes =
    [w \in DOMAIN kv.writes |->
       [kv.writes[w] EXCEPT !.value = IF @ = Empty THEN Nil ELSE @]]])

collHashedRwSetToProtoMsg(c) ==
  [collectionName |-> c.collectionName, pvtRwsetHash |-> c.pvtRwSetHash,
   hashedRwset |-> Marshal(c.hashedRwSet)]

nsRwSetToProtoMsg(ns) ==
  [namespace |-> ns.nameSpace, rwset |-> MarshalKV(ns.kvRwSet),
   collectionHashedRwset |->
     [c \in DOMAIN ns.collHashedRwSets |-> collHashedRwSetToProtoMsg(ns.collHashedRwSets[c])]]

(* A nil set within cannot be marshalled. *)
TxRwSetToProtoBytes(t) ==
  IF \E n \in DOMAIN t :
       \/ t[n].kvRwSet = Absent
       \/ \E c \in DOMAIN t[n].collHashedRwSets : t[n].collHashedRwSets[c].hashedRwSet = Absent
  THEN Error
  ELSE Marshal([dataModel |-> "KV",
                nsRwset |-> [n \in DOMAIN t |-> nsRwSetToProtoMsg(t[n])]])

nsPvtRwSetToProtoMsg(ns) ==
  [namespace |-> ns.nameSpace,
   collectionPvtRwset |->
     [c \in DOMAIN ns.collPvtRwSets |->
        [collectionName |-> ns.collPvtRwSets[c].collectionName,
         rwset |-> MarshalKV(ns.collPvtRwSets[c].kvRwSet)]]]

TxPvtRwSetToProtoBytes(t) ==
  IF \E n \in DOMAIN t : \E c \in DOMAIN t[n].collPvtRwSets :
       t[n].collPvtRwSets[c].kvRwSet = Absent
  THEN Error
  ELSE Marshal([dataModel |-> "KV",
                nsPvtRwset |-> [n \in DOMAIN t |-> nsPvtRwSetToProtoMsg(t[n])]])

-----------------------------------------------------------------------------
(* From bytes. *)

collHashedRwSetFromProtoMsg(m) ==
  [collectionName |-> m.collectionName, pvtRwSetHash |-> m.pvtRwsetHash,
   hashedRwSet |-> Unmarshal(m.hashedRwset)]

(* Mutant: one variable for the collections of all namespaces. *)
nsRwSetFromProtoMsgFirst(m) ==
  [nameSpace |-> m.namespace, kvRwSet |-> Unmarshal(m.rwset),
   collHashedRwSets |->
     [c \in DOMAIN m.collectionHashedRwset |->
        collHashedRwSetFromProtoMsg(m.collectionHashedRwset[1])]]

nsRwSetFromProtoMsg(m) ==
  [nameSpace |-> m.namespace, kvRwSet |-> Unmarshal(m.rwset),
   collHashedRwSets |->
     [c \in DOMAIN m.collectionHashedRwset |->
        collHashedRwSetFromProtoMsg(m.collectionHashedRwset[c])]]

IsTxRwSet(b) == Carries(b, {"dataModel", "nsRwset"})

(* The receiver keeps what it has when the bytes are of something else. *)
TxRwSetFromProtoBytes(old, b) ==
  IF IsTxRwSet(b)
  THEN LET msg == Unmarshal(b).nsRwset
       IN  [n \in DOMAIN msg |-> nsRwSetFromProtoMsg(msg[n])]
  ELSE old

nsPvtRwSetFromProtoMsg(m) ==
  [nameSpace |-> m.namespace,
   collPvtRwSets |->
     [c \in DOMAIN m.collectionPvtRwset |->
        [collectionName |-> m.collectionPvtRwset[c].collectionName,
         kvRwSet |-> Unmarshal(m.collectionPvtRwset[c].rwset)]]]

TxPvtRwSetFromProtoBytes(old, b) ==
  IF Carries(b, {"dataModel", "nsPvtRwset"})
  THEN LET msg == Unmarshal(b).nsPvtRwset
       IN  [n \in DOMAIN msg |-> nsPvtRwSetFromProtoMsg(msg[n])]
  ELSE old

ProtoUnmarshal(b) == TxRwSetFromProtoBytes(Error, b)

-----------------------------------------------------------------------------
(* Looking things up. *)

getPvtDataHash(ns, coll) ==
  LET found == {c \in DOMAIN ns.collHashedRwSets :
                  ns.collHashedRwSets[c].collectionName = coll}
  IN  IF found = {} THEN Nil ELSE ns.collHashedRwSets[Min(found)].pvtRwSetHash

(* In the first namespace of the name, and in no other. *)
GetPvtDataHash(t, ns, coll) ==
  LET found == {n \in DOMAIN t : t[n].nameSpace = ns}
  IN  IF found = {} THEN Nil ELSE getPvtDataHash(t[Min(found)], coll)

NumCollections(t) ==
  IF t = Nil THEN 0
  ELSE LET upTo[n \in 0..Len(t)] ==
             IF n = 0 THEN 0 ELSE upTo[n - 1] + Len(t[n].collHashedRwSets)
       IN  upTo[Len(t)]
================================================================================
