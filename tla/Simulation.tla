------------------------------ MODULE Simulation ------------------------------
(***************************************************************************)
(* The read-write sets of a transaction from its simulation to a reader of *)
(* the block.  The simulator (external) makes both sets with the           *)
(* constructors of RwSet; they are written, and read back.                 *)
(***************************************************************************)
EXTENDS RwSet

CONSTANT Simulations   \* what the chaincodes of a transaction may do

VARIABLES
  sim,                     \* the simulation
  pubBytes, pvtBytes,      \* both sets in bytes
  txRwSet, txPvtRwSet,     \* both sets, read back
  at                       \* what was done last

vars == <<sim, pubBytes, pvtBytes, txRwSet, txPvtRwSet, at>>

-----------------------------------------------------------------------------
(* What the simulator makes of what the chaincodes do.  A simulation has,  *)
(* for every namespace, the reads and writes of its keys (or nil) and of   *)
(* its collections.                                                        *)

KVOf(s) ==
  [reads  |-> [r \in DOMAIN s.reads |-> NewKVRead(s.reads[r][1], s.reads[r][2])],
   writes |-> [w \in DOMAIN s.writes |-> newPvtKVWriteAndHash(s.writes[w][1], s.writes[w][2])[1]]]

HashedOf(s) ==
  [hashedReads  |-> [r \in DOMAIN s.reads |-> newPvtKVReadHash(s.reads[r][1], s.reads[r][2])],
   hashedWrites |-> [w \in DOMAIN s.writes |-> newPvtKVWriteAndHash(s.writes[w][1], s.writes[w][2])[2]]]

Public(s) ==
  [n \in DOMAIN s |->
     [nameSpace |-> s[n].ns,
      kvRwSet |-> IF s[n].keys = Nil THEN Absent ELSE KVOf(s[n].keys),
      collHashedRwSets |->
        [c \in DOMAIN s[n].colls |->
           [collectionName |-> s[n].colls[c].coll,
            hashedRwSet |-> HashedOf(s[n].colls[c].keys),
            pvtRwSetHash |-> Sha256(MarshalKV(KVOf(s[n].colls[c].keys)))]]]]

Private(s) ==
  [n \in DOMAIN s |->
     [nameSpace |-> s[n].ns,
      collPvtRwSets |->
        [c \in DOMAIN s[n].colls |->
           [collectionName |-> s[n].colls[c].coll, kvRwSet |-> KVOf(s[n].colls[c].keys)]]]]

(* The simulator hands over lists, with each namespace once and each of its *)
(* collections once, and versions that are pairs or nil; neither a version *)
(* nor a set that is read back is taken for nil.                           *)
IsList(s) == Len(s) \in Nat /\ DOMAIN s = 1..Len(s)

Accesses(k) ==
  /\ IsList(k.reads) /\ IsList(k.writes)
  /\ \A r \in DOMAIN k.reads :
       \/ k.reads[r][2] = Nil
       \/ /\ k.reads[r][2] = <<k.reads[r][2][1], k.reads[r][2][2]>>
          /\ newProtoVersion(k.reads[r][2]) # Nil

Simulated(s) ==
  /\ IsList(s)
  /\ \A n \in DOMAIN s :
       /\ s[n].keys # Nil => Accesses(s[n].keys)
       /\ \A m \in DOMAIN s : s[m].ns = s[n].ns => m = n
       /\ IsList(s[n].colls)
       /\ \A c \in DOMAIN s[n].colls :
            /\ Accesses(s[n].colls[c].keys)
            /\ \A d \in DOMAIN s[n].colls : s[n].colls[d].coll = s[n].colls[c].coll => d = c
  /\ ProtoUnmarshal(TxRwSetToProtoBytes(Public(s))) # Nil

-----------------------------------------------------------------------------
Init ==
  /\ sim \in Simulations /\ at = "simulated"
  /\ pubBytes = Nil /\ pvtBytes = Nil /\ txRwSet = Nil /\ txPvtRwSet = Nil

ToProtoBytes ==
  /\ at = "simulated" /\ at' = "written"
  /\ pubBytes' = TxRwSetToProtoBytes(Public(sim))
  /\ pvtBytes' = TxPvtRwSetToProtoBytes(Private(sim))
  /\ UNCHANGED <<sim, txRwSet, txPvtRwSet>>

FromProtoBytes ==
  /\ at = "written" /\ pubBytes # Error /\ pvtBytes # Error /\ at' = "read"
  /\ txRwSet' = ProtoUnmarshal(pubBytes)
  /\ txPvtRwSet' = TxPvtRwSetFromProtoBytes(Nil, pvtBytes)
  /\ UNCHANGED <<sim, pubBytes, pvtBytes>>

Next == ToProtoBytes \/ FromProtoBytes

Spec == Init /\ [][Next]_vars

-----------------------------------------------------------------------------
(* Whether a write deletes its key is read back as it was meant: an empty  *)
(* value is read as no value, but not as a deletion.                       *)
SameKeys(kv, s) ==
  /\ Len(kv.reads) = Len(s.reads) /\ Len(kv.writes) = Len(s.writes)
  /\ \A r \in DOMAIN s.reads :
       kv.reads[r].key = s.reads[r][1] /\ NewVersion(kv.reads[r].version) = s.reads[r][2]
  /\ \A w \in DOMAIN s.writes :
       /\ kv.writes[w].key = s.writes[w][1]
       /\ kv.writes[w].isDelete <=> s.writes[w][2] = Nil
       /\ kv.writes[w].value \in {s.writes[w][2]} \cup
            (IF s.writes[w][2] = Empty THEN {Nil} ELSE {})

(* FromProtoBytes of ToProtoBytes: every namespace, collection, key,       *)
(* version and value comes back in its place, and only a set with a nil    *)
(* part cannot be written.                                                 *)
SetsComeBack ==
  /\ at = "written" =>
       (Error \in {pubBytes, pvtBytes} <=> \E n \in DOMAIN sim : sim[n].keys = Nil)
  /\ at = "read" =>
    /\ NumCollections(txRwSet) =
         Cardinality(UNION {{n} \X DOMAIN sim[n].colls : n \in DOMAIN sim})
    /\ Len(txRwSet) = Len(sim) /\ Len(txPvtRwSet) = Len(sim)
    /\ \A n \in DOMAIN sim :
         /\ txRwSet[n].nameSpace = sim[n].ns /\ txPvtRwSet[n].nameSpace = sim[n].ns
         /\ SameKeys(txRwSet[n].kvRwSet, sim[n].keys)
         /\ Len(txRwSet[n].collHashedRwSets) = Len(sim[n].colls)
         /\ \A c \in DOMAIN sim[n].colls :
              /\ txPvtRwSet[n].collPvtRwSets[c].collectionName = sim[n].colls[c].coll
              /\ SameKeys(txPvtRwSet[n].collPvtRwSets[c].kvRwSet, sim[n].colls[c].keys)

(* The hashed writes of a collection are of the writes in the same places, *)
(* each with a value to compare unless it deletes.                         *)
Vouches(hashed, kv) ==
  /\ Len(hashed.hashedWrites) = Len(kv.writes)
  /\ \A w \in DOMAIN hashed.hashedWrites :
       /\ hashed.hashedWrites[w].keyHash = Sha256(kv.writes[w].key)
       /\ hashed.hashedWrites[w].isDelete = kv.writes[w].isDelete
       /\ hashed.hashedWrites[w].valueHash =
            IF kv.writes[w].isDelete THEN Nil
            ELSE Sha256(IF kv.writes[w].value = Nil THEN Empty ELSE kv.writes[w].value)

(* Who holds the private sets can check them against the block: the hash   *)
(* GetPvtDataHash finds for a namespace and a collection is that of its    *)
(* private set, and the hashed writes vouch for its writes.                *)
PrivateVerifies ==
  at = "read" =>
    \A n \in DOMAIN txPvtRwSet : \A c \in DOMAIN txPvtRwSet[n].collPvtRwSets :
      LET pvt == txPvtRwSet[n].collPvtRwSets[c]
      IN  /\ GetPvtDataHash(txRwSet, txPvtRwSet[n].nameSpace, pvt.collectionName) =
               Sha256(MarshalKV(pvt.kvRwSet))
          /\ Vouches(txRwSet[n].collHashedRwSets[c].hashedRwSet, pvt.kvRwSet)

(* What a chaincode read and wrote is what a reader of the block is told,  *)
(* and what a holder of the private data can check it against.             *)
ReadBack == SetsComeBack /\ PrivateVerifies
================================================================================
