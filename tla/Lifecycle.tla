------------------------------- MODULE Lifecycle -------------------------------
(***************************************************************************)
(* internal/chaincode: organizations that Approve and Commit chaincode     *)
(* definitions on one channel.  A call builds the definition's arguments   *)
(* from the request, has peers endorse them against their own copy of the  *)
(* ledger, and broadcasts; with a timeout it waits until those peers have  *)
(* the transaction, without one it returns when the orderer has it.        *)
(*                                                                         *)
(* The broadcast and the wait are one step each here: ChaincodeTx has them *)
(* in full, and NilErrorIsTrue is what is relied on.  The peers' lifecycle *)
(* chaincode and the channel are external.                                 *)
(***************************************************************************)
EXTENDS Integers, Sequences, FiniteSets

CONSTANTS
  Org,          \* the organizations, each with one peer
  Definition,   \* the definitions that may be asked for
  None,
  Endorsers,    \* the sets of peers a Commit may name
  Timed,        \* calls with a timeout: TRUE, FALSE or both
  Faults,       \* "broadcast": an ack is lost; "timeout": a wait runs out
  MaxTx,        \* bound on the transactions of a run
  MaxCalls      \* bound on the calls in hand at once

VARIABLES
  ledger,    \* the lifecycle transactions of the channel, in order
  height,    \* how many of them each peer has
  call,      \* the call each organization has in hand, or None
  result     \* what its last call returned nil for, after a wait, or None

vars == <<ledger, height, call, result>>

(* Requests: the two policy options, and the collections' JSON, by whether *)
(* they parse.                                                             *)
Request ==
  [seq : Nat \ {0}, init : BOOLEAN,
   sigPolicy : {"none", "good", "bad"}, channelPolicy : {"none", "good"},
   collections : {"none", "good", "bad"}]

ASSUME OrgAssumption == IsFiniteSet(Org)
ASSUME DefinitionAssumption == Definition \subseteq Request
ASSUME NoneAssumption == None \notin Request
ASSUME EndorsersAssumption == Endorsers \subseteq (SUBSET Org) \ {{}}

-----------------------------------------------------------------------------
(* The arguments a proposal carries. *)

(* createPolicyBytes fails: both policies, or one that does not compile.   *)
PolicyFails(d) ==
  \/ d.sigPolicy # "none" /\ d.channelPolicy # "none"
  \/ d.sigPolicy = "bad"

(* Mutant: of two policies Approve takes the first. *)
ApproveArgsFirstPolicy(d) ==
  IF d.sigPolicy = "bad" THEN None
  ELSE [d EXCEPT !.collections = IF @ = "bad" THEN "none" ELSE @,
                 !.channelPolicy = IF d.sigPolicy = "none" THEN @ ELSE "none"]

(* Approve drops the error of getCollectionConfigFromBytes and goes on     *)
(* with the nil package it came with; Commit returns it.                   *)
ApproveArgs(d) ==
  IF PolicyFails(d) THEN None
  ELSE [d EXCEPT !.collections = IF @ = "bad" THEN "none" ELSE @]

CommitArgs(d) == IF PolicyFails(d) \/ d.collections = "bad" THEN None ELSE d

Args(op, d) == IF op = "approve" THEN ApproveArgs(d) ELSE CommitArgs(d)

-----------------------------------------------------------------------------
(* The lifecycle chaincode. *)

Effective(h, op) == {i \in 1..h : ledger[i].op = op /\ ledger[i].valid}

Sequence(h) == Cardinality(Effective(h, "commit"))

(* Where, in the first h transactions, o last approved a definition for    *)
(* the next sequence, or 0.                                                *)
ApprovalTx(h, o) ==
  LET mine == {i \in Effective(h, "approve") :
                 ledger[i].org = o /\ ledger[i].def.seq = Sequence(h) + 1}
  IN CHOOSE i \in mine \cup {0} : \A j \in mine : j <= i

Approval(h, o) == IF ApprovalTx(h, o) = 0 THEN None ELSE ledger[ApprovalTx(h, o)].def

(* What a simulation reads. *)
View(op, h) ==
  [seq |-> Sequence(h),
   approvals |-> IF op = "commit" THEN [o \in Org |-> Approval(h, o)] ELSE None]

Majority(S) == 2 * Cardinality(S) > Cardinality(Org)

Endorsable(op, d, h) ==
  /\ d.seq = Sequence(h) + 1
  /\ op = "commit" => Majority({o \in Org : Approval(h, o) = d})

(* Ordered last, a transaction is valid if what it read still stands.      *)
(* What was asked for is not in it: the properties need it.                *)
Tx(o, c, view) ==
  [org |-> o, op |-> c.op, asked |-> c.asked, def |-> c.args,
   valid |-> view = View(c.op, Len(ledger))]

-----------------------------------------------------------------------------
Init ==
  /\ ledger = <<>>
  /\ height = [o \in Org |-> 0]
  /\ call = [o \in Org |-> None]
  /\ result = [o \in Org |-> None]

Calls == {o \in Org : call[o] # None}

Fail(o) ==
  /\ call' = [call EXCEPT ![o] = None]
  /\ result' = [result EXCEPT ![o] = None]

(* nil, with the transaction tx committed by the peers, or without one.    *)
Succeed(o, tx) ==
  /\ call' = [call EXCEPT ![o] = None]
  /\ result' = [result EXCEPT ![o] =
       IF call[o].timed THEN [tx |-> tx, peers |-> call[o].peers] ELSE None]

(* Approve asks the committer alone, and the gateway gives it the committer *)
(* as its only deliver peer; Commit asks every endorser it is given.        *)
Start(o, op, d, timed, peers) ==
  /\ call[o] = None
  /\ Len(ledger) + Cardinality(Calls) < MaxTx
  /\ Cardinality(Calls) < MaxCalls
  /\ IF op = "approve" THEN peers = {o} ELSE peers \in Endorsers
  /\ IF Args(op, d) = None
       THEN UNCHANGED call       \* nothing is sent
       ELSE call' = [call EXCEPT ![o] =
              [op |-> op, asked |-> d, args |-> Args(op, d), timed |-> timed,
               peers |-> peers, left |-> peers, views |-> {}, tx |-> 0]]
  /\ result' = [result EXCEPT ![o] = None]
  /\ UNCHANGED <<ledger, height>>

(* One peer simulates the proposal on the ledger it has; a refusal ends    *)
(* the call.                                                               *)
Endorse(o, p) ==
  /\ call[o] # None /\ p \in call[o].left
  /\ IF Endorsable(call[o].op, call[o].args, height[p])
       THEN /\ call' = [call EXCEPT ![o].left = @ \ {p},
                                    ![o].views = @ \cup {View(call[o].op, height[p])}]
            /\ UNCHANGED result
       ELSE Fail(o)
  /\ UNCHANGED <<ledger, height>>

Endorsed(o) == call[o] # None /\ call[o].left = {} /\ call[o].tx = 0

(* createSignedTx: the endorsements differ. *)
Mismatch(o) ==
  /\ Endorsed(o) /\ Cardinality(call[o].views) > 1
  /\ Fail(o)
  /\ UNCHANGED <<ledger, height>>

Ordered(o) ==
  \E view \in call[o].views : ledger' = Append(ledger, Tx(o, call[o], view))

(* Mutant: the timeout is not looked at. *)
BroadcastOnly(o) ==
  /\ Endorsed(o) /\ Cardinality(call[o].views) = 1
  /\ Ordered(o)
  /\ Succeed(o, Len(ledger'))
  /\ UNCHANGED height

(* The orderer has it; without a timeout that is all. *)
Broadcast(o) ==
  /\ Endorsed(o) /\ Cardinality(call[o].views) = 1
  /\ Ordered(o)
  /\ IF call[o].timed
       THEN call' = [call EXCEPT ![o].tx = Len(ledger')] /\ UNCHANGED result
       ELSE Succeed(o, Len(ledger'))
  /\ UNCHANGED height

(* The ack is lost, or was negative: an error, ordered or not. *)
AckLost(o) ==
  /\ "broadcast" \in Faults
  /\ Endorsed(o) /\ Cardinality(call[o].views) = 1
  /\ Ordered(o) \/ UNCHANGED ledger
  /\ Fail(o)
  /\ UNCHANGED height

(* Every peer of the group has the transaction: its verdict is returned.   *)
Wait(o) ==
  /\ call[o] # None /\ call[o].tx # 0
  /\ \A p \in call[o].peers : height[p] >= call[o].tx
  /\ IF ledger[call[o].tx].valid THEN Succeed(o, call[o].tx) ELSE Fail(o)
  /\ UNCHANGED <<ledger, height>>

Timeout(o) ==
  /\ "timeout" \in Faults
  /\ call[o] # None /\ call[o].tx # 0
  /\ Fail(o)
  /\ UNCHANGED <<ledger, height>>

(* A peer commits its next block. *)
Advance(p) ==
  /\ height[p] < Len(ledger)
  /\ height' = [height EXCEPT ![p] = @ + 1]
  /\ UNCHANGED <<ledger, call, result>>

Next ==
  \/ \E o \in Org, op \in {"approve", "commit"}, d \in Definition, t \in Timed,
        peers \in Endorsers \cup {{q} : q \in Org} : Start(o, op, d, t, peers)
  \/ \E o, p \in Org : Endorse(o, p)
  \/ \E o \in Org : Mismatch(o) \/ Broadcast(o) \/ AckLost(o) \/ Wait(o) \/ Timeout(o)
  \/ \E p \in Org : Advance(p)

Spec == Init /\ [][Next]_vars

-----------------------------------------------------------------------------
(* Properties. *)

Transaction ==
  [org : Org, op : {"approve", "commit"}, asked : Definition, def : Request,
   valid : BOOLEAN]

Views == [seq : Nat, approvals : [Org -> Request \cup {None}] \cup {None}]

Call ==
  [op : {"approve", "commit"}, asked : Definition, args : Request, timed : Timed,
   peers : SUBSET Org, left : SUBSET Org, views : SUBSET Views, tx : 0..Len(ledger)]

TypeOK ==
  /\ ledger \in Seq(Transaction)
  /\ height \in [Org -> 0..Len(ledger)]
  /\ call \in [Org -> Call \cup {None}]
  /\ result \in [Org -> [tx : 1..Len(ledger), peers : SUBSET Org] \cup {None}]

(* The definition a request stands for; one whose collections do not parse *)
(* stands for itself without them.                                         *)
Means(r, d) ==
  r = d \/ (r.collections = "bad" /\ d = [r EXCEPT !.collections = "none"])

(* A definition takes effect only if a majority's last request to approve  *)
(* one asked for it, as it is: every field that members agree on reaches    *)
(* the ledger unchanged, from whichever organization, at whichever height   *)
(* it was endorsed.                                                         *)
CommittedWasMeant ==
  \A i \in Effective(Len(ledger), "commit") :
    Majority({o \in Org : LET j == ApprovalTx(i - 1, o) IN
                j # 0 /\ Means(ledger[j].asked, ledger[i].def)})

(* nil from a call with a timeout: its own transaction took effect, and    *)
(* every peer the call had endorse it has it, so that a call made next     *)
(* with the same peers builds on it.                                       *)
NilMeansEffective ==
  \A o \in Org : LET r == result[o] IN
    r # None =>
      /\ ledger[r.tx].org = o /\ ledger[r.tx].valid
      /\ \A p \in r.peers : height[p] >= r.tx

-----------------------------------------------------------------------------
(* The inductive invariant. *)

(* What a peer that endorsed c has seen: the definition is the next one,   *)
(* and to commit it, a majority that approved it.                          *)
Seen(c, view) ==
  /\ c.args.seq = view.seq + 1
  /\ c.op = "commit" => Majority({o \in Org : view.approvals[o] = c.args})

(* A call asks for what its caller asked for, on the word of all peers it  *)
(* named, and waits for its own transaction.                               *)
CallInHand(o, c) ==
  /\ Means(c.asked, c.args)
  /\ \A view \in c.views : Seen(c, view)
  /\ c.tx # 0 => ledger[c.tx].org = o

(* Types, and what a caller may rely on. *)
CallerInv ==
  /\ TypeOK /\ NilMeansEffective
  /\ \A o \in Calls : CallInHand(o, call[o])
  /\ \A i \in DOMAIN ledger : Means(ledger[i].asked, ledger[i].def)
================================================================================
