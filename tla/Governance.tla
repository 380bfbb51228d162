------------------------------ MODULE Governance ------------------------------
(***************************************************************************)
(* What the proposals of gateway/proposal.go are for: the membership of a  *)
(* channel (or of a consortium) changes by one organization at a time, and *)
(* only by an update that administrators of a majority of the members of   *)
(* that very configuration have signed.                                    *)
(***************************************************************************)
EXTENDS Integers, FiniteSets

CONSTANTS Org, Founders, Encoding, Signer, Msp, Admin

VARIABLES members, version, signed

vars == <<members, version, signed>>

Update    == [base : Nat, kind : {"add", "remove"}, org : Org, enc : Encoding]
Signature == [by : Signer, over : Update]

Init == members = Founders /\ version = 0 /\ signed = {}

Sign ==
  /\ signed \subseteq signed' /\ signed' \subseteq Signature
  /\ UNCHANGED <<members, version>>

Signers(u) ==
  {o \in members : \E s \in Admin : Msp[s] = o /\ [by |-> s, over |-> u] \in signed}

Change(u) ==
  /\ u.base = version
  /\ 2 * Cardinality(Signers(u)) > Cardinality(members)
  /\ \/ u.kind = "add" /\ u.org \notin members /\ members' = members \cup {u.org}
     \/ u.kind = "remove" /\ u.org \in members /\ members' = members \ {u.org}
  /\ version' = version + 1
  /\ UNCHANGED signed

Next == Sign \/ \E g \in signed : Change(g.over)

Spec == Init /\ [][Next]_vars
=============================================================================
