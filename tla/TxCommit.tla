------------------------------- MODULE TxCommit -------------------------------
(***************************************************************************)
(* What waiting for a transaction promises, with no goroutine, stream or   *)
(* message in sight: the peers of a channel each commit the transaction    *)
(* at some moment, all with the same verdict, and the submitter is told    *)
(* "ok" only once every peer it watches has committed it as valid.  Being  *)
(* told "failed" promises nothing: the transaction may be committed then,  *)
(* or later.                                                               *)
(***************************************************************************)
CONSTANT Peer

VARIABLES
  ledger,   \* per peer: the transaction is "absent", "valid" or "invalid"
  outcome   \* what the submitter was told: "pending", "ok" or "failed"

TypeOK ==
  /\ ledger \in [Peer -> {"absent", "valid", "invalid"}]
  /\ outcome \in {"pending", "ok", "failed"}

Init ==
  /\ ledger = [p \in Peer |-> "absent"]
  /\ outcome = "pending"

Commit(p, verdict) ==
  /\ ledger[p] = "absent"
  /\ \A q \in Peer : ledger[q] \in {"absent", verdict}
  /\ ledger' = [ledger EXCEPT ![p] = verdict]
  /\ UNCHANGED outcome

Succeed ==
  /\ outcome = "pending"
  /\ \A p \in Peer : ledger[p] = "valid"
  /\ outcome' = "ok"
  /\ UNCHANGED ledger

GiveUp ==
  /\ outcome = "pending"
  /\ outcome' = "failed"
  /\ UNCHANGED ledger

Next ==
  \/ \E p \in Peer, verdict \in {"valid", "invalid"} : Commit(p, verdict)
  \/ Succeed
  \/ GiveUp

Spec == Init /\ [][Next]_<<ledger, outcome>>
=============================================================================
