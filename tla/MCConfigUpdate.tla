---------------------------- MODULE MCConfigUpdate ----------------------------
EXTENDS ConfigUpdate

CONSTANTS a, b, c, alice, bob, bert

(* alice administers a; bob administers b, bert is a member of b. *)
MCMsp == [s \in {alice, bob, bert} |-> IF s = alice THEN a ELSE b]

(* One founder wants the outsider in, the other wants the first one out. *)
MCPlans ==
  {[sponsor |-> a, kind |-> "add",    org |-> c],
   [sponsor |-> b, kind |-> "remove", org |-> a]}
=============================================================================
