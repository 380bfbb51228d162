------------------------------ MODULE MCLifecycle ------------------------------
EXTENDS Lifecycle, TLC

Ask(sig, channel, coll) ==
  [seq |-> 1, init |-> TRUE, sigPolicy |-> sig, channelPolicy |-> channel, collections |-> coll]

(* A definition; the same with collections that do not parse, and with a   *)
(* second policy.                                                          *)
MCDefinition ==
  {Ask("good", "none", "none"), Ask("good", "none", "bad"), Ask("good", "good", "none")}

MCEndorsers == {S \in SUBSET Org : Cardinality(S) = 2}

Symmetry == Permutations(Org)
================================================================================
