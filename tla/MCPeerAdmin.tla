------------------------------ MODULE MCPeerAdmin ------------------------------
EXTENDS PeerAdmin

CONSTANTS p, q

(* Each peer is named before and after the other. *)
MCLists == {<<p, q>>, <<q, p>>}
================================================================================
