------------------------------ MODULE MCPeerPage ------------------------------
(* PeerPage for TLC: two invites of two allocations, one of which gives no     *)
(* host address.                                                               *)
EXTENDS PeerPage, TLC

CONSTANTS a1, a2, h1, h2, k1, k2, i1, i2

MCAllocOf == (i1 :> a1) @@ (i2 :> a2)
MCHostOf  == (i1 :> h1) @@ (i2 :> None)
MCKeyOf   == (i1 :> k1) @@ (i2 :> k2)

Symmetry == Permutations(Peers)
=============================================================================
