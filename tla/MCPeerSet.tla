----------------------------- MODULE MCPeerSet -----------------------------
(* Small instance of PeerSet: two of the peers share a key.                *)
EXTENDS PeerSet, TLC

CONSTANTS p1, p2, p3, p4, k1, k2, k3

MCKeyOf == (p1 :> k1) @@ (p2 :> k1) @@ (p3 :> k2) @@ (p4 :> k3)
=============================================================================
