------------------------------ MODULE MCTxSync ------------------------------
(* Small instance of Handshake and TxSync: p and r are connections of one  *)
(* node, q of another, f of one with another genesis block.                *)
EXTENDS Handshake, TLC

CONSTANTS p, q, r, f, node1, node2, node3, t1, t2, t3

MCKeyOf == (p :> node1) @@ (q :> node2) @@ (r :> node1) @@ (f :> node3)
MCMaxAsked == (p :> 1) @@ (q :> 1) @@ (r :> 1) @@ (f :> 2)
MCEarlier == (p :> {}) @@ (q :> {}) @@ (r :> {p}) @@ (f :> {})

\* With PackSize 2: t1 and t2 make a pack, t3 is left for the next.
MCSizeOf == (t1 :> 1) @@ (t2 :> 3) @@ (t3 :> 1)
MCBatches == {<<>>, <<t1, t2, t3>>}
=============================================================================
