------------------------------ MODULE MCSwitch ------------------------------
(* Small instances of Switch.                                              *)
EXTENDS Switch, TLC

CONSTANTS a, b, d,           \* connections
          ka, kb, kd, self,  \* keys
          h1, h2, h3, here   \* hosts

\* Two connections with two nodes.
DistinctKeys == (a :> ka) @@ (b :> kb)
DistinctHosts == (a :> h1) @@ (b :> h2)

\* Two connections with one node, one in each direction.
SameKey == (a :> ka) @@ (b :> ka)
SameHost == (a :> h1) @@ (b :> h1)

\* a and b are connections of one node, made from two hosts; d is another node.
MixedKeys == (a :> ka) @@ (b :> ka) @@ (d :> kd)
ThreeHosts == (a :> h1) @@ (b :> h2) @@ (d :> h3)
=============================================================================
