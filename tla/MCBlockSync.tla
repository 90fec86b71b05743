---------------------------- MODULE MCBlockSync -----------------------------
(* Small instance of BlockSync: a tree of two branches, of which p has one *)
(* and q the other.  x3 is invalid and u2 cannot be applied; both are only *)
(* announced.                                                              *)
(*    g -- a1 -- a2 -- x3                                                  *)
(*           |\-- b2 -- b3                                                 *)
(*            \-- u2                                                       *)
EXTENDS BlockSync, TLC

CONSTANTS p, q, g, a1, a2, x3, b2, b3, u2

MCParentOf == (a1 :> g) @@ (a2 :> a1) @@ (x3 :> a2) @@ (b2 :> a1) @@ (b3 :> b2) @@ (u2 :> a1)
MCHeightOf ==
    (g :> 0) @@ (a1 :> 1) @@ (a2 :> 2) @@ (u2 :> 2) @@ (b2 :> 2) @@ (x3 :> 3) @@ (b3 :> 3)
MCTipOf == (p :> a2) @@ (q :> b3)
MCAnnounced == {<<p, x3>>, <<q, u2>>}
MCMaxJoins == (p :> 1) @@ (q :> 1)
MCCallers == {"keeper", "fetcher"}
=============================================================================
