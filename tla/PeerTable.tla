----------------------------- MODULE PeerTable -----------------------------
(***************************************************************************)
(* What p2p.PeerSet promises to the switch: a table of peers with at most  *)
(* one peer for every public key.  PeerSet.tla is the detailed structure   *)
(* (lookup map, list, backing array) and implements this specification;    *)
(* Switch.tla uses these operations on its own variable.                   *)
(***************************************************************************)
CONSTANTS Peers,    \* the *Peer objects
          KeyOf     \* KeyOf[p] is p.Key

VARIABLE members    \* the peers in the table

\* PeerSet.Has and the duplicate test of PeerSet.Add.
Has(key) == \E p \in members : KeyOf[p] = key

Init == members = {}

\* PeerSet.Add returning nil.
Add(p) ==
    /\ ~Has(KeyOf[p])
    /\ members' = members \cup {p}

\* PeerSet.Remove: the entry is found by key, whoever holds it.
Remove(p) == members' = {q \in members : KeyOf[q] # KeyOf[p]}

Next == \E p \in Peers : Add(p) \/ Remove(p)

Spec == Init /\ [][Next]_members

\* No two peers of the table share a public key, whatever Add and Remove calls
\* are made (PeerSet.lookup is keyed by Peer.Key).
OnePerKey == \A p, q \in members : KeyOf[p] = KeyOf[q] => p = q
=============================================================================
