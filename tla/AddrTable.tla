------------------------------ MODULE AddrTable ------------------------------
(***************************************************************************)
(* What pex.AddrBook promises to its callers: a set of new addresses, a    *)
(* set of old ones, our own addresses, and the content of the last save.   *)
(* AddrBook implements this with buckets and counters.                     *)
(***************************************************************************)
CONSTANT Addrs

VARIABLES new, old, ours, saved

Empty == [new |-> {}, old |-> {}]

Init == new = {} /\ old = {} /\ ours = {} /\ saved = Empty

\* An address that is neither ours nor old becomes or stays new; at most one new
\* address is forgotten for it.
Add(a) ==
    /\ a \notin ours \cup old
    /\ \E evicted \in new \cup {a} : new' = (new \ {evicted}) \cup {a}
    /\ UNCHANGED <<old, ours, saved>>

\* A new address becomes old, or is forgotten when there is no room for it.
Good(a) ==
    /\ a \in new
    /\ new' = new \ {a}
    /\ old' \in {old, old \cup {a}}
    /\ UNCHANGED <<ours, saved>>

Remove(a) ==
    /\ new' = new \ {a}
    /\ old' = old \ {a}
    /\ UNCHANGED <<ours, saved>>

AddOurs(a) ==
    /\ ours' = ours \cup {a}
    /\ UNCHANGED <<new, old, saved>>

Save ==
    /\ saved' = [new |-> new, old |-> old]
    /\ UNCHANGED <<new, old, ours>>

Restart ==
    /\ new' = saved.new
    /\ old' = saved.old
    /\ ours' = {}
    /\ UNCHANGED saved

Next ==
    \/ \E a \in Addrs : Add(a) \/ Good(a) \/ Remove(a) \/ AddOurs(a)
    \/ Save \/ Restart

Spec == Init /\ [][Next]_<<new, old, ours, saved>>
=============================================================================
