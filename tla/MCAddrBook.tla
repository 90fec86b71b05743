----------------------------- MODULE MCAddrBook -----------------------------
(* Small instances of AddrBook.                                            *)
EXTENDS AddrBook, TLC

CONSTANTS a1, me, k1, k2, g1, g2

MCSubnet == [a \in Addrs |-> IF a = me THEN g2 ELSE g1]

\* Both functions depend on the key; with k1 the new bucket goes by the group of
\* the source, with k2 by both groups.
MCNewSlot ==
    [k \in BookKeys |-> [g \in Groups |-> [s \in Groups |-> IF g = s THEN 2 ELSE 1]]]
MCNewBucket ==
    [k \in BookKeys |-> [s \in Groups |-> [n \in Slots |->
        IF k = k1 THEN (IF s = g2 THEN 2 ELSE 1) ELSE n]]]

MCOldSlot == [k \in BookKeys |-> [a \in Addrs |-> IF a = me THEN 1 ELSE 2]]
MCOldBucket ==
    [k \in BookKeys |-> [g \in Groups |-> [n \in Slots |-> IF k = k1 THEN 1 ELSE n]]]
=============================================================================
