------------------------------ MODULE PeerSet ------------------------------
(***************************************************************************)
(* p2p.PeerSet (src/p2p/peer_set.go): a map from key to {peer, index} and  *)
(* a slice of peers, kept in step by Add and Remove under one mutex.       *)
(* List() hands its callers the slice itself, which they iterate without   *)
(* the mutex, so the backing array of the slice is part of the state: an   *)
(* append may write into the array a reader is iterating.                  *)
(***************************************************************************)
EXTENDS Integers, Sequences, FiniteSets

CONSTANTS Peers,      \* the *Peer objects
          Keys,       \* public keys
          KeyOf,      \* KeyOf[p] is p.Key
          Readers,    \* goroutines that hold a result of List()
          InitialCap, \* capacity given to the first backing array
          Nil         \* a missing map entry

ASSUME PeerSetAssumption ==
    /\ KeyOf \in [Peers -> Keys]
    /\ InitialCap \in Nat
    /\ Nil \notin [peer : Peers, index : Nat]

VARIABLES
    lookup,  \* key -> [peer, index] or Nil
    array,   \* the peers written to the backing array of ps.list
    size,    \* len(ps.list)
    capacity,\* cap(ps.list)
    view     \* what each reader holds of an earlier List(): see below

vars == <<lookup, array, size, capacity, view>>

Item == [peer : Peers, index : Nat]

list == SubSeq(array, 1, size)

(***************************************************************************)
(* A reader holds a slice header: a length n and an array.  The array is   *)
(* either still the one of ps.list (live) or one that ps.list has left,    *)
(* which nobody writes any more (its content is then kept in old).  taken  *)
(* remembers what List() returned.                                         *)
(***************************************************************************)
Slice == [n : Nat, live : BOOLEAN, old : Seq(Peers), taken : Seq(Peers)]

Seen(s) == IF s.live THEN SubSeq(array, 1, s.n) ELSE s.old

\* ps.list moves to another array: the slices of the readers stay behind.
LeftBehind == [r \in Readers |->
                 [view[r] EXCEPT !.live = FALSE, !.old = Seen(view[r])]]

Init ==
    /\ lookup = [k \in Keys |-> Nil]
    /\ array = <<>>
    /\ size = 0
    /\ capacity = InitialCap
    /\ view = [r \in Readers |->
                 [n |-> 0, live |-> FALSE, old |-> <<>>, taken |-> <<>>]]

-----------------------------------------------------------------------------
\* append(ps.list, peer): in place when the array has room, else into a copy
\* with more room.
AppendInPlace(p) ==
    /\ size < capacity
    /\ array' = Append(list, p)
    /\ UNCHANGED <<capacity, view>>

AppendToCopy(p) ==
    /\ size = capacity
    /\ array' = Append(list, p)
    /\ capacity' = 2 * capacity + 1
    /\ view' = LeftBehind

\* Mutant of Add: without the test for a peer with the same key.
AddReplaces(p) ==
    /\ AppendInPlace(p) \/ AppendToCopy(p)
    /\ size' = size + 1
    /\ lookup' = [lookup EXCEPT ![KeyOf[p]] = [peer |-> p, index |-> size]]

Add(p) ==
    /\ lookup[KeyOf[p]] = Nil
    /\ AppendInPlace(p) \/ AppendToCopy(p)
    /\ size' = size + 1
    /\ lookup' = [lookup EXCEPT ![KeyOf[p]] = [peer |-> p, index |-> size]]

\* newList: a copy of the list without its last element, in which the last
\* peer takes the place of the removed one.
WithoutIndex(s, index) ==
    [i \in 1 .. Len(s) - 1 |-> IF i = index + 1 THEN s[Len(s)] ELSE s[i]]

\* Mutant of Remove: the entry of the moved peer keeps its old index.
RemoveKeepsIndex(p) ==
    LET item == lookup[KeyOf[p]]
    IN  /\ item # Nil
        /\ array' = WithoutIndex(list, item.index)
        /\ size' = size - 1
        /\ capacity' = size - 1
        /\ view' = LeftBehind
        /\ lookup' = [lookup EXCEPT ![KeyOf[p]] = Nil]

\* Mutant of Remove: the last peer is moved in the array that readers iterate.
RemoveInPlace(p) ==
    LET item == lookup[KeyOf[p]]
        last == list[size]
    IN  /\ item # Nil
        /\ array' = [array EXCEPT ![item.index + 1] = last]
        /\ size' = size - 1
        /\ UNCHANGED <<capacity, view>>
        /\ lookup' = [[lookup EXCEPT ![KeyOf[last]] = [peer |-> last, index |-> item.index]]
                        EXCEPT ![KeyOf[p]] = Nil]

Remove(p) ==
    LET item == lookup[KeyOf[p]]
        last == list[size]
    IN  /\ item # Nil
        /\ array' = WithoutIndex(list, item.index)
        /\ size' = size - 1
        /\ capacity' = size - 1
        /\ view' = LeftBehind
        /\ lookup' = [k \in Keys |->
                        IF k = KeyOf[p] THEN Nil
                        ELSE IF k = KeyOf[last]
                             THEN [peer |-> lookup[k].peer, index |-> item.index]
                             ELSE lookup[k]]

\* List(): the reader gets the slice, not a copy of it.
List(r) ==
    /\ view' = [view EXCEPT ![r] =
                  [n |-> size, live |-> TRUE, old |-> <<>>, taken |-> list]]
    /\ UNCHANGED <<lookup, array, size, capacity>>

Next ==
    \/ \E p \in Peers : Add(p) \/ Remove(p)
    \/ \E r \in Readers : List(r)

Spec == Init /\ [][Next]_vars

-----------------------------------------------------------------------------
TypeOK ==
    /\ lookup \in [Keys -> Item \cup {Nil}]
    /\ array \in Seq(Peers)
    /\ size \in Nat
    /\ capacity \in Nat
    /\ view \in [Readers -> Slice]

\* Every map entry points at its own peer in the list and every peer of the
\* list has the map entry that points at it: the swap with the last element in
\* Remove keeps lookup and list in step.
IndexConsistent ==
    /\ size = Len(array)
    /\ size <= capacity
    /\ \A k \in Keys : lookup[k] # Nil =>
         /\ KeyOf[lookup[k].peer] = k
         /\ lookup[k].index < size
         /\ array[lookup[k].index + 1] = lookup[k].peer
    /\ \A i \in 1 .. size :
         /\ lookup[KeyOf[array[i]]] # Nil
         /\ lookup[KeyOf[array[i]]].index = i - 1

\* A slice that List() returned never changes under the goroutine that
\* iterates over it, whatever Add and Remove do meanwhile ("Iteration over the
\* peers is super fast and thread-safe").
SnapshotsStable == \A r \in Readers : Seen(view[r]) = view[r].taken

\* The table that lookup, list and array represent.
Members == {lookup[k].peer : k \in {j \in Keys : lookup[j] # Nil}}

Table == INSTANCE PeerTable WITH members <- Members

\* The structure implements the table of PeerTable.tla: every Add and Remove is
\* an Add and Remove of the table, and List changes nothing.
ImplementsTable == Table!Spec
=============================================================================
