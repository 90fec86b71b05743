----------------------------- MODULE PeerProofs -----------------------------
(***************************************************************************)
(* Proofs about what the switch and netsync keep of their peers: the set   *)
(* of peers (PeerSet), for any peers, keys, readers and initial capacity,  *)
(* and the scores and bans (Banning), for any peers, hosts, workers,       *)
(* offences, threshold and ban duration.                                   *)
(***************************************************************************)
EXTENDS PeerSet, Banning, TLAPS, SequenceTheorems

\* A leaf is tried with SMT and Zenon, and then again with more time.
USE SMT, Zenon, SMTT(40), ZenonT(40), Z3T(40)

-----------------------------------------------------------------------------
(* PeerSet.  The inductive invariant is TypeOK, IndexConsistent and        *)
(* SnapshotsStable together with LiveBounded, which says that a slice on   *)
(* the current array is no longer than ps.list.                            *)

LiveBounded == \A r \in Readers : view[r].live => view[r].n <= size

IInv == TypeOK /\ IndexConsistent /\ SnapshotsStable /\ LiveBounded

\* Between two calls the slice ps.list is the whole backing array.
LEMMA ListIsArray == IInv => list = array
  BY DEF IInv, TypeOK, IndexConsistent, list

\* Leaving the array behind keeps what every reader sees.
LEMMA LeftBehindStable ==
  ASSUME IInv, view' = LeftBehind
  PROVE  /\ view' \in [Readers -> Slice]
         /\ SnapshotsStable'
         /\ LiveBounded'
<1>1. ASSUME NEW r \in Readers
      PROVE  /\ Seen(view[r]) \in Seq(Peers)
             /\ view'[r] = [view[r] EXCEPT !.live = FALSE, !.old = Seen(view[r])]
  BY Zenon DEF IInv, TypeOK, SnapshotsStable, Slice, LeftBehind
<1>2. view' \in [Readers -> Slice]
  <2>1. \A r \in Readers :
          [view[r] EXCEPT !.live = FALSE, !.old = Seen(view[r])] \in Slice
    BY <1>1, Zenon DEF IInv, TypeOK, Slice
  <2> QED BY <2>1, Zenon DEF LeftBehind
<1>3. \A r \in Readers : /\ view'[r].live = FALSE
                         /\ view'[r].old = view[r].taken
                         /\ view'[r].taken = view[r].taken
  BY <1>1, Zenon DEF IInv, TypeOK, Slice, SnapshotsStable
<1> QED BY <1>2, <1>3 DEF SnapshotsStable, LiveBounded, Seen

LEMMA InitIInv == Init => IInv
<1> SUFFICES ASSUME Init PROVE IInv OBVIOUS
<1> USE PeerSetAssumption DEF Init
<1>1. TypeOK BY DEF TypeOK, Slice, Item
<1>2. IndexConsistent BY DEF IndexConsistent
<1>3. SnapshotsStable /\ LiveBounded BY DEF SnapshotsStable, LiveBounded, Seen
<1> QED BY <1>1, <1>2, <1>3 DEF IInv

LEMMA AddIInv ==
  ASSUME IInv, NEW p \in Peers, Add(p)
  PROVE  IInv'
<1> USE PeerSetAssumption
<1> DEFINE key == KeyOf[p]
<1>1. /\ key \in Keys
      /\ lookup[key] = Nil
      /\ array' = Append(array, p)
      /\ size = Len(array)
      /\ size' = size + 1
      /\ lookup' = [lookup EXCEPT ![key] = [peer |-> p, index |-> size]]
  BY ListIsArray DEF Add, AppendInPlace, AppendToCopy, IInv, IndexConsistent
<1>2. /\ array' \in Seq(Peers)
      /\ Len(array') = size + 1
      /\ array'[size + 1] = p
      /\ \A i \in 1 .. size : array'[i] = array[i]
  BY <1>1 DEF IInv, TypeOK
<1>3. view' \in [Readers -> Slice] /\ SnapshotsStable' /\ LiveBounded'
  <2>1. CASE AppendInPlace(p)
    <3>1. view' = view BY <2>1 DEF AppendInPlace
    <3>2. \A r \in Readers : view[r].live =>
            SubSeq(array', 1, view[r].n) = SubSeq(array, 1, view[r].n)
      <4> SUFFICES ASSUME NEW r \in Readers, view[r].live
                   PROVE  SubSeq(array', 1, view[r].n) = SubSeq(array, 1, view[r].n)
        BY Zenon
      <4>1. view[r].n \in Nat /\ view[r].n <= size
        BY DEF IInv, TypeOK, Slice, LiveBounded
      <4> QED BY <1>1, <1>2, <4>1 DEF IInv, TypeOK
    <3>3. \A r \in Readers : Seen(view[r])' = Seen(view[r])
      BY <3>1, <3>2, Zenon DEF Seen
    <3>4. SnapshotsStable' BY <3>1, <3>3 DEF IInv, SnapshotsStable
    <3>5. view' \in [Readers -> Slice] BY <3>1 DEF IInv, TypeOK
    <3>6. LiveBounded'
      <4>1. size \in Nat /\ \A r \in Readers : view[r].n \in Nat
        BY DEF IInv, TypeOK, Slice
      <4> QED BY <1>1, <3>1, <4>1 DEF IInv, LiveBounded
    <3> QED BY <3>4, <3>5, <3>6
  <2>2. CASE AppendToCopy(p)
    BY <2>2, LeftBehindStable DEF AppendToCopy
  <2> QED BY <2>1, <2>2 DEF Add
<1>4. capacity' \in Nat /\ size' <= capacity'
  BY <1>1 DEF Add, AppendInPlace, AppendToCopy, IInv, TypeOK, IndexConsistent
<1>5. TypeOK'
  BY <1>1, <1>2, <1>3, <1>4 DEF IInv, TypeOK, Item
<1>6. IndexConsistent'
  <2>1. \A k \in Keys : lookup'[k] # Nil =>
           /\ KeyOf[lookup'[k].peer] = k
           /\ lookup'[k].index < size'
           /\ array'[lookup'[k].index + 1] = lookup'[k].peer
    <3> SUFFICES ASSUME NEW k \in Keys, lookup'[k] # Nil
                 PROVE  /\ KeyOf[lookup'[k].peer] = k
                        /\ lookup'[k].index < size'
                        /\ array'[lookup'[k].index + 1] = lookup'[k].peer
      OBVIOUS
    <3>1. CASE k = key
      BY <1>1, <1>2, <3>1 DEF IInv, TypeOK
    <3>2. CASE k # key
      <4>1. lookup'[k] = lookup[k] /\ lookup[k] \in Item
        BY <1>1, <3>2 DEF IInv, TypeOK
      <4> QED BY <1>1, <1>2, <4>1 DEF IInv, TypeOK, IndexConsistent, Item
    <3> QED BY <3>1, <3>2
  <2>2. \A i \in 1 .. size' :
           /\ lookup'[KeyOf[array'[i]]] # Nil
           /\ lookup'[KeyOf[array'[i]]].index = i - 1
    <3> SUFFICES ASSUME NEW i \in 1 .. size'
                 PROVE  /\ lookup'[KeyOf[array'[i]]] # Nil
                        /\ lookup'[KeyOf[array'[i]]].index = i - 1
      OBVIOUS
    <3>1. CASE i = size + 1
      <4>1. lookup'[key] = [peer |-> p, index |-> size]
        BY <1>1 DEF IInv, TypeOK
      <4>2. lookup'[key] \in Item BY <4>1 DEF IInv, TypeOK, Item
      <4>3. size \in Nat BY DEF IInv, TypeOK
      <4>4. array'[i] = p BY <1>2, <3>1
      <4>5. lookup'[key] # Nil BY <4>2 DEF Item
      <4>6. lookup'[key].index = i - 1 BY <3>1, <4>1, <4>3
      <4> QED BY <4>4, <4>5, <4>6
    <3>2. CASE i \in 1 .. size
      <4>1. array[i] \in Peers /\ array'[i] = array[i]
        BY <1>1, <1>2, <3>2 DEF IInv, TypeOK
      <4>2. KeyOf[array[i]] # key
        BY <1>1, <3>2 DEF IInv, IndexConsistent
      <4>3. lookup'[KeyOf[array[i]]] = lookup[KeyOf[array[i]]]
        BY <1>1, <4>1, <4>2 DEF IInv, TypeOK
      <4> QED BY <3>2, <4>1, <4>3 DEF IInv, IndexConsistent
    <3> QED BY <1>1, <3>1, <3>2 DEF IInv, TypeOK
  <2> QED BY <1>1, <1>2, <1>4, <2>1, <2>2, Zenon DEF IndexConsistent
<1> QED BY <1>3, <1>5, <1>6 DEF IInv

LEMMA RemoveIInv ==
  ASSUME IInv, NEW p \in Peers, Remove(p)
  PROVE  IInv'
<1> USE PeerSetAssumption
<1> DEFINE key == KeyOf[p]
           item == lookup[key]
           last == array[size]
           moved == item.index + 1
<1>1. /\ key \in Keys
      /\ item # Nil
      /\ item \in Item
      /\ size = Len(array)
      /\ moved \in 1 .. size
      /\ array[moved] = item.peer
      /\ KeyOf[item.peer] = key
  BY DEF Remove, IInv, TypeOK, IndexConsistent, Item
<1>2. last \in Peers /\ KeyOf[last] \in Keys
  BY <1>1 DEF IInv, TypeOK
<1>3. /\ array' = [i \in 1 .. size - 1 |-> IF i = moved THEN last ELSE array[i]]
      /\ size' = size - 1
      /\ capacity' = size - 1
      /\ view' = LeftBehind
  BY <1>1, ListIsArray DEF Remove, WithoutIndex
<1>4. \A k \in Keys : lookup'[k] =
        IF k = key THEN Nil
        ELSE IF k = KeyOf[last]
             THEN [peer |-> lookup[k].peer, index |-> item.index]
             ELSE lookup[k]
  BY ListIsArray DEF Remove
<1>5. /\ array' \in Seq(Peers)
      /\ Len(array') = size - 1
  <2>1. \A i \in 1 .. size - 1 : array[i] \in Peers
    BY <1>1 DEF IInv, TypeOK
  <2> QED BY <1>1, <1>2, <1>3, <2>1 DEF IInv, TypeOK
<1>6. /\ lookup[KeyOf[last]] \in Item
      /\ lookup[KeyOf[last]] # Nil
      /\ lookup[KeyOf[last]].index = size - 1
      /\ lookup[KeyOf[last]].peer = last
  BY <1>1, <1>2 DEF IInv, TypeOK, IndexConsistent, Item
<1>7. KeyOf[last] = key <=> moved = size
  BY <1>1, <1>6 DEF IInv, TypeOK, IndexConsistent, Item
<1>8. TypeOK'
  <2>1. lookup' = [k \in Keys |->
                    IF k = key THEN Nil
                    ELSE IF k = KeyOf[last]
                         THEN [peer |-> lookup[k].peer, index |-> item.index]
                         ELSE lookup[k]]
    BY ListIsArray DEF Remove
  <2>2. \A k \in Keys : lookup'[k] \in Item \cup {Nil}
    <3> SUFFICES ASSUME NEW k \in Keys PROVE lookup'[k] \in Item \cup {Nil}
      OBVIOUS
    <3>1. lookup[k] \in Item \cup {Nil} BY DEF IInv, TypeOK
    <3>2. [peer |-> last, index |-> item.index] \in Item BY <1>1, <1>2 DEF Item
    <3> QED BY <1>4, <1>6, <3>1, <3>2, Zenon
  <2>3. lookup' \in [Keys -> Item \cup {Nil}] BY <2>1, <2>2
  <2>4. size' \in Nat /\ capacity' \in Nat
    BY <1>1, <1>3 DEF IInv, TypeOK
  <2> QED BY <1>3, <1>5, <2>3, <2>4, LeftBehindStable DEF TypeOK
<1>9. IndexConsistent'
  <2>1. ASSUME NEW k \in Keys, lookup'[k] # Nil
        PROVE  /\ KeyOf[lookup'[k].peer] = k
               /\ lookup'[k].index < size'
               /\ array'[lookup'[k].index + 1] = lookup'[k].peer
    <3>1. k # key BY <1>4, <2>1, Zenon
    <3>2. CASE k = KeyOf[last]
      <4>1. lookup'[k] = [peer |-> last, index |-> item.index]
        BY <1>4, <1>6, <3>1, <3>2
      <4>2. moved # size BY <1>7, <3>1, <3>2
      <4>3. moved \in 1 .. size - 1 BY <1>1, <4>2 DEF IInv, TypeOK
      <4>4. array'[moved] = last BY <1>3, <4>3
      <4>5. item.index \in Nat BY <1>1 DEF Item
      <4> QED BY <1>3, <3>2, <4>1, <4>3, <4>4, <4>5 DEF IInv, TypeOK
    <3>3. CASE k # KeyOf[last]
      <4>1. lookup'[k] = lookup[k] /\ lookup[k] \in Item
        BY <1>4, <2>1, <3>1, <3>3, Zenon DEF IInv, TypeOK
      <4> DEFINE i == lookup[k].index + 1
      <4>2. /\ i \in 1 .. size
            /\ array[i] = lookup[k].peer
            /\ KeyOf[array[i]] = k
        BY <2>1, <4>1 DEF IInv, TypeOK, IndexConsistent, Item
      <4>3. i # size BY <4>2, <3>3
      <4>4. i # moved BY <4>2, <1>1, <3>1
      <4>5. i \in 1 .. size - 1 BY <4>2, <4>3 DEF IInv, TypeOK
      <4>6. array'[i] = array[i] BY <1>3, <4>4, <4>5
      <4> QED BY <1>3, <4>1, <4>2, <4>5, <4>6 DEF IInv, TypeOK, Item
    <3> QED BY <3>2, <3>3
  <2>2. ASSUME NEW i \in 1 .. size'
        PROVE  /\ lookup'[KeyOf[array'[i]]] # Nil
               /\ lookup'[KeyOf[array'[i]]].index = i - 1
    <3>0. i \in 1 .. size - 1 /\ i \in 1 .. size /\ i # size
      BY <1>3 DEF IInv, TypeOK
    <3>1. CASE i = moved
      <4>1. array'[i] = last BY <1>3, <3>0, <3>1
      <4>2. KeyOf[last] # key BY <1>7, <3>0, <3>1
      <4>3. lookup'[KeyOf[last]] = [peer |-> last, index |-> item.index]
        BY <1>2, <1>4, <1>6, <4>2
      <4>4. lookup'[KeyOf[last]] \in Item BY <1>1, <1>2, <4>3 DEF Item
      <4>5. item.index = i - 1 BY <1>1, <3>1 DEF Item
      <4> QED BY <4>1, <4>3, <4>4, <4>5 DEF Item
    <3>2. CASE i # moved
      <4>1. array'[i] = array[i] BY <1>3, <3>0, <3>2
      <4>2. array[i] \in Peers /\ KeyOf[array[i]] \in Keys
        BY <1>1, <3>0 DEF IInv, TypeOK
      <4>3. /\ lookup[KeyOf[array[i]]] # Nil
            /\ lookup[KeyOf[array[i]]].index = i - 1
        BY <3>0 DEF IInv, IndexConsistent
      <4>4. KeyOf[array[i]] # key
        <5> SUFFICES ASSUME KeyOf[array[i]] = key PROVE FALSE OBVIOUS
        <5>1. item.index = i - 1 BY <4>3
        <5> QED BY <5>1, <1>1, <3>0, <3>2 DEF Item
      <4>5. KeyOf[array[i]] # KeyOf[last]
        <5> SUFFICES ASSUME KeyOf[array[i]] = KeyOf[last] PROVE FALSE OBVIOUS
        <5>1. i - 1 = size - 1 BY <4>3, <1>6
        <5> QED BY <5>1, <3>0 DEF IInv, TypeOK
      <4>6. lookup'[KeyOf[array[i]]] = lookup[KeyOf[array[i]]]
        BY <1>4, <4>2, <4>4, <4>5, Zenon
      <4> QED BY <4>1, <4>3, <4>6
    <3> QED BY <3>1, <3>2
  <2>3. size' <= capacity' /\ size' = Len(array')
    <3>1. size \in Nat BY DEF IInv, TypeOK
    <3>2. size' = size - 1 /\ capacity' = size - 1 BY <1>3
    <3>3. size' = Len(array') BY <1>5, <3>2
    <3>4. size' <= capacity' BY <3>1, <3>2
    <3> QED BY <3>3, <3>4
  <2> QED BY <2>1, <2>2, <2>3 DEF IndexConsistent
<1> QED BY <1>3, <1>8, <1>9, LeftBehindStable DEF IInv

LEMMA ListIInv ==
  ASSUME IInv, NEW r \in Readers, List(r)
  PROVE  IInv'
<1>1. list \in Seq(Peers) /\ list = array /\ Len(array) = size
  BY ListIsArray DEF IInv, TypeOK, IndexConsistent
<1>2. view' \in [Readers -> Slice]
  BY <1>1 DEF List, IInv, TypeOK, Slice
<1>3. SnapshotsStable' /\ LiveBounded'
  BY <1>1 DEF List, IInv, TypeOK, Slice, SnapshotsStable, LiveBounded, Seen, list
<1> QED BY <1>2, <1>3 DEF List, IInv, TypeOK, IndexConsistent

LEMMA StepIInv == IInv /\ [Next]_vars => IInv'
<1> SUFFICES ASSUME IInv, [Next]_vars PROVE IInv' OBVIOUS
<1>1. CASE \E p \in Peers : Add(p) BY <1>1, AddIInv
<1>2. CASE \E p \in Peers : Remove(p) BY <1>2, RemoveIInv
<1>3. CASE \E r \in Readers : List(r) BY <1>3, ListIInv
<1>4. CASE UNCHANGED vars
  BY <1>4 DEF vars, IInv, TypeOK, IndexConsistent, SnapshotsStable, LiveBounded,
              Seen
<1> QED BY <1>1, <1>2, <1>3, <1>4 DEF Next

\* In every reachable state of PeerSet the map and the list agree, for any
\* number of peers, keys and readers.
THEOREM IndexAlwaysConsistent == Spec => [](TypeOK /\ IndexConsistent)
<1>1. IInv => TypeOK /\ IndexConsistent BY DEF IInv
<1> QED BY <1>1, InitIInv, StepIInv, PTL DEF Spec

\* A slice returned by PeerSet.List never changes, for any number of goroutines
\* that iterate over such slices.
THEOREM SnapshotsAlwaysStable == Spec => []SnapshotsStable
<1>1. IInv => SnapshotsStable BY DEF IInv
<1> QED BY <1>1, InitIInv, StepIInv, PTL DEF Spec

-----------------------------------------------------------------------------
(* Refinement.                                                             *)

\* The key of a member is the key it is stored under.
LEMMA MembersByKey ==
  ASSUME IInv, NEW k \in Keys
  PROVE  /\ lookup[k] # Nil => lookup[k].peer \in Members /\ KeyOf[lookup[k].peer] = k
         /\ \A q \in Members : KeyOf[q] = k => lookup[k] # Nil /\ q = lookup[k].peer
  BY DEF IInv, IndexConsistent, Members

LEMMA AddImplements ==
  ASSUME IInv, NEW p \in Peers, Add(p)
  PROVE  Table!Add(p)
<1>1. /\ KeyOf[p] \in Keys
      /\ lookup[KeyOf[p]] = Nil
      /\ lookup' = [lookup EXCEPT ![KeyOf[p]] = [peer |-> p, index |-> size]]
  BY PeerSetAssumption DEF Add
<1>2. ~Table!Has(KeyOf[p])
  BY <1>1, MembersByKey DEF Table!Has
<1>3. lookup'[KeyOf[p]] # Nil /\ lookup'[KeyOf[p]].peer = p
  <2>1. [peer |-> p, index |-> size] \in Item BY DEF IInv, TypeOK, Item
  <2> QED BY <1>1, <2>1, PeerSetAssumption DEF IInv, TypeOK, Item
<1>4. \A k \in Keys : k # KeyOf[p] => lookup'[k] = lookup[k]
  BY <1>1 DEF IInv, TypeOK
<1>5. Members' = Members \cup {p}
  BY <1>1, <1>3, <1>4 DEF Members
<1> QED BY <1>2, <1>5 DEF Table!Add

LEMMA RemoveImplements ==
  ASSUME IInv, NEW p \in Peers, Remove(p)
  PROVE  Table!Remove(p)
<1>1. KeyOf[p] \in Keys BY PeerSetAssumption
<1>2. \A k \in Keys : k # KeyOf[p] =>
        /\ lookup'[k] = Nil <=> lookup[k] = Nil
        /\ lookup[k] # Nil => lookup'[k].peer = lookup[k].peer
  <2> SUFFICES ASSUME NEW k \in Keys, k # KeyOf[p]
               PROVE  /\ lookup'[k] = Nil <=> lookup[k] = Nil
                      /\ lookup[k] # Nil => lookup'[k].peer = lookup[k].peer
    OBVIOUS
  <2>1. CASE k = KeyOf[list[size]]
    <3>1. list[size] = array[size] /\ size = Len(array) /\ size > 0
      BY <1>1, ListIsArray DEF Remove, IInv, TypeOK, IndexConsistent, Item
    <3>2. lookup[k] # Nil /\ lookup[k] \in Item
      BY <2>1, <3>1 DEF IInv, TypeOK, IndexConsistent
    <3>3. lookup[KeyOf[p]] \in Item BY <1>1 DEF Remove, IInv, TypeOK
    <3>4. lookup'[k] = [peer |-> lookup[k].peer, index |-> lookup[KeyOf[p]].index]
      BY <2>1 DEF Remove
    <3>5. lookup'[k] \in Item BY <3>2, <3>3, <3>4 DEF Item
    <3> QED BY <3>2, <3>4, <3>5, PeerSetAssumption DEF Item
  <2>2. CASE k # KeyOf[list[size]]
    BY <2>2 DEF Remove
  <2> QED BY <2>1, <2>2
<1>3. lookup'[KeyOf[p]] = Nil BY <1>1 DEF Remove
<1>4. Members' = {q \in Members : KeyOf[q] # KeyOf[p]}
  BY <1>1, <1>2, <1>3, MembersByKey DEF Members
<1> QED BY <1>4 DEF Table!Remove

\* PeerSet implements the table with one peer per key that the switch relies on.
THEOREM PeerSetImplementsTable == Spec => ImplementsTable
<1>1. Init => Table!Init BY DEF Init, Table!Init, Members
<1>2. IInv /\ [Next]_vars => [Table!Next]_Members
  <2> SUFFICES ASSUME IInv, [Next]_vars PROVE [Table!Next]_Members OBVIOUS
  <2>1. CASE \E p \in Peers : Add(p)
    BY <2>1, AddImplements DEF Table!Next
  <2>2. CASE \E p \in Peers : Remove(p)
    BY <2>2, RemoveImplements DEF Table!Next
  <2>3. CASE \E r \in Readers : List(r)
    BY <2>3 DEF List, Members
  <2>4. CASE UNCHANGED vars
    BY <2>4 DEF vars, Members
  <2> QED BY <2>1, <2>2, <2>3, <2>4 DEF Next
<1> QED BY <1>1, <1>2, InitIInv, StepIInv, PTL DEF Spec, ImplementsTable, Table!Spec

-----------------------------------------------------------------------------
(* Banning: a ban holds for its whole duration, and no offender is missed. *)

\* What the proof needs of the types: the clock, the lists and the peers that
\* the workers hold.
BanType ==
    /\ now \in Int
    /\ bannedPeer \in [Hosts -> Int \cup {None}]
    /\ lastBan \in [Hosts -> Int \cup {None}]
    /\ \A w \in Workers : worker[w] # Idle => worker[w].peer \in NetPeers
    /\ worker \in [Workers -> [at : {"idle", "ban", "stop"}, peer : NetPeers \cup {None}]]

\* The database has what the map has, and a host whose ban is not over has it
\* in the map.
BanInv ==
    /\ BanType
    /\ db = bannedPeer
    /\ \A h \in Hosts : (lastBan[h] # None /\ now < lastBan[h] + BanDuration) =>
         bannedPeer[h] = lastBan[h] + BanDuration

LEMMA BanInit == BanningInit => BanInv
  BY BanningAssumption DEF BanningInit, BanInv, BanType, Idle

LEMMA BanStep == BanInv /\ [BanningNext]_banningVars => BanInv'
<1> SUFFICES ASSUME BanInv, [BanningNext]_banningVars PROVE BanInv' OBVIOUS
<1> USE BanningAssumption
<1>1. ASSUME NEW w \in Workers, NEW p \in NetPeers, NEW o \in Offences, addBanScore(w, p, o)
      PROVE  BanInv'
  <2>1. \/ worker' = worker
        \/ worker' = [worker EXCEPT ![w] = [at |-> "ban", peer |-> p]]
    BY <1>1 DEF addBanScore
  <2>2. BanType'
    BY <1>1, <2>1 DEF addBanScore, BanInv, BanType, Idle
  <2> QED BY <1>1, <2>2 DEF addBanScore, BanInv
<1>2. ASSUME NEW w \in Workers, AddBannedPeer(w) PROVE BanInv'
  <2> DEFINE h == HostOf[worker[w].peer]
  <2>1. worker[w].peer \in NetPeers BY <1>2 DEF AddBannedPeer, BanInv, BanType, Idle
  <2>2. h \in Hosts BY <2>1 DEF Hosts
  <2>3. /\ bannedPeer' = [bannedPeer EXCEPT ![h] = now + BanDuration]
        /\ db' = bannedPeer'
        /\ lastBan' = [lastBan EXCEPT ![h] = now]
        /\ worker' = [worker EXCEPT ![w].at = "stop"]
        /\ now' = now
    BY <1>2 DEF AddBannedPeer
  <2> HIDE DEF h
  <2>4. /\ bannedPeer' \in [Hosts -> Int \cup {None}]
        /\ lastBan' \in [Hosts -> Int \cup {None}]
    <3>1. now \in Int /\ now + BanDuration \in Int BY DEF BanInv, BanType
    <3>2. bannedPeer' \in [Hosts -> Int \cup {None}]
      BY <2>3, <3>1, Zenon DEF BanInv, BanType
    <3>3. lastBan' \in [Hosts -> Int \cup {None}]
      BY <2>3, <3>1, Zenon DEF BanInv, BanType
    <3> QED BY <3>2, <3>3
  <2>5. /\ worker' \in [Workers -> [at : {"idle", "ban", "stop"}, peer : NetPeers \cup {None}]]
        /\ \A v \in Workers : worker'[v] # Idle => worker'[v].peer \in NetPeers
    BY <2>1, <2>3 DEF BanInv, BanType
  <2>6. ASSUME NEW g \in Hosts, lastBan'[g] # None, now' < lastBan'[g] + BanDuration
        PROVE  bannedPeer'[g] = lastBan'[g] + BanDuration
    <3>1. CASE g = h BY <2>3, <3>1 DEF BanInv, BanType
    <3>2. CASE g # h BY <2>3, <2>6, <3>2 DEF BanInv, BanType
    <3> QED BY <3>1, <3>2
  <2> QED BY <2>3, <2>4, <2>5, <2>6 DEF BanInv, BanType
<1>3. ASSUME NEW w \in Workers, StopPeerGracefully(w) PROVE BanInv'
  BY <1>3 DEF StopPeerGracefully, BanInv, BanType, Idle
<1>4. ASSUME NEW p \in NetPeers, Connect(p) PROVE BanInv'
  <2> DEFINE h == HostOf[p]
  <2>1. h \in Hosts BY DEF Hosts
  <2>2. UNCHANGED <<now, worker, lastBan>> /\ Admit(h) BY <1>4 DEF Connect
  <2> HIDE DEF h
  <2>3. CASE bannedPeer[h] = None
    BY <2>2, <2>3 DEF Admit, BanInv, BanType
  <2>4. CASE bannedPeer[h] # None
    <3>1. /\ bannedPeer' = [bannedPeer EXCEPT ![h] = None]
          /\ db' = bannedPeer' /\ now >= bannedPeer[h]
      BY <2>2, <2>4 DEF Admit
    <3>2. ~(lastBan[h] # None /\ now < lastBan[h] + BanDuration)
      BY <2>1, <2>4, <3>1 DEF BanInv, BanType
    <3> QED BY <2>2, <3>1, <3>2, Zenon DEF BanInv, BanType
  <2> QED BY <2>3, <2>4
<1>5. ASSUME NEW p \in NetPeers, Disconnect(p) PROVE BanInv'
  BY <1>5 DEF Disconnect, BanInv, BanType
<1>6. CASE Restart
  BY <1>6 DEF Restart, BanInv, BanType, Idle
<1>7. CASE Tick
  BY <1>7 DEF Tick, BanInv, BanType
<1>8. CASE UNCHANGED banningVars
  BY <1>8 DEF banningVars, BanInv, BanType
<1> QED BY <1>1, <1>2, <1>3, <1>4, <1>5, <1>6, <1>7, <1>8 DEF BanningNext, WorkerStep

\* checkBannedPeer admits nobody from a host before its last ban is over, across
\* restarts and whatever else happens to the list.
THEOREM BansHold == BanningSpec => BannedStayOut
<1>1. ASSUME BanInv, NEW p \in NetPeers, Connect(p), lastBan[HostOf[p]] # None
      PROVE  now >= lastBan[HostOf[p]] + BanDuration
  <2>1. HostOf[p] \in Hosts BY DEF Hosts
  <2>2. bannedPeer[HostOf[p]] # None => now >= bannedPeer[HostOf[p]]
    BY <1>1 DEF Connect, Admit
  <2> QED BY <1>1, <2>1, <2>2, BanningAssumption DEF BanInv, BanType
<1>2. BanInv /\ [BanningNext]_banningVars =>
        [\A p \in NetPeers : Connect(p) /\ lastBan[HostOf[p]] # None =>
           now >= lastBan[HostOf[p]] + BanDuration]_banningVars
  BY <1>1
<1> QED BY <1>2, BanInit, BanStep, PTL DEF BanningSpec, BannedStayOut

-----------------------------------------------------------------------------
(* Offenders are banned.                                                   *)

\* A worker judges peers of this process only.
Judged == \A w \in Workers : worker[w] # Idle => status[worker[w].peer] \in {"connected", "gone"}

\* The scores are numbers, only a peer that has connected has one above 0, and
\* whoever is above the threshold is banned or about to be.
OffenceInv ==
    /\ score \in [NetPeers -> Score]
    /\ status \in [NetPeers -> {"new", "connected", "gone", "lost"}]
    /\ \A p \in NetPeers : status[p] = "new" => score[p].persistent = 0
    /\ Judged
    /\ NoOffenderMissed

\* The quotient of a number and a positive one is a number.
LEMMA DivNat == ASSUME NEW a \in Nat, NEW b \in Nat \ {0} PROVE a \div b \in Nat
  OBVIOUS

\* increase gives a score, raises the persistent part, and increased is at least
\* that part: a persistent score above the threshold is always noticed.
LEMMA IncreaseScore ==
  ASSUME NEW s \in Score, NEW o \in Offences, NEW t \in Int
  PROVE  /\ increase(s, o, t) \in Score
         /\ increased(s, o, t) >= increase(s, o, t).persistent
         /\ increased(s, o, t) \in Nat
<1> USE BanningAssumption
<1> DEFINE dt == t - s.last
           decayed == IF Lifetime < dt THEN 0
                      ELSE IF s.transient > Unit /\ dt > 0 THEN Decayed(s.transient, dt)
                      ELSE s.transient
           n == increase(s, o, t)
<1>1. /\ s.persistent \in Nat /\ s.transient \in Nat /\ s.last \in Int /\ dt \in Int
      /\ o.persistent \in Nat /\ o.transient \in Nat /\ Lifetime \in Nat /\ MaxTime \in Nat
  BY DEF Score
<1>2. Unit \in Nat \ {0} BY <1>1 DEF Unit
<1> HIDE DEF dt
<1>3. decayed \in Nat
  <2>1. CASE ~(Lifetime < dt) /\ dt > 0
    <3>1. dt \in 0 .. MaxTime + Lifetime BY <1>1, <2>1
    <3>2. 2 ^ dt \in Nat \ {0} BY <3>1
    <3> DEFINE d == 2 ^ dt
    <3>3. d \in Nat \ {0} BY <3>2
    <3>4. Decayed(s.transient, dt) = s.transient \div d BY DEF Decayed
    <3> HIDE DEF d
    <3>5. Decayed(s.transient, dt) \in Nat BY <1>1, <3>3, <3>4, DivNat
    <3> QED BY <1>1, <2>1, <3>5
  <2>2. CASE Lifetime < dt \/ ~(dt > 0) BY <1>1, <2>2
  <2> QED BY <2>1, <2>2
<1>4. \/ n = [persistent |-> s.persistent + o.persistent,
               transient |-> decayed + o.transient * Unit, last |-> t]
      \/ n = [persistent |-> s.persistent + o.persistent,
               transient |-> s.transient, last |-> s.last]
  BY Zenon DEF increase, dt
<1>5. increased(s, o, t) = n.persistent + n.transient \div Unit BY Zenon DEF increased
<1> HIDE DEF decayed, n
<1>6. /\ s.persistent + o.persistent \in Nat
      /\ decayed + o.transient * Unit \in Nat
  <2> DEFINE u == Unit
  <2>1. u \in Nat BY <1>2
  <2> HIDE DEF u
  <2>2. o.transient * u \in Nat BY <1>1, <2>1
  <2>3. decayed + o.transient * u \in Nat BY <1>3, <2>2
  <2> QED BY <1>1, <2>3 DEF u
<1>7. n \in Score BY <1>1, <1>4, <1>6 DEF Score
<1>8. n.persistent \in Nat /\ n.transient \in Nat BY <1>7 DEF Score
<1>9. n.transient \div Unit \in Nat BY <1>2, <1>8, DivNat
<1> DEFINE q == n.transient \div Unit
<1>10. q \in Nat /\ increased(s, o, t) = n.persistent + q BY <1>5, <1>9
<1> HIDE DEF q
<1> QED BY <1>7, <1>8, <1>10 DEF n

\* Nobody has a score at the start.
LEMMA OffenceInit == BanningInit => OffenceInv
<1> SUFFICES ASSUME BanningInit PROVE OffenceInv OBVIOUS
<1> USE BanningAssumption
<1>1. score \in [NetPeers -> Score] BY DEF BanningInit, Score
<1>2. \A p \in NetPeers : score[p].persistent = 0 BY DEF BanningInit
<1>3. NoOffenderMissed BY <1>2 DEF NoOffenderMissed
<1>4. Judged BY DEF BanningInit, Judged
<1> QED BY <1>1, <1>2, <1>3, <1>4 DEF BanningInit, OffenceInv

\* Every step keeps it; a worker that bans the peer leaves lastBan behind.
LEMMA OffenceStep == BanInv /\ OffenceInv /\ [BanningNext]_banningVars => OffenceInv'
<1> SUFFICES ASSUME BanInv, OffenceInv, [BanningNext]_banningVars PROVE OffenceInv' OBVIOUS
<1> USE BanningAssumption
<1>1. ASSUME NEW w \in Workers, NEW p \in NetPeers, NEW o \in Offences, addBanScore(w, p, o)
      PROVE  OffenceInv'
  <2> DEFINE new == increase(score[p], o, now)
             total == increased(score[p], o, now)
  <2>1. score[p] \in Score /\ now \in Int BY DEF OffenceInv, BanInv, BanType
  <2>2. new \in Score /\ total >= new.persistent /\ total \in Nat BY <2>1, IncreaseScore
  <2>3. /\ worker[w] = Idle /\ status[p] \in {"connected", "gone"}
        /\ score' = [score EXCEPT ![p] = new]
        /\ worker' = IF total > Threshold
                     THEN [worker EXCEPT ![w] = [at |-> "ban", peer |-> p]]
                     ELSE worker
        /\ UNCHANGED <<status, lastBan>>
    BY <1>1 DEF addBanScore
  <2> HIDE DEF new, total
  <2>4. score' \in [NetPeers -> Score] BY <2>2, <2>3 DEF OffenceInv
  <2>5. \A r \in NetPeers : status'[r] = "new" => score'[r].persistent = 0
    BY <2>3 DEF OffenceInv
  <2>6. ASSUME NEW r \in NetPeers, score'[r].persistent > Threshold, status'[r] # "lost",
               lastBan'[HostOf[r]] = None
        PROVE  \E v \in Workers : worker'[v].at = "ban" /\ worker'[v].peer = r
    <3>1. CASE r = p
      <4>1. score'[p] = new BY <2>3 DEF OffenceInv
      <4>2. new.persistent \in Nat /\ new.persistent > Threshold BY <2>2, <2>6, <3>1, <4>1 DEF Score
      <4>3. total > Threshold BY <2>2, <4>2
      <4>4. worker'[w] = [at |-> "ban", peer |-> p] BY <2>3, <4>3 DEF BanInv, BanType
      <4> QED BY <3>1, <4>4
    <3>2. CASE r # p
      <4>1. score'[r] = score[r] BY <2>3, <3>2 DEF OffenceInv
      <4>2. PICK v \in Workers : worker[v].at = "ban" /\ worker[v].peer = r
        BY <2>3, <2>6, <4>1 DEF OffenceInv, NoOffenderMissed
      <4>3. v # w BY <2>3, <4>2 DEF Idle
      <4>4. worker'[v] = worker[v] BY <2>3, <4>3 DEF BanInv, BanType
      <4> QED BY <4>2, <4>4
    <3> QED BY <3>1, <3>2
  <2>7. NoOffenderMissed' BY <2>6 DEF NoOffenderMissed
  <2>8. Judged' BY <2>3 DEF OffenceInv, Judged, BanInv, BanType
  <2> QED BY <2>3, <2>4, <2>5, <2>7, <2>8 DEF OffenceInv
<1>2. ASSUME NEW w \in Workers, AddBannedPeer(w) PROVE OffenceInv'
  <2> DEFINE h == HostOf[worker[w].peer]
  <2>1. worker[w].peer \in NetPeers BY <1>2 DEF AddBannedPeer, BanInv, BanType, Idle
  <2>2. /\ lastBan' = [lastBan EXCEPT ![h] = now]
        /\ worker' = [worker EXCEPT ![w].at = "stop"]
        /\ UNCHANGED <<status, score>>
    BY <1>2 DEF AddBannedPeer
  <2>3. now # None BY DEF BanInv, BanType
  <2>4. ASSUME NEW r \in NetPeers, score'[r].persistent > Threshold, status'[r] # "lost",
               lastBan'[HostOf[r]] = None
        PROVE  \E v \in Workers : worker'[v].at = "ban" /\ worker'[v].peer = r
    <3>1. HostOf[r] \in Hosts /\ h \in Hosts BY <2>1 DEF Hosts
    <3>2. HostOf[r] # h BY <2>2, <2>3, <2>4, <3>1 DEF BanInv, BanType
    <3>3. lastBan[HostOf[r]] = None BY <2>2, <2>4, <3>1, <3>2 DEF BanInv, BanType
    <3>4. PICK v \in Workers : worker[v].at = "ban" /\ worker[v].peer = r
      BY <2>2, <2>4, <3>3 DEF OffenceInv, NoOffenderMissed
    <3>5. v # w BY <3>2, <3>4
    <3>6. worker'[v] = worker[v] BY <2>2, <3>5 DEF BanInv, BanType
    <3> QED BY <3>4, <3>6
  <2>5. NoOffenderMissed' BY <2>4 DEF NoOffenderMissed
  <2>6. Judged'
    <3>1. worker[w] # Idle BY <1>2 DEF AddBannedPeer, Idle
    <3>2. worker'[w].peer = worker[w].peer /\ \A v \in Workers : v # w => worker'[v] = worker[v]
      BY <2>2 DEF BanInv, BanType
    <3> QED BY <2>2, <3>1, <3>2 DEF OffenceInv, Judged
  <2> QED BY <2>2, <2>5, <2>6 DEF OffenceInv
<1>3. ASSUME NEW w \in Workers, StopPeerGracefully(w) PROVE OffenceInv'
  <2>1. /\ worker[w].at = "stop"
        /\ status' = [status EXCEPT ![worker[w].peer] = "gone"]
        /\ worker' = [worker EXCEPT ![w] = Idle]
        /\ UNCHANGED <<score, lastBan>>
    BY <1>3 DEF StopPeerGracefully
  <2>2. ASSUME NEW r \in NetPeers
        PROVE  /\ status'[r] # "lost" => status[r] # "lost"
               /\ status'[r] = "new" => status[r] = "new"
    <3>1. worker[w] # Idle BY <2>1 DEF Idle
    <3>2. status[worker[w].peer] \in {"connected", "gone"} BY <3>1 DEF OffenceInv, Judged
    <3> QED BY <2>1, <3>2 DEF OffenceInv
  <2>3. status' \in [NetPeers -> {"new", "connected", "gone", "lost"}] BY <2>1 DEF OffenceInv
  <2>4. ASSUME NEW v \in Workers, worker[v].at = "ban" PROVE worker'[v] = worker[v]
    BY <2>1, <2>4 DEF BanInv, BanType
  <2>5. NoOffenderMissed' BY <2>1, <2>2, <2>4 DEF OffenceInv, NoOffenderMissed
  <2>6. Judged'
    <3> SUFFICES ASSUME NEW v \in Workers, worker'[v] # Idle
                 PROVE  status'[worker'[v].peer] \in {"connected", "gone"}
      BY DEF Judged
    <3>1. worker'[v] = worker[v] BY <2>1 DEF BanInv, BanType
    <3>2. worker[v].peer \in NetPeers /\ status[worker[v].peer] \in {"connected", "gone"}
      BY <3>1 DEF OffenceInv, Judged, BanInv, BanType
    <3> QED BY <2>1, <3>1, <3>2 DEF OffenceInv
  <2> QED BY <2>1, <2>2, <2>3, <2>5, <2>6 DEF OffenceInv
<1>4. ASSUME NEW p \in NetPeers, Connect(p) PROVE OffenceInv'
  <2>1. /\ status[p] = "new" /\ status' = [status EXCEPT ![p] = "connected"]
        /\ UNCHANGED <<score, worker, lastBan>>
    BY <1>4 DEF Connect
  <2>2. NoOffenderMissed' BY <2>1 DEF OffenceInv, NoOffenderMissed
  <2>3. Judged' BY <2>1 DEF OffenceInv, Judged, BanInv, BanType
  <2> QED BY <2>1, <2>2, <2>3 DEF OffenceInv
<1>5. ASSUME NEW p \in NetPeers, Disconnect(p) PROVE OffenceInv'
  <2>1. /\ status[p] = "connected" /\ status' = [status EXCEPT ![p] = "gone"]
        /\ UNCHANGED <<score, worker, lastBan>>
    BY <1>5 DEF Disconnect
  <2>2. NoOffenderMissed' BY <2>1 DEF OffenceInv, NoOffenderMissed
  <2>3. Judged' BY <2>1 DEF OffenceInv, Judged, BanInv, BanType
  <2> QED BY <2>1, <2>2, <2>3 DEF OffenceInv
<1>6. CASE Restart
  <2>1. /\ status' = [p \in NetPeers |-> IF status[p] = "new" THEN "new" ELSE "lost"]
        /\ UNCHANGED <<score, lastBan>>
    BY <1>6 DEF Restart
  <2>2. NoOffenderMissed' BY <2>1 DEF OffenceInv, NoOffenderMissed
  <2>3. Judged' BY <1>6 DEF Judged, Restart, Idle
  <2> QED BY <2>1, <2>2, <2>3 DEF OffenceInv
<1>7. CASE Tick \/ UNCHANGED banningVars
  BY <1>7 DEF Tick, banningVars, OffenceInv, NoOffenderMissed, Judged
<1> QED BY <1>1, <1>2, <1>3, <1>4, <1>5, <1>6, <1>7 DEF BanningNext, WorkerStep

\* A peer whose persistent score has passed the threshold is banned, or a worker
\* is about to ban it: of any number of workers that raise one score at once,
\* none of which sees the others, at least one decides to ban (addBanScore).
THEOREM OffendersNeverMissed == BanningSpec => []NoOffenderMissed
<1>1. OffenceInv => NoOffenderMissed BY DEF OffenceInv
<1> QED BY <1>1, BanInit, BanStep, OffenceInit, OffenceStep, PTL DEF BanningSpec
=============================================================================
