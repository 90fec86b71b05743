--------------------------- MODULE HandshakeProofs ---------------------------
(***************************************************************************)
(* Proofs about netsync/sync.go (txsyncLoop) and the status handshake of   *)
(* netsync/protocol_reactor.go, for any connections, nodes, pools of       *)
(* transactions, sizes of transactions and packs, and any failures.        *)
(***************************************************************************)
EXTENDS Handshake, TLAPS, SequenceTheorems, WellFoundedInduction

\* A leaf is tried with SMT and Zenon, and then again with more time.
USE SMT, Zenon, SMTT(40), ZenonT(40), Z3T(40)

-----------------------------------------------------------------------------
(* The least number of a set, and induction over the natural numbers, with *)
(* sets in place of predicates.                                            *)

LEMMA LeastNumber ==
  ASSUME NEW T, T \subseteq Nat, T # {}
  PROVE  \E x \in T : \A y \in T : x <= y
<1> DEFINE R == {p \in Nat \X Nat : p[1] < p[2]}
<1>1. IsWellFoundedOn(R, Nat)
  <2>1. OpToRel(<, Nat) = R BY DEF OpToRel
  <2> QED BY <2>1, NatLessThanWellFounded
<1> HIDE DEF R
<1>2. PICK x \in T : \A y \in T : ~(<<y, x>> \in R) BY <1>1, WFMin
<1>3. \A y \in T : ~(y < x)
  <2> SUFFICES ASSUME NEW y \in T, y < x PROVE FALSE OBVIOUS
  <2>1. <<y, x>> \in R BY <1>2 DEF R
  <2> QED BY <1>2, <2>1
<1>4. \A y \in T : x <= y BY <1>2, <1>3
<1> QED BY <1>2, <1>4

LEMMA InductionOnSet ==
  ASSUME NEW T, 0 \in T, \A n \in Nat : n \in T => n + 1 \in T
  PROVE  Nat \subseteq T
<1> SUFFICES ASSUME Nat \ T # {} PROVE FALSE OBVIOUS
<1>1. PICK x \in Nat \ T : \A y \in Nat \ T : x <= y BY LeastNumber
<1>2. x # 0 BY <1>1
<1>3. x - 1 \in Nat BY <1>2
<1>4. x - 1 \in T BY <1>1, <1>3
<1> QED BY <1>1, <1>3, <1>4

-----------------------------------------------------------------------------
(* The sizes of packs.                                                     *)

\* sum is the function of running totals that Total defines.
Totals(txs, n, sum) ==
    sum = [i \in 0 .. n |-> IF i = 0 THEN 0 ELSE sum[i - 1] + SizeOf[txs[i]]]

LEMMA TotalsExist ==
  ASSUME NEW txs \in Seq(Txs), NEW n \in 0 .. Len(txs)
  PROVE  \E sum \in [0 .. n -> Nat] : Totals(txs, n, sum)
<1> DEFINE T == {k \in Nat : k <= Len(txs) =>
                               \E sum \in [0 .. k -> Nat] : Totals(txs, k, sum)}
<1>1. 0 \in T
  <2>1. Totals(txs, 0, [i \in 0 .. 0 |-> 0]) BY DEF Totals
  <2> QED BY <2>1
<1>2. ASSUME NEW k \in Nat, k \in T PROVE k + 1 \in T
  <2> SUFFICES ASSUME k + 1 <= Len(txs)
               PROVE  \E sum \in [0 .. k + 1 -> Nat] : Totals(txs, k + 1, sum)
    OBVIOUS
  <2>1. PICK sum \in [0 .. k -> Nat] : Totals(txs, k, sum) BY <1>2
  <2> DEFINE longer == [i \in 0 .. k + 1 |->
                          IF i = k + 1 THEN sum[k] + SizeOf[txs[k + 1]] ELSE sum[i]]
  <2>2. SizeOf[txs[k + 1]] \in Nat BY SizeAssumption
  <2>3. longer \in [0 .. k + 1 -> Nat] BY <2>1, <2>2
  <2>4. \A i \in 0 .. k : sum[i] = IF i = 0 THEN 0 ELSE sum[i - 1] + SizeOf[txs[i]]
    BY <2>1 DEF Totals
  <2>5. \A i \in 0 .. k + 1 :
          longer[i] = IF i = 0 THEN 0 ELSE longer[i - 1] + SizeOf[txs[i]]
    BY <2>4
  <2>6. Totals(txs, k + 1, longer) BY <2>5 DEF Totals
  <2> QED BY <2>3, <2>6
<1> HIDE DEF T
<1>3. Nat \subseteq T BY <1>1, <1>2, InductionOnSet
<1> QED BY <1>3 DEF T

\* The values of such a function are numbers, whichever function CHOOSE takes.
LEMMA TotalsNat ==
  ASSUME NEW txs \in Seq(Txs), NEW n \in 0 .. Len(txs), NEW sum, Totals(txs, n, sum)
  PROVE  sum[n] \in Nat
<1> DEFINE T == {k \in Nat : k <= n => sum[k] \in Nat}
<1>0. \A i \in 0 .. n : sum[i] = IF i = 0 THEN 0 ELSE sum[i - 1] + SizeOf[txs[i]]
  BY DEF Totals
<1>1. 0 \in T
  <2>1. 0 \in 0 .. n OBVIOUS
  <2>2. sum[0] = 0 BY <1>0, <2>1
  <2> QED BY <2>2
<1>2. ASSUME NEW k \in Nat, k \in T PROVE k + 1 \in T
  <2> SUFFICES ASSUME k + 1 <= n PROVE sum[k + 1] \in Nat OBVIOUS
  <2>1. SizeOf[txs[k + 1]] \in Nat BY SizeAssumption
  <2>2. sum[k + 1] = sum[k] + SizeOf[txs[k + 1]] BY <1>0
  <2> QED BY <1>2, <2>1, <2>2
<1> HIDE DEF T
<1>3. Nat \subseteq T BY <1>1, <1>2, InductionOnSet
<1> QED BY <1>3 DEF T

LEMMA TotalNat ==
  ASSUME NEW txs \in Seq(Txs), NEW n \in 0 .. Len(txs)
  PROVE  Total(txs, n) \in Nat
<1> DEFINE sum == CHOOSE f : f = [i \in 0 .. n |->
                                    IF i = 0 THEN 0 ELSE f[i - 1] + SizeOf[txs[i]]]
<1>1. \E f : Totals(txs, n, f) BY TotalsExist
<1>2. Totals(txs, n, sum) BY <1>1 DEF Totals
<1>3. sum[n] \in Nat BY <1>2, TotalsNat
<1> QED BY <1>3 DEF Total

\* The loop of send ends, within the transactions that are left.
LEMMA PackLenInRange ==
  ASSUME NEW txs \in Seq(Txs)
  PROVE  PackLen(txs) \in 0 .. Len(txs)
<1> DEFINE T == {n \in 0 .. Len(txs) : n = Len(txs) \/ Total(txs, n) >= PackSize}
<1>1. Len(txs) \in T /\ T \subseteq Nat OBVIOUS
<1>2. PICK x \in T : \A y \in T : x <= y BY <1>1, LeastNumber
<1>3. ASSUME NEW i \in 0 .. x - 1 PROVE Total(txs, i) < PackSize
  <2>1. i \in 0 .. Len(txs) /\ i # Len(txs) BY <1>2
  <2>2. i \notin T BY <1>2
  <2>3. Total(txs, i) \in Nat BY <2>1, TotalNat
  <2> QED BY <2>1, <2>2, <2>3, SizeAssumption
<1>4. \E n \in 0 .. Len(txs) :
        /\ \A i \in 0 .. n - 1 : Total(txs, i) < PackSize
        /\ n = Len(txs) \/ Total(txs, n) >= PackSize
  BY <1>2, <1>3
<1> QED BY <1>4 DEF PackLen

-----------------------------------------------------------------------------
(* The relay.                                                              *)

\* What was sent to c and what is under way.
Gone(c) == sent[c] \o UnderWay(c)

\* The entries of pending and offer for a connection whose relay is whole
\* continue what is gone; without an entry something may be missing at the end.
InOrder(c) ==
    /\ \A s \in offer, t \in pending : s.p = c => t.p # c
    /\ \A s \in pending \cup offer : s.p = c => Gone(c) \o s.txs = relayed[c]
    /\ \E r \in Seq(Txs) : Gone(c) \o r = relayed[c]

RelayInv ==
    /\ TypeOK /\ OneSendAtATime
    /\ \A s, t \in offer : s = t
    /\ \A s, t \in pack : s = t
    /\ \A s, t \in pending : KeyOf[s.p] = KeyOf[t.p] => s = t
    /\ \A s \in pending \cup offer : s.txs # <<>>
    /\ \A c \in Conns \ (failed \cup again) : InOrder(c)

LEMMA UnderWayIs ==
  ASSUME NEW s \in pack, \A t, u \in pack : t = u, flying > 0
  PROVE  UnderWay(s.p) = s.txs
  BY DEF UnderWay

LEMMA UnderWayNot ==
  ASSUME NEW c, ~(flying > 0) \/ \A s \in pack : s.p # c
  PROVE  UnderWay(c) = <<>>
  BY DEF UnderWay

LEMMA UnderWayType ==
  ASSUME TypeOK, NEW c
  PROVE  UnderWay(c) \in Seq(Txs)
<1>1. CASE flying > 0 /\ \E s \in pack : s.p = c
  <2>1. (CHOOSE s \in pack : TRUE) \in pack BY <1>1
  <2> QED BY <1>1, <2>1 DEF UnderWay, TypeOK, Syncs
<1>2. CASE ~(flying > 0 /\ \E s \in pack : s.p = c) BY <1>2 DEF UnderWay
<1> QED BY <1>1, <1>2

LEMMA RelayInit == Init => RelayInv
<1> SUFFICES ASSUME Init PROVE RelayInv OBVIOUS
<1>1. TypeOK
  <2>1. <<>> \in Seq(Txs) /\ <<>> \in Seq(BOOLEAN) OBVIOUS
  <2> QED BY <2>1 DEF Init, TypeOK
<1>2. OneSendAtATime BY DEF Init, OneSendAtATime
<1>3. ASSUME NEW c \in Conns PROVE InOrder(c)
  <2>1. UnderWay(c) = <<>> BY DEF Init, UnderWay
  <2>2. Gone(c) = <<>> BY <2>1 DEF Init, Gone
  <2>3. Gone(c) \o <<>> = relayed[c] BY <2>2 DEF Init
  <2>4. <<>> \in Seq(Txs) OBVIOUS
  <2> QED BY <2>3, <2>4 DEF Init, InOrder
<1> QED BY <1>1, <1>2, <1>3 DEF Init, RelayInv

\* What send cuts off and what it leaves make up the transactions of s.
LEMMA CutWhole ==
  ASSUME NEW txs \in Seq(Txs)
  PROVE  LET n == PackLen(txs) IN
         /\ SubSeq(txs, 1, n) \in Seq(Txs) /\ SubSeq(txs, n + 1, Len(txs)) \in Seq(Txs)
         /\ SubSeq(txs, 1, n) \o SubSeq(txs, n + 1, Len(txs)) = txs
<1> DEFINE n == PackLen(txs)
<1>1. n \in 0 .. Len(txs) BY PackLenInRange
<1> HIDE DEF n
<1>2. SubSeq(txs, 1, n) \o SubSeq(txs, n + 1, Len(txs)) = SubSeq(txs, 1, Len(txs))
  <2>1. 1 \in 1 .. Len(txs) + 1 /\ n \in 1 - 1 .. Len(txs) /\ Len(txs) \in n .. Len(txs)
    BY <1>1
  <2> QED BY <2>1, ConcatAdjacentSubSeq, Zenon
<1>3. SubSeq(txs, 1, Len(txs)) = txs OBVIOUS
<1>4. SubSeq(txs, 1, n) \in Seq(Txs) /\ SubSeq(txs, n + 1, Len(txs)) \in Seq(Txs)
  BY <1>1
<1> QED BY <1>2, <1>3, <1>4 DEF n

LEMMA Regroup ==
  ASSUME NEW a \in Seq(Txs), NEW b \in Seq(Txs), NEW c \in Seq(Txs)
  PROVE  (a \o b) \o c = a \o (b \o c)
  BY ConcatAssociative

\* send, called with no goroutine under way for an entry s of map, keeps the
\* order.  map holds entries of pending, or the offer that is taken.
LEMMA SendInOrder ==
  ASSUME RelayInv, NEW map, NEW s \in map, send(map, s), flying = 0, done' = <<>>,
         map \subseteq pending \cup offer, offer' \subseteq offer,
         map \subseteq pending \/ offer' = {},
         \A t, u \in map : KeyOf[t.p] = KeyOf[u.p] => t = u,
         UNCHANGED <<quit, relayed, sent, failed, again>>
  PROVE  RelayInv'
<1> DEFINE n == PackLen(s.txs)
           cut == SubSeq(s.txs, 1, n)
           left == SubSeq(s.txs, n + 1, Len(s.txs))
           rest == [s EXCEPT !.txs = left]
<1>1. s \in Syncs BY DEF RelayInv, TypeOK
<1>2. s.p \in Conns /\ s.txs \in Seq(Txs) BY <1>1 DEF Syncs
<1>3. cut \in Seq(Txs) /\ left \in Seq(Txs) /\ cut \o left = s.txs BY <1>2, CutWhole
<1>4. /\ pack' = {[p |-> s.p, txs |-> cut]}
      /\ pending' = (map \ Entries(map, KeyOf[s.p])) \cup (IF left = <<>> THEN {} ELSE {rest})
      /\ sending' = TRUE /\ flying' = 1
  BY <1>1 DEF send, Syncs
<1> HIDE DEF n, cut, left
<1>5. rest \in Syncs /\ rest.p = s.p /\ rest.txs = left BY <1>1, <1>3 DEF Syncs
<1> HIDE DEF rest
<1>6. TypeOK'
  BY <1>2, <1>3, <1>4, <1>5 DEF RelayInv, TypeOK, Syncs
<1>7. OneSendAtATime' BY <1>4 DEF OneSendAtATime
<1>8. \A t \in pending' : \/ t = rest /\ left # <<>>
                          \/ t \in map /\ KeyOf[t.p] # KeyOf[s.p]
  <2> SUFFICES ASSUME NEW t \in pending', ~(t = rest /\ left # <<>>)
               PROVE  t \in map /\ KeyOf[t.p] # KeyOf[s.p]
    OBVIOUS
  <2>1. t \in map \ Entries(map, KeyOf[s.p]) BY <1>4
  <2> QED BY <2>1 DEF Entries
<1>9. /\ \A t, u \in offer' : t = u
      /\ \A t, u \in pack' : t = u
      /\ \A t, u \in pending' : KeyOf[t.p] = KeyOf[u.p] => t = u
      /\ \A t \in pending' \cup offer' : t.txs # <<>>
  BY <1>4, <1>5, <1>8 DEF RelayInv
<1>10. ASSUME NEW c \in Conns \ (failed \cup again) PROVE InOrder(c)'
  <2>1. InOrder(c) BY DEF RelayInv
  <2>2. UnderWay(c) = <<>> BY UnderWayNot
  <2>3. sent[c] \in Seq(Txs) /\ relayed[c] \in Seq(Txs) BY DEF RelayInv, TypeOK
  <2>4. Gone(c) = sent[c] BY <2>2, <2>3 DEF Gone
  <2>5. CASE c # s.p
    <3>1. UnderWay(c)' = <<>> BY <1>4, <2>5 DEF UnderWay
    <3>2. Gone(c)' = Gone(c) BY <2>2, <3>1 DEF Gone
    <3>3. \A t \in pending' \cup offer' : t.p = c => t \in pending \cup offer
      BY <1>5, <1>8, <2>5
    <3>4. \A t \in offer', u \in pending' : t.p = c => u.p # c
      BY <1>5, <1>8, <2>1, <2>5 DEF InOrder, RelayInv
    <3> QED BY <2>1, <3>2, <3>3, <3>4 DEF InOrder
  <2>6. CASE c = s.p
    <3>0. (CHOOSE t \in pack' : TRUE) = [p |-> s.p, txs |-> cut] BY <1>4
    <3>1. UnderWay(c)' = cut BY <1>4, <2>6, <3>0 DEF UnderWay
    <3>2. Gone(c)' = sent[c] \o cut BY <3>1 DEF Gone
    <3>3. sent[c] \o s.txs = relayed[c] BY <2>1, <2>4, <2>6 DEF InOrder
    <3>4. (sent[c] \o cut) \o left = relayed[c]
      <4>1. (sent[c] \o cut) \o left = sent[c] \o (cut \o left)
        BY <1>3, <2>3, Regroup
      <4> QED BY <1>3, <3>3, <4>1, Zenon
    <3>5. \A t \in pending' : t.p = c => t = rest BY <1>8, <2>6
    <3>6. \A t \in offer' : t.p # c BY <2>1, <2>6 DEF InOrder
    <3>7. Gone(c)' \o left = relayed'[c] BY <3>2, <3>4
    <3> QED BY <1>3, <1>5, <3>5, <3>6, <3>7 DEF InOrder
  <2> QED BY <2>5, <2>6
<1> QED BY <1>6, <1>7, <1>9, <1>10 DEF RelayInv

LEMMA RelayStep == RelayInv /\ [Next]_vars => RelayInv'
<1> SUFFICES ASSUME RelayInv, [Next]_vars PROVE RelayInv' OBVIOUS
<1>0. TypeOK BY DEF RelayInv
<1>1. ASSUME NEW c \in Conns, syncTransactions(c) PROVE RelayInv'
  <2>1. PICK txs \in Batches \ {<<>>} : /\ offer' = {[p |-> c, txs |-> txs]}
                                        /\ relayed' = [relayed EXCEPT ![c] = txs]
    BY <1>1 DEF syncTransactions
  <2>2. /\ offer = {} /\ UNCHANGED <<pending, sending, pack, flying, done, quit, sent, failed>>
        /\ again' = IF relayed[c] = <<>> THEN again ELSE again \cup {c}
    BY <1>1 DEF syncTransactions
  <2>3. txs \in Seq(Txs) /\ txs # <<>> BY BatchAssumption
  <2>4. TypeOK' BY <1>0, <2>1, <2>2, <2>3 DEF TypeOK, Syncs
  <2>5. OneSendAtATime' BY <2>2 DEF RelayInv, OneSendAtATime
  <2>6. \A d \in Conns : UnderWay(d)' = UnderWay(d) /\ Gone(d)' = Gone(d)
    BY <2>2 DEF UnderWay, Gone
  <2>7. ASSUME NEW d \in Conns \ (failed \cup again)' PROVE InOrder(d)'
    <3>1. d \in Conns \ (failed \cup again) BY <2>2
    <3>2. InOrder(d) BY <3>1 DEF RelayInv
    <3>3. CASE d # c
      <4>1. relayed'[d] = relayed[d] BY <1>0, <2>1, <3>3 DEF TypeOK
      <4>2. \A s \in offer' : s.p # d BY <2>1, <3>3
      <4>3. \A s \in pending' : s.p = d => Gone(d)' \o s.txs = relayed'[d]
        BY <2>2, <2>6, <3>2, <4>1 DEF InOrder
      <4>4. \E r \in Seq(Txs) : Gone(d)' \o r = relayed'[d]
        BY <2>6, <3>2, <4>1 DEF InOrder
      <4> QED BY <4>2, <4>3, <4>4 DEF InOrder
    <3>4. CASE d = c
      <4>1. relayed[c] = <<>> BY <2>2, <3>4
      <4>2. Gone(c) \in Seq(Txs) BY <1>0, UnderWayType DEF Gone, TypeOK
      <4>3. PICK r \in Seq(Txs) : Gone(c) \o r = <<>> BY <3>2, <3>4, <4>1 DEF InOrder
      <4>4. Gone(c) = <<>> BY <4>2, <4>3
      <4>5. \A t \in pending : t.p # c
        <5> SUFFICES ASSUME NEW t \in pending, t.p = c PROVE FALSE OBVIOUS
        <5>1. Gone(c) \o t.txs = <<>> BY <3>2, <3>4, <4>1 DEF InOrder
        <5>2. t.txs \in Seq(Txs) /\ t.txs # <<>> BY <1>0 DEF RelayInv, TypeOK, Syncs
        <5> QED BY <4>2, <5>1, <5>2
      <4>6. relayed'[c] = txs BY <1>0, <2>1 DEF TypeOK
      <4>7. Gone(c)' \o txs = relayed'[c] BY <2>3, <2>6, <4>4, <4>6
      <4> QED BY <2>1, <2>2, <2>3, <3>4, <4>5, <4>7 DEF InOrder
    <3> QED BY <3>3, <3>4
  <2>8. /\ \A s, t \in offer' : s = t
        /\ \A s \in pending' \cup offer' : s.txs # <<>>
    BY <2>1, <2>2, <2>3 DEF RelayInv
  <2> QED BY <2>2, <2>4, <2>5, <2>7, <2>8 DEF RelayInv
<1>2. CASE NewSync
  <2>1. PICK s \in offer :
          LET map == (pending \ Entries(pending, KeyOf[s.p])) \cup {s}
          IN  IF sending
              THEN pending' = map /\ UNCHANGED <<sending, pack, flying>>
              ELSE send(map, s)
    BY <1>2 DEF NewSync
  <2> DEFINE map == (pending \ Entries(pending, KeyOf[s.p])) \cup {s}
  <2>2. offer' = {} /\ UNCHANGED <<done, quit, relayed, sent, failed, again>>
    BY <1>2 DEF NewSync
  <2>3. /\ map \subseteq pending \cup offer
        /\ \A t, u \in map : KeyOf[t.p] = KeyOf[u.p] => t = u
    BY DEF Entries, RelayInv
  <2>4. CASE sending
    <3>1. pending' = map /\ UNCHANGED <<sending, pack, flying>> BY <2>1, <2>4
    <3> HIDE DEF map
    <3>2. TypeOK' BY <1>0, <2>2, <2>3, <3>1 DEF TypeOK
    <3>3. OneSendAtATime' BY <2>2, <3>1 DEF RelayInv, OneSendAtATime
    <3>4. \A c \in Conns : UnderWay(c)' = UnderWay(c) /\ Gone(c)' = Gone(c)
      BY <2>2, <3>1 DEF UnderWay, Gone
    <3>5. ASSUME NEW c \in Conns \ (failed \cup again) PROVE InOrder(c)'
      <4>1. InOrder(c) BY DEF RelayInv
      <4> QED BY <2>2, <2>3, <3>1, <3>4, <4>1 DEF InOrder
    <3> QED BY <2>2, <2>3, <3>1, <3>2, <3>3, <3>5 DEF RelayInv
  <2>5. CASE ~sending
    <3>1. flying = 0 /\ done = <<>> BY <2>5 DEF RelayInv, OneSendAtATime, TypeOK
    <3>2. send(map, s) BY <2>1, <2>5
    <3>3. s \in map OBVIOUS
    <3> HIDE DEF map
    <3> QED BY <2>2, <2>3, <3>1, <3>2, <3>3, SendInOrder
  <2> QED BY <2>4, <2>5
<1>3. ASSUME NEW ok \in BOOLEAN, SendTransactions(ok) PROVE RelayInv'
  <2>0. PICK s \in pack : \E n \in 0 .. Len(s.txs) :
          /\ ok => n = Len(s.txs)
          /\ sent' = [sent EXCEPT ![s.p] = @ \o SubSeq(s.txs, 1, n)]
          /\ failed' = IF ok THEN failed ELSE failed \cup {s.p}
    BY <1>3 DEF SendTransactions
  <2>1. PICK n \in 0 .. Len(s.txs) :
          /\ ok => n = Len(s.txs)
          /\ sent' = [sent EXCEPT ![s.p] = @ \o SubSeq(s.txs, 1, n)]
          /\ failed' = IF ok THEN failed ELSE failed \cup {s.p}
    BY <2>0
  <2>2. /\ flying > 0 /\ flying' = flying - 1 /\ done' = Append(done, ok)
        /\ UNCHANGED <<offer, pending, sending, pack, quit, relayed, again>>
    BY <1>3 DEF SendTransactions
  <2>3. flying = 1 /\ done = <<>> /\ sending
    BY <2>2 DEF RelayInv, OneSendAtATime, TypeOK
  <2>4. s.p \in Conns /\ s.txs \in Seq(Txs) BY <1>0 DEF TypeOK, Syncs
  <2>5. SubSeq(s.txs, 1, n) \in Seq(Txs) BY <2>4
  <2>6. TypeOK'
    <3>1. sent' \in [Conns -> Seq(Txs)] BY <1>0, <2>1, <2>4, <2>5 DEF TypeOK
    <3>2. done' \in Seq(BOOLEAN) BY <1>0, <2>2 DEF TypeOK
    <3>3. failed' \subseteq Conns BY <1>0, <2>1, <2>4 DEF TypeOK
    <3>4. flying' \in Nat BY <2>2, <2>3
    <3> QED BY <1>0, <2>2, <3>1, <3>2, <3>3, <3>4 DEF TypeOK
  <2>7. OneSendAtATime'
    <3>1. Len(done') = 1 BY <2>2, <2>3
    <3> QED BY <2>2, <2>3, <3>1 DEF OneSendAtATime
  <2>8. ASSUME NEW c \in Conns \ (failed \cup again)' PROVE InOrder(c)'
    <3>1. c \in Conns \ (failed \cup again) BY <2>1, <2>2
    <3>2. InOrder(c) BY <3>1 DEF RelayInv
    <3>3. UnderWay(c)' = <<>> BY <2>2, <2>3 DEF UnderWay
    <3>4. sent[c] \in Seq(Txs) BY <1>0 DEF TypeOK
    <3>5. Gone(c)' = Gone(c)
      <4>1. CASE c # s.p
        <5>1. sent'[c] = sent[c] BY <1>0, <2>1, <4>1 DEF TypeOK
        <5>2. UnderWay(c) = <<>> BY <4>1, UnderWayNot DEF RelayInv
        <5> QED BY <3>3, <5>1, <5>2 DEF Gone
      <4>2. CASE c = s.p
        <5>1. n = Len(s.txs) BY <2>1, <2>4, <4>2
        <5>2. SubSeq(s.txs, 1, n) = s.txs BY <2>4, <5>1
        <5>3. sent'[c] = sent[c] \o s.txs BY <1>0, <2>1, <4>2, <5>2 DEF TypeOK
        <5>4. UnderWay(c) = s.txs BY <2>2, <4>2, UnderWayIs DEF RelayInv
        <5>5. sent[c] \o s.txs \in Seq(Txs) BY <2>4, <3>4
        <5>6. Gone(c)' = (sent[c] \o s.txs) \o <<>> BY <3>3, <5>3 DEF Gone
        <5>7. Gone(c) = sent[c] \o s.txs BY <5>4 DEF Gone
        <5> QED BY <5>5, <5>6, <5>7, ConcatEmptySeq, Zenon
      <4> QED BY <4>1, <4>2
    <3> QED BY <2>2, <3>2, <3>5 DEF InOrder
  <2> QED BY <2>2, <2>6, <2>7, <2>8 DEF RelayInv
<1>4. CASE Done
  <2>1. PICK last \in pack :
          LET map == IF Head(done) THEN pending
                                   ELSE pending \ Entries(pending, KeyOf[last.p])
          IN  IF map = {}
              THEN pending' = map /\ sending' = FALSE /\ UNCHANGED <<pack, flying>>
              ELSE \E s \in map : send(map, s)
    BY <1>4 DEF Done
  <2> DEFINE map == IF Head(done) THEN pending
                                  ELSE pending \ Entries(pending, KeyOf[last.p])
  <2>2. /\ done # <<>> /\ done' = Tail(done)
        /\ UNCHANGED <<offer, quit, relayed, sent, failed, again>>
    BY <1>4 DEF Done
  <2>3. Len(done) = 1 /\ flying = 0
    <3>1. Len(done) \in Nat /\ Len(done) > 0 BY <1>0, <2>2 DEF TypeOK
    <3>2. flying + Len(done) <= 1 BY DEF RelayInv, OneSendAtATime
    <3>3. flying \in Nat BY <1>0 DEF TypeOK
    <3> QED BY <3>1, <3>2, <3>3
  <2>4. done' = <<>> BY <1>0, <2>2, <2>3 DEF TypeOK
  <2>5. map \subseteq pending OBVIOUS
  <2>6. IF map = {} THEN pending' = map /\ sending' = FALSE /\ UNCHANGED <<pack, flying>>
                    ELSE \E s \in map : send(map, s)
    BY <2>1
  <2> HIDE DEF map
  <2>7. CASE map = {}
    <3>1. pending' = {} /\ sending' = FALSE /\ UNCHANGED <<pack, flying>> BY <2>6, <2>7
    <3>2. TypeOK'
      <4>1. done' \in Seq(BOOLEAN) BY <2>4
      <4> QED BY <1>0, <2>2, <3>1, <4>1 DEF TypeOK
    <3>3. OneSendAtATime' BY <2>3, <2>4, <3>1 DEF OneSendAtATime
    <3>4. ASSUME NEW c \in Conns \ (failed \cup again) PROVE InOrder(c)'
      <4>1. InOrder(c) BY DEF RelayInv
      <4>2. Gone(c)' = Gone(c) BY <2>2, <3>1 DEF UnderWay, Gone
      <4> QED BY <2>2, <3>1, <4>1, <4>2 DEF InOrder
    <3> QED BY <2>2, <3>1, <3>2, <3>3, <3>4 DEF RelayInv
  <2>8. CASE map # {}
    <3>1. PICK s \in map : send(map, s) BY <2>6, <2>8
    <3>2. \A t, u \in map : KeyOf[t.p] = KeyOf[u.p] => t = u BY <2>5 DEF RelayInv
    <3>3. map \subseteq pending \cup offer BY <2>5
    <3> QED BY <2>2, <2>3, <2>4, <2>5, <3>1, <3>2, <3>3, SendInOrder
  <2> QED BY <2>7, <2>8
<1>5. ASSUME \/ Quit
             \/ UNCHANGED vars
      PROVE  RelayInv'
  <2>1. /\ UNCHANGED <<offer, pending, sending, pack, flying, done, relayed, sent, failed, again>>
        /\ quit' \in BOOLEAN
    BY <1>0, <1>5 DEF Quit, vars, TypeOK
  <2>2. TypeOK' BY <1>0, <2>1 DEF TypeOK
  <2>3. OneSendAtATime' BY <2>1 DEF RelayInv, OneSendAtATime
  <2>4. \A c \in Conns : InOrder(c) => InOrder(c)'
    BY <2>1 DEF InOrder, Gone, UnderWay
  <2> QED BY <2>1, <2>2, <2>3, <2>4 DEF RelayInv
<1> QED BY <1>1, <1>2, <1>3, <1>4, <1>5 DEF Next

LEMMA RelayInOrderFollows == RelayInv => RelayInOrder
<1> SUFFICES ASSUME RelayInv, NEW c \in Conns \ (failed \cup again)
             PROVE  LET known == sent[c] \o UnderWay(c) \o Rest(c) IN
                    /\ Len(known) <= Len(relayed[c])
                    /\ known = SubSeq(relayed[c], 1, Len(known))
                    /\ Rest(c) # <<>> => known = relayed[c]
  BY DEF RelayInOrder
<1>1. InOrder(c) BY DEF RelayInv
<1>2. relayed[c] \in Seq(Txs) BY DEF RelayInv, TypeOK
<1>3. Gone(c) \in Seq(Txs) BY UnderWayType DEF RelayInv, TypeOK, Gone
<1> DEFINE known == Gone(c) \o Rest(c)
<1>4. sent[c] \o UnderWay(c) \o Rest(c) = known BY DEF Gone
<1> DEFINE mine == {s \in pending \cup offer : s.p = c}
<1>5. CASE mine = {}
  <2>1. Rest(c) = <<>> BY <1>5 DEF Rest
  <2>2. known = Gone(c) BY <1>3, <2>1
  <2>3. PICK r \in Seq(Txs) : Gone(c) \o r = relayed[c] BY <1>1 DEF InOrder
  <2>4. /\ Len(Gone(c)) <= Len(relayed[c])
        /\ Gone(c) = SubSeq(relayed[c], 1, Len(Gone(c)))
    BY <1>3, <2>3
  <2> QED BY <1>4, <2>1, <2>2, <2>4
<1>6. CASE mine # {}
  <2>1. (CHOOSE s \in mine : TRUE) \in mine BY <1>6
  <2>2. Rest(c) = (CHOOSE s \in mine : TRUE).txs BY <1>6 DEF Rest
  <2>3. known = relayed[c] BY <1>1, <2>1, <2>2 DEF InOrder
  <2>4. relayed[c] = SubSeq(relayed[c], 1, Len(relayed[c])) /\ Len(relayed[c]) \in Nat
    BY <1>2
  <2> QED BY <1>4, <2>3, <2>4
<1> QED BY <1>5, <1>6

\* txsyncLoop sends packs to one peer at a time: there is one sending goroutine,
\* or one result in the channel done, exactly while sending is set.  So the pack
\* is never written while a goroutine reads it, and a result finds room.
THEOREM SendsAlwaysOneAtATime == Spec => []OneSendAtATime
<1>1. RelayInv => OneSendAtATime BY DEF RelayInv
<1> QED BY <1>1, RelayInit, RelayStep, PTL DEF Spec

\* txsyncLoop relays every transaction of the pool to a connection once and in
\* the order of the pool, whatever other nodes and other connections of the same
\* node do, until a send fails or the peer is relayed to again.
THEOREM RelayAlwaysInOrder == Spec => []RelayInOrder
  BY RelayInit, RelayStep, RelayInOrderFollows, PTL DEF Spec

-----------------------------------------------------------------------------
(* The handshake.                                                          *)

LEMMA HandshakeRelays == [HandshakeNext]_<<vars, handshakeVars>> => [Next]_vars
<1> SUFFICES ASSUME [HandshakeNext]_<<vars, handshakeVars>> PROVE [Next]_vars OBVIOUS
<1>1. CASE UNCHANGED <<vars, handshakeVars>> BY <1>1
<1>2. ASSUME NEW c \in Conns,
             \/ AddPeer(c) \/ Retry(c) \/ Timeout(c) \/ \E d \in Conns : TakeStatus(c, d)
             \/ Register(c) \/ Dropped(c) \/ Announce(c) \/ Receive(c) \/ RemovePeer(c)
      PROVE  UNCHANGED vars
  BY <1>2 DEF AddPeer, Retry, Timeout, TakeStatus, Register, Dropped, Announce, Receive,
              RemovePeer
<1>3. ASSUME NEW c \in Conns, Lookup(c) PROVE [Next]_vars
  BY <1>3 DEF Lookup, SameKey, Next
<1>4. CASE Relay BY <1>4 DEF Relay, Next
<1> QED BY <1>1, <1>2, <1>3, <1>4 DEF HandshakeNext

\* The handshakes of AddPeer use the relay as TxSync lets its callers: a step of
\* the handshake leaves the relay alone or offers one peer's transactions, with
\* no other offer waiting.  What holds of the relay holds below the handshakes.
THEOREM HandshakeImplementsTxSync == HandshakeSpec => Spec
<1>1. HandshakeInit => Init BY DEF HandshakeInit
<1> QED BY <1>1, HandshakeRelays, PTL DEF HandshakeSpec, Spec

\* The answers to c's requests that no handshake has taken.
Owed(c) == coming[c] + (IF c \in blocked THEN 1 ELSE 0)

\* Nobody is owed more answers than were asked for, and a handshake that is past
\* the status has taken one, its own unless another connection has its key.
StatusInv ==
    /\ HandshakeTypeOK /\ GenesisChecked
    /\ \A c \in Conns : hs[c] = "register" => KeyOf[c] \notin Foreign
    /\ \A c \in Conns : Owed(c) <= asked[c]
    /\ \A c \in Conns : SameKey(c) = {c} /\ hs[c] \in {"register", "lookup", "announce", "added"}
                            => Owed(c) < asked[c]

LEMMA StatusInit == HandshakeInit => StatusInv
  BY DEF HandshakeInit, StatusInv, HandshakeTypeOK, GenesisChecked, Owed

LEMMA StatusStep == StatusInv /\ [HandshakeNext]_<<vars, handshakeVars>> => StatusInv'
<1> SUFFICES ASSUME StatusInv, [HandshakeNext]_<<vars, handshakeVars>> PROVE StatusInv'
  OBVIOUS
<1>0. HandshakeTypeOK BY DEF StatusInv
<1>1. ASSUME NEW c \in Conns, AddPeer(c) \/ Retry(c) PROVE StatusInv'
  <2>1. Request(c) /\ UNCHANGED <<blocked, peers, removed>> BY <1>1 DEF AddPeer, Retry
  <2>2. CASE /\ asked' = [asked EXCEPT ![c] = @ + 1]
             /\ coming' = [coming EXCEPT ![c] = @ + 1]
             /\ Step(c, "wait")
    BY <1>0, <2>1, <2>2 DEF StatusInv, HandshakeTypeOK, GenesisChecked, Owed, SameKey, Step
  <2>3. CASE Step(c, "failed") /\ UNCHANGED <<asked, coming>>
    BY <1>0, <2>1, <2>3 DEF StatusInv, HandshakeTypeOK, GenesisChecked, Owed, SameKey, Step
  <2> QED BY <2>1, <2>2, <2>3 DEF Request
<1>2. ASSUME NEW c \in Conns, Timeout(c) \/ Dropped(c) \/ Announce(c) \/ Lookup(c)
      PROVE  StatusInv'
  <2>1. UNCHANGED <<asked, coming, blocked, peers, removed>>
    BY <1>2 DEF Timeout, Dropped, Announce, Lookup
  <2>2. \/ Step(c, "failed")
        \/ hs[c] = "lookup" /\ Step(c, "announce")
        \/ hs[c] = "announce" /\ Step(c, "added")
    BY <1>2 DEF Timeout, Dropped, Announce, Lookup
  <2> QED BY <1>0, <2>1, <2>2 DEF StatusInv, HandshakeTypeOK, GenesisChecked, Owed, SameKey, Step
<1>3. ASSUME NEW c \in Conns, NEW d \in Conns, TakeStatus(c, d) PROVE StatusInv'
  <2>1. /\ d \in blocked /\ blocked' = blocked \ {d}
        /\ UNCHANGED <<asked, coming, peers, removed>>
        /\ Step(c, IF KeyOf[d] # KeyOf[c] THEN "wait"
                   ELSE IF KeyOf[d] \in Foreign THEN "failed" ELSE "register")
    BY <1>3 DEF TakeStatus
  <2>2. \A b \in Conns : Owed(b)' = IF b = d THEN Owed(b) - 1 ELSE Owed(b)
    BY <1>0, <2>1 DEF Owed, HandshakeTypeOK
  <2>3. \A b \in Conns : Owed(b) \in Nat BY <1>0 DEF Owed, HandshakeTypeOK
  <2>4. HandshakeTypeOK' /\ GenesisChecked'
    BY <1>0, <2>1 DEF StatusInv, HandshakeTypeOK, GenesisChecked, Step
  <2>5. \A b \in Conns : hs'[b] = "register" => KeyOf[b] \notin Foreign
    BY <1>0, <2>1 DEF StatusInv, HandshakeTypeOK, Step
  <2>6. \A b \in Conns : Owed(b)' <= asked'[b]
    BY <1>0, <2>1, <2>2, <2>3 DEF StatusInv, HandshakeTypeOK
  <2>7. ASSUME NEW b \in Conns, SameKey(b) = {b},
               hs'[b] \in {"register", "lookup", "announce", "added"}
        PROVE  Owed(b)' < asked'[b]
    <3>1. CASE b # c
      <4>1. hs'[b] = hs[b] BY <1>0, <2>1, <3>1 DEF HandshakeTypeOK, Step
      <4> QED BY <1>0, <2>1, <2>2, <2>3, <2>7, <4>1 DEF StatusInv, HandshakeTypeOK
    <3>2. CASE b = c
      <4>1. KeyOf[d] = KeyOf[c] BY <1>0, <2>1, <2>7, <3>2 DEF HandshakeTypeOK, Step
      <4>2. d = b BY <2>7, <3>2, <4>1 DEF SameKey
      <4> QED BY <1>0, <2>1, <2>2, <2>3, <4>2 DEF StatusInv, HandshakeTypeOK
    <3> QED BY <3>1, <3>2
  <2> QED BY <2>4, <2>5, <2>6, <2>7 DEF StatusInv, SameKey
<1>4. ASSUME NEW c \in Conns, Register(c) PROVE StatusInv'
  <2>1. /\ hs[c] = "register" /\ hs' = [hs EXCEPT ![c] = "lookup"]
        /\ UNCHANGED <<asked, coming, blocked, removed>>
        /\ peers' \subseteq peers \cup {c}
    BY <1>4 DEF Register, Step
  <2> QED BY <1>0, <2>1 DEF StatusInv, HandshakeTypeOK, GenesisChecked, Owed, SameKey
<1>5. ASSUME NEW c \in Conns, Receive(c) PROVE StatusInv'
  <2>1. /\ coming[c] > 0 /\ c \notin blocked
        /\ coming' = [coming EXCEPT ![c] = @ - 1] /\ blocked' = blocked \cup {c}
        /\ UNCHANGED <<hs, asked, peers, removed>>
    BY <1>5 DEF Receive
  <2>2. \A b \in Conns : Owed(b)' = Owed(b) BY <1>0, <2>1 DEF HandshakeTypeOK, Owed
  <2>3. HandshakeTypeOK' BY <1>0, <2>1 DEF HandshakeTypeOK
  <2> QED BY <2>1, <2>2, <2>3 DEF StatusInv, GenesisChecked, SameKey
<1>6. ASSUME NEW c \in Conns, RemovePeer(c) PROVE StatusInv'
  <2>1. peers' \subseteq peers /\ removed' = removed \cup {c}
        /\ UNCHANGED <<hs, asked, coming, blocked>>
    BY <1>6 DEF RemovePeer
  <2> QED BY <1>0, <2>1 DEF StatusInv, HandshakeTypeOK, GenesisChecked, Owed, SameKey
<1>7. CASE Relay \/ UNCHANGED <<vars, handshakeVars>>
  BY <1>0, <1>7 DEF Relay, handshakeVars, StatusInv, HandshakeTypeOK, GenesisChecked, Owed, SameKey
<1> QED BY <1>1, <1>2, <1>3, <1>4, <1>5, <1>6, <1>7 DEF HandshakeNext

\* Although all connections share peerStatusCh, a peer is registered only when
\* its own node's status named our genesis block, and a handshake that asked once
\* leaves no status behind that would block its connection's Receive.
THEOREM StatusAlwaysMatched == HandshakeSpec => []StatusMatched
<1>1. StatusInv => StatusMatched
  <2> SUFFICES ASSUME StatusInv PROVE ReadsOn BY DEF StatusInv, StatusMatched
  <2> SUFFICES ASSUME NEW c \in Conns, SameKey(c) = {c}, asked[c] = 1,
                      hs[c] \in {"register", "lookup", "announce", "added"}
               PROVE  c \notin blocked /\ coming[c] = 0
    BY DEF ReadsOn
  <2>1. Owed(c) < 1 /\ coming[c] \in Nat BY DEF StatusInv, HandshakeTypeOK
  <2> QED BY <2>1 DEF Owed
<1> QED BY <1>1, StatusInit, StatusStep, PTL DEF HandshakeSpec
=============================================================================
