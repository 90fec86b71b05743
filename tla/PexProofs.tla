------------------------------ MODULE PexProofs ------------------------------
(***************************************************************************)
(* Proofs about Pex for any finite set of addresses, any seeds and any     *)
(* values of the limits.  DialInv follows the goroutines that dial,        *)
(* BoundInv the number of peers that ensurePeers and dialSeeds can still   *)
(* reach, CountInv the counter of messages between the calls that read it  *)
(* and write it.                                                           *)
(***************************************************************************)
EXTENDS Pex, TLAPS, FiniteSetTheorems

\* A leaf is tried with SMT and Zenon, and then again with more time.
USE SMT, Zenon, SMTT(40), ZenonT(40), Z3T(40)

\* What every step says, without the nesting of Next.
LEMMA NextCases ==
  ASSUME [Next]_vars
  PROVE  \/ EnsureCount \/ EnsureList \/ EnsureDial \/ EnsureAsk \/ EnsureReturn \/ Quit
         \/ SeedSave \/ SeedsDone \/ FlushMsgCount
         \/ \E a \in Addrs :
              \/ EnsurePick(a) \/ SeedAdd(a) \/ SeedDial(a)
              \/ DialFilter(a) \/ DelSelfRemove(a) \/ DelSelfAddOurs(a)
              \/ DialEnds(a) \/ DialMark(a)
              \/ JoinAdd(a) \/ JoinEnd(a) \/ Leave(a)
              \/ ReceiveGet(a) \/ ReceiveSet(a) \/ ReceiveCheck(a)
              \/ ReceiveHandle(a) \/ ReceiveAdd(a)
         \/ UNCHANGED vars
  BY Zenon DEF Next, EnsurePeers, DialSeeds, Dial, Receive

-----------------------------------------------------------------------------
(* Types.                                                                  *)

BookType ==
    /\ new \subseteq Addrs /\ old \subseteq Addrs /\ ours \subseteq Addrs
    /\ saved \in [new : SUBSET Addrs, old : SUBSET Addrs]

NetType ==
    /\ joining \subseteq Addrs /\ dialing \subseteq Addrs
    /\ link \in [Addrs -> {"none", "in", "out"}]
    /\ worker \in [Addrs -> {"none", "filter", "delSelf", "addOurs", "dialing", "reached", "failed"}]

EnsureType ==
    /\ seeds \subseteq Addrs /\ connectedPeers \subseteq Addrs /\ toDial \subseteq Addrs
    /\ rounds \in Nat /\ numToDial \in Nat
    /\ pc \in {"loop", "list", "pick", "wait", "return", "add seeds", "dial seeds", "quit"}

Record == [step : {"idle", "set", "check", "handle", "add"}, count : Nat, list : Seq(Addrs)]

ReceiveType ==
    /\ recv \in [Addrs -> Record]
    /\ msgCount \in [Addrs -> Nat] /\ handled \in [Addrs -> Nat]

LEMMA TypeParts == TypeOK <=> BookType /\ NetType /\ EnsureType /\ ReceiveType
  BY DEF TypeOK, BookType, NetType, EnsureType, ReceiveType, Record

LEMMA TypeInit == Init => TypeOK
<1> SUFFICES ASSUME Init PROVE TypeOK OBVIOUS
<1> USE PexAssumption
<1>1. BookType BY DEF Init, Table!Init, Table!Empty, BookType
<1>2. NetType /\ EnsureType BY DEF Init, NetType, EnsureType
<1>3. <<>> \in Seq(Addrs) OBVIOUS
<1>4. Waiting \in Record BY <1>3 DEF Waiting, Record
<1>5. ReceiveType BY <1>4 DEF Init, ReceiveType
<1> QED BY <1>1, <1>2, <1>5, TypeParts

\* The operations of the address book, for an address.
LEMMA BookKeeps ==
  ASSUME BookType, NEW a \in Addrs,
         \/ UNCHANGED book \/ AddAddress(a) \/ Table!Good(a) \/ Table!Remove(a)
         \/ Table!AddOurs(a) \/ Table!Save
  PROVE  BookType'
<1>1. CASE UNCHANGED book BY <1>1 DEF book, BookType
<1>2. CASE Table!Add(a) BY <1>2 DEF Table!Add, BookType
<1>3. CASE Table!Good(a) BY <1>3 DEF Table!Good, BookType
<1>4. CASE Table!Remove(a) \/ Table!AddOurs(a)
  BY <1>4 DEF Table!Remove, Table!AddOurs, BookType
<1>5. CASE Table!Save BY <1>5 DEF Table!Save, BookType
<1> QED BY <1>1, <1>2, <1>3, <1>4, <1>5 DEF AddAddress

LEMMA LinkKeeps ==
  ASSUME NetType, NEW p \in Addrs, SendTo(p)
  PROVE  link' \in [Addrs -> {"none", "in", "out"}]
  BY DEF SendTo, StopPeer, NetType

LEMMA TypeStep == TypeOK /\ [Next]_vars => TypeOK'
<1> SUFFICES ASSUME TypeOK, [Next]_vars PROVE TypeOK' OBVIOUS
<1>0. BookType /\ NetType /\ EnsureType /\ ReceiveType BY TypeParts
<1>p. (BookType /\ NetType /\ EnsureType /\ ReceiveType)' => TypeOK' BY TypeParts, PTL
<1>b. UNCHANGED book => BookType' BY <1>0 DEF book, BookType
<1>n. UNCHANGED <<joining, dialing, link, worker>> => NetType' BY <1>0 DEF NetType
<1>e. UNCHANGED ensure => EnsureType' BY <1>0 DEF ensure, EnsureType
<1>r. UNCHANGED receive => ReceiveType' BY <1>0 DEF receive, ReceiveType
<1>1. CASE EnsureCount
  <2>1. EnsureType'
    <3>1. Cardinality(Outbound) \in Int /\ Cardinality(dialing) \in Int
      <4>1. IsFiniteSet(Outbound) /\ IsFiniteSet(dialing)
        BY <1>0, PexAssumption, FS_Subset DEF NetType, Outbound
      <4> QED BY <4>1, FS_CardinalityType
    <3>2. (MinOutbound - (Cardinality(Outbound) + Cardinality(dialing))) * DialFactor \in Int
      BY <3>1, PexAssumption
    <3>3. PICK todo \in Int :
            IF todo <= 0 THEN pc' = "return" /\ UNCHANGED numToDial
            ELSE pc' = "list" /\ numToDial' = todo
      BY <1>1, <3>2, Zenon DEF EnsureCount
    <3>4. numToDial \in Nat /\ rounds \in Nat BY <1>0 DEF EnsureType
    <3>5. numToDial' \in Nat /\ pc' \in {"return", "list"}
      <4>1. CASE todo <= 0 BY <3>3, <3>4, <4>1
      <4>2. CASE ~(todo <= 0)
        <5>1. todo \in Nat BY <4>2
        <5> QED BY <3>3, <4>2, <5>1
      <4> QED BY <4>1, <4>2
    <3>6. rounds' = rounds + 1 /\ UNCHANGED <<connectedPeers, toDial, seeds>>
      BY <1>1, Zenon DEF EnsureCount
    <3>7. rounds' \in Nat BY <3>4, <3>6
    <3> QED BY <1>0, <3>5, <3>6, <3>7 DEF EnsureType
  <2> QED BY <1>0, <1>1, <1>b, <1>n, <1>r, <1>p, <2>1 DEF EnsureCount
<1>2. CASE EnsureList
  <2>1. EnsureType' BY <1>0, <1>2 DEF EnsureList, EnsureType, Peers
  <2> QED BY <1>2, <1>b, <1>n, <1>r, <1>p, <2>1 DEF EnsureList
<1>3. CASE EnsureDial
  <2>1. EnsureType' BY <1>0, <1>3 DEF EnsureDial, EnsureType
  <2>2. NetType' BY <1>0, <1>3 DEF EnsureDial, NetType
  <2> QED BY <1>3, <1>b, <1>r, <1>p, <2>1, <2>2 DEF EnsureDial
<1>4. CASE EnsureAsk
  <2>1. EnsureType' BY <1>0, <1>4 DEF EnsureAsk, EnsureType
  <2>2. NetType'
    <3>1. link' \in [Addrs -> {"none", "in", "out"}]
      <4>1. CASE UNCHANGED link BY <1>0, <4>1 DEF NetType
      <4>2. CASE \E p \in Peers : SendTo(p) BY <1>0, <4>2, LinkKeeps DEF Peers
      <4> QED BY <1>4, <4>1, <4>2 DEF EnsureAsk
    <3> QED BY <1>0, <1>4, <3>1 DEF EnsureAsk, NetType
  <2> QED BY <1>4, <1>b, <1>r, <1>p, <2>1, <2>2 DEF EnsureAsk
<1>5. CASE EnsureReturn \/ Quit \/ SeedsDone
  <2>1. EnsureType'
    BY <1>0, <1>5, PexAssumption DEF EnsureReturn, Quit, SeedsDone, EnsureType
  <2> QED BY <1>5, <1>b, <1>n, <1>r, <1>p, <2>1 DEF EnsureReturn, Quit, SeedsDone
<1>6. CASE SeedSave
  <2>1. EnsureType' BY <1>0, <1>6, PexAssumption DEF SeedSave, EnsureType
  <2>2. BookType' BY <1>0, <1>6, PexAssumption, BookKeeps DEF SeedSave
  <2> QED BY <1>6, <1>n, <1>r, <1>p, <2>1, <2>2 DEF SeedSave
<1>7. CASE FlushMsgCount
  <2>1. ReceiveType' BY <1>0, <1>7 DEF FlushMsgCount, ReceiveType
  <2> QED BY <1>7, <1>b, <1>n, <1>e, <1>p, <2>1 DEF FlushMsgCount
<1>8. ASSUME NEW a \in Addrs, EnsurePick(a) \/ SeedAdd(a) \/ SeedDial(a) PROVE TypeOK'
  <2>1. CASE EnsurePick(a)
    <3>1. EnsureType' BY <1>0, <2>1 DEF EnsurePick, EnsureType
    <3> QED BY <2>1, <1>b, <1>n, <1>r, <1>p, <3>1 DEF EnsurePick
  <2>2. CASE SeedAdd(a)
    <3>1. EnsureType' BY <1>0, <2>2 DEF SeedAdd, EnsureType
    <3>2. BookType' BY <1>0, <2>2, BookKeeps DEF SeedAdd
    <3> QED BY <2>2, <1>n, <1>r, <1>p, <3>1, <3>2 DEF SeedAdd
  <2>3. CASE SeedDial(a)
    <3>1. EnsureType' BY <1>0, <2>3 DEF SeedDial, EnsureType
    <3>2. NetType' BY <1>0, <2>3 DEF SeedDial, NetType
    <3> QED BY <2>3, <1>b, <1>r, <1>p, <3>1, <3>2 DEF SeedDial
  <2> QED BY <1>8, <2>1, <2>2, <2>3
<1>9. ASSUME NEW a \in Addrs,
             \/ DialFilter(a) \/ DelSelfRemove(a) \/ DelSelfAddOurs(a)
             \/ DialEnds(a) \/ DialMark(a)
      PROVE  TypeOK'
  <2>1. NetType'
    <3>1. CASE DialFilter(a) BY <1>0, <3>1 DEF DialFilter, Step, NetType
    <3>2. CASE DelSelfRemove(a) \/ DelSelfAddOurs(a)
      BY <1>0, <3>2 DEF DelSelfRemove, DelSelfAddOurs, Step, NetType
    <3>3. CASE DialEnds(a) BY <1>0, <3>3 DEF DialEnds, Step, NetType
    <3>4. CASE DialMark(a) BY <1>0, <3>4 DEF DialMark, Step, NetType
    <3> QED BY <1>9, <3>1, <3>2, <3>3, <3>4
  <2>2. BookType'
    BY <1>0, <1>9, BookKeeps DEF DialFilter, DelSelfRemove, DelSelfAddOurs, DialEnds, DialMark
  <2> QED BY <1>9, <1>e, <1>r, <1>p, <2>1, <2>2
          DEF DialFilter, DelSelfRemove, DelSelfAddOurs, DialEnds, DialMark
<1>10. ASSUME NEW a \in Addrs, JoinAdd(a) \/ JoinEnd(a) \/ Leave(a) PROVE TypeOK'
  <2>1. NetType' BY <1>0, <1>10 DEF JoinAdd, JoinEnd, Leave, StopPeer, NetType
  <2>2. BookType' BY <1>0, <1>10, BookKeeps DEF JoinAdd, JoinEnd, Leave
  <2>3. ReceiveType'
    BY <1>0, <1>10 DEF JoinAdd, JoinEnd, Leave, ReceiveType, receive
  <2> QED BY <1>10, <1>e, <1>p, <2>1, <2>2, <2>3 DEF JoinAdd, JoinEnd, Leave
<1>11. ASSUME NEW a \in Addrs, ReceiveGet(a) \/ ReceiveSet(a) \/ ReceiveCheck(a) PROVE TypeOK'
  <2>0. <<>> \in Seq(Addrs) OBVIOUS
  <2>1. NetType'
    BY <1>0, <1>11 DEF ReceiveGet, ReceiveSet, ReceiveCheck, StopPeer, NetType
  <2>2. ReceiveType'
    <3>1. CASE ReceiveGet(a)
      <4>1. [step |-> "set", count |-> msgCount[a], list |-> <<>>] \in Record
        BY <1>0, <2>0 DEF ReceiveType, Record
      <4> QED BY <1>0, <3>1, <4>1 DEF ReceiveGet, ReceiveType
    <3>2. CASE ReceiveSet(a)
      <4>1. [step |-> "check", count |-> 0, list |-> <<>>] \in Record
        BY <2>0 DEF Record
      <4>2. recv[a].count + 1 \in Nat BY <1>0 DEF ReceiveType, Record
      <4> QED BY <1>0, <3>2, <4>1, <4>2 DEF ReceiveSet, ReceiveType
    <3>3. CASE ReceiveCheck(a)
      <4>1. Waiting \in Record BY <2>0 DEF Waiting, Record
      <4>2. [recv[a] EXCEPT !.step = "handle"] \in Record BY <1>0 DEF ReceiveType, Record
      <4>3. recv' \in [Addrs -> Record]
        BY <1>0, <3>3, <4>1, <4>2 DEF ReceiveCheck, ReceiveType
      <4>4. handled[a] + 1 \in Nat BY <1>0 DEF ReceiveType
      <4>5. handled' \in [Addrs -> Nat] BY <1>0, <3>3, <4>4 DEF ReceiveCheck, ReceiveType
      <4> QED BY <1>0, <3>3, <4>3, <4>5 DEF ReceiveCheck, ReceiveType
    <3> QED BY <1>11, <3>1, <3>2, <3>3
  <2> QED BY <1>11, <1>b, <1>e, <1>p, <2>1, <2>2 DEF ReceiveGet, ReceiveSet, ReceiveCheck
<1>12. ASSUME NEW a \in Addrs, ReceiveHandle(a) PROVE TypeOK'
  <2>0. <<>> \in Seq(Addrs) OBVIOUS
  <2>1. PICK msg \in PexMessages :
          /\ recv' = [recv EXCEPT ![a] =
                        IF msg.type = "addrs"
                        THEN [step |-> "add", count |-> 0, list |-> msg.addrs] ELSE Waiting]
          /\ CASE msg.type = "error" -> StopPeer(a)
               [] msg.type = "request" -> SendTo(a)
               [] OTHER -> UNCHANGED link
    BY <1>12, Zenon DEF ReceiveHandle
  <2>2. msg.addrs \in Seq(Addrs) BY <2>0, PexAssumption DEF PexMessages
  <2>3. [step |-> "add", count |-> 0, list |-> msg.addrs] \in Record /\ Waiting \in Record
    BY <2>0, <2>2 DEF Record, Waiting
  <2>4. ReceiveType' BY <1>0, <1>12, <2>1, <2>3 DEF ReceiveHandle, ReceiveType
  <2>5. SendTo(a) BY <2>1 DEF SendTo
  <2>6. NetType' BY <1>0, <1>12, <2>5, LinkKeeps DEF ReceiveHandle, NetType
  <2> QED BY <1>12, <1>b, <1>e, <1>p, <2>4, <2>6 DEF ReceiveHandle
<1>13. ASSUME NEW a \in Addrs, ReceiveAdd(a) PROVE TypeOK'
  <2>0. <<>> \in Seq(Addrs) OBVIOUS
  <2>1. recv[a] \in Record /\ recv[a].list \in Seq(Addrs) BY <1>0 DEF ReceiveType, Record
  <2>2. ReceiveType'
    <3>1. Waiting \in Record BY <2>0 DEF Waiting, Record
    <3>2. CASE recv' = [recv EXCEPT ![a] = Waiting]
      BY <1>0, <1>13, <3>1, <3>2 DEF ReceiveAdd, ReceiveType
    <3>3. CASE recv[a].list # <<>> /\ recv' = [recv EXCEPT ![a].list = Tail(@)]
      <4>1. Tail(recv[a].list) \in Seq(Addrs) BY <2>1, <3>3
      <4>2. [recv[a] EXCEPT !.list = Tail(@)] \in Record BY <2>1, <4>1 DEF Record
      <4> QED BY <1>0, <1>13, <3>3, <4>2 DEF ReceiveAdd, ReceiveType
    <3> QED BY <1>13, <3>2, <3>3 DEF ReceiveAdd
  <2>3. BookType'
    <3>1. CASE UNCHANGED book BY <3>1, <1>b
    <3>2. CASE recv[a].list # <<>> /\ AddAddress(Head(recv[a].list))
      <4>1. Head(recv[a].list) \in Addrs BY <2>1, <3>2
      <4> QED BY <1>0, <3>2, <4>1, BookKeeps
    <3> QED BY <1>13, <3>1, <3>2 DEF ReceiveAdd
  <2>4. NetType' BY <1>0, <1>13 DEF ReceiveAdd, StopPeer, NetType
  <2> QED BY <1>13, <1>e, <1>p, <2>2, <2>3, <2>4 DEF ReceiveAdd
<1>14. CASE UNCHANGED vars BY <1>14, <1>b, <1>n, <1>e, <1>r, <1>p DEF vars
<1> QED BY <1>1, <1>2, <1>3, <1>4, <1>5, <1>6, <1>7, <1>8, <1>9, <1>10, <1>11, <1>12, <1>13,
           <1>14, NextCases

\* Every variable of the reactor, of its goroutines and of its handler keeps its
\* type.
THEOREM PexTypesCorrect == Spec => []TypeOK
  BY TypeInit, TypeStep, PTL DEF Spec

-----------------------------------------------------------------------------
(* The counter of messages.                                                *)

\* What is known of the counter and of what was handled under it, by the step
\* of Receive: a count that was read before a reset is only too large.
CountInv ==
    \A p \in Addrs :
        /\ handled[p] = 0 \/ handled[p] < MsgLimit
        /\ IF recv[p].step = "check"
           THEN handled[p] = 0 \/ handled[p] < msgCount[p]
           ELSE handled[p] <= msgCount[p]
        /\ recv[p].step = "set" => handled[p] <= recv[p].count

LEMMA CountStep == TypeOK /\ CountInv /\ [Next]_vars => CountInv'
<1> SUFFICES ASSUME TypeOK, CountInv, [Next]_vars PROVE CountInv' OBVIOUS
<1> USE PexAssumption
<1>0. /\ recv \in [Addrs -> Record]
      /\ msgCount \in [Addrs -> Nat] /\ handled \in [Addrs -> Nat]
      /\ MsgLimit \in Nat
  BY TypeParts DEF ReceiveType
<1>q. UNCHANGED receive => CountInv' BY DEF receive, CountInv
<1>1. CASE FlushMsgCount BY <1>0, <1>1 DEF FlushMsgCount, CountInv, Record
<1>2. ASSUME NEW a \in Addrs, JoinEnd(a) PROVE CountInv'
  <2>1. CASE UNCHANGED <<msgCount, handled>> BY <1>2, <2>1 DEF JoinEnd, CountInv
  <2>2. CASE /\ recv[a] = Waiting
             /\ msgCount' = [msgCount EXCEPT ![a] = 0]
             /\ handled' = [handled EXCEPT ![a] = 0]
    BY <1>0, <1>2, <2>2 DEF JoinEnd, CountInv, Waiting
  <2> QED BY <1>2, <2>1, <2>2 DEF JoinEnd
<1>3. ASSUME NEW a \in Addrs, ReceiveGet(a) PROVE CountInv'
  <2>1. recv'[a] = [step |-> "set", count |-> msgCount[a], list |-> <<>>]
    BY <1>0, <1>3 DEF ReceiveGet
  <2>2. \A p \in Addrs \ {a} : recv'[p] = recv[p] BY <1>0, <1>3 DEF ReceiveGet
  <2> QED BY <1>0, <1>3, <2>1, <2>2 DEF ReceiveGet, CountInv
<1>4. ASSUME NEW a \in Addrs, ReceiveSet(a) PROVE CountInv'
  <2>1. recv'[a] = [step |-> "check", count |-> 0, list |-> <<>>]
    BY <1>0, <1>4 DEF ReceiveSet
  <2>2. \A p \in Addrs \ {a} : recv'[p] = recv[p] /\ msgCount'[p] = msgCount[p]
    BY <1>0, <1>4 DEF ReceiveSet
  <2>3. recv[a].count \in Nat /\ msgCount'[a] = recv[a].count + 1 /\ handled[a] <= recv[a].count
    BY <1>0, <1>4 DEF ReceiveSet, Record, CountInv
  <2> QED BY <1>0, <1>4, <2>1, <2>2, <2>3 DEF ReceiveSet, CountInv
<1>5. ASSUME NEW a \in Addrs, ReceiveCheck(a) PROVE CountInv'
  <2>1. recv[a].step = "check" /\ msgCount' = msgCount BY <1>5 DEF ReceiveCheck
  <2>2. recv'[a].step # "check" /\ recv'[a].step # "set"
    BY <1>0, <1>5 DEF ReceiveCheck, Waiting, Record
  <2>3. \A p \in Addrs \ {a} : recv'[p] = recv[p] /\ handled'[p] = handled[p]
    BY <1>0, <1>5 DEF ReceiveCheck
  <2>4. (handled'[a] = 0 \/ handled'[a] < MsgLimit) /\ handled'[a] <= msgCount[a]
    <3>1. handled[a] = 0 \/ handled[a] < msgCount[a] BY <2>1 DEF CountInv
    <3>2. CASE reachedMaxMsgLimit(a)
      BY <1>0, <1>5, <3>1, <3>2 DEF ReceiveCheck, CountInv
    <3>3. CASE ~reachedMaxMsgLimit(a)
      BY <1>0, <1>5, <3>1, <3>3 DEF ReceiveCheck, reachedMaxMsgLimit
    <3> QED BY <3>2, <3>3
  <2> QED BY <1>0, <2>1, <2>2, <2>3, <2>4 DEF CountInv
<1>6. ASSUME NEW a \in Addrs, ReceiveHandle(a) \/ ReceiveAdd(a) PROVE CountInv'
  <2>0. recv[a] \in Record BY <1>0
  <2>1. recv[a].step \in {"handle", "add"} /\ UNCHANGED <<msgCount, handled>>
    BY <1>6 DEF ReceiveHandle, ReceiveAdd
  <2>2. recv'[a].step # "check" /\ recv'[a].step # "set"
    <3>1. CASE ReceiveHandle(a)
      <4>1. PICK msg \in PexMessages :
              recv' = [recv EXCEPT ![a] =
                         IF msg.type = "addrs"
                         THEN [step |-> "add", count |-> 0, list |-> msg.addrs] ELSE Waiting]
        BY <3>1, Zenon DEF ReceiveHandle
      <4> QED BY <1>0, <4>1 DEF Waiting
    <3>2. CASE ReceiveAdd(a)
      <4>1. CASE recv' = [recv EXCEPT ![a] = Waiting] BY <1>0, <4>1 DEF Waiting
      <4>2. CASE recv' = [recv EXCEPT ![a].list = Tail(@)]
        <5>1. recv'[a] = [recv[a] EXCEPT !.list = Tail(@)] BY <1>0, <4>2
        <5>2. recv'[a].step = recv[a].step BY <2>0, <5>1 DEF Record
        <5> QED BY <3>2, <5>2 DEF ReceiveAdd
      <4> QED BY <3>2, <4>1, <4>2 DEF ReceiveAdd
    <3> QED BY <1>6, <3>1, <3>2
  <2>3. \A p \in Addrs \ {a} : recv'[p] = recv[p]
    BY <1>0, <1>6 DEF ReceiveHandle, ReceiveAdd
  <2> QED BY <1>0, <2>1, <2>2, <2>3 DEF CountInv
<1>7. \/ FlushMsgCount \/ UNCHANGED receive
      \/ \E a \in Addrs : \/ JoinEnd(a) \/ ReceiveGet(a) \/ ReceiveSet(a) \/ ReceiveCheck(a)
                          \/ ReceiveHandle(a) \/ ReceiveAdd(a)
  BY NextCases, Zenon
     DEF EnsureCount, EnsureList, EnsureDial, EnsureAsk, EnsureReturn, Quit, SeedSave, SeedsDone,
         EnsurePick, SeedAdd, SeedDial, DialFilter, DelSelfRemove, DelSelfAddOurs, DialEnds,
         DialMark, JoinAdd, Leave, vars
<1> QED BY <1>1, <1>2, <1>3, <1>4, <1>5, <1>6, <1>7, <1>q

\* Fewer than MsgLimit messages of a peer get past the check in Receive between
\* two resets, wherever the reset comes between the calls of incrementMsgCount
\* and reachedMaxMsgLimit, for any limit and any number of peers.
THEOREM HandledAlwaysBounded == Spec => []HandledBounded
<1>1. Init => CountInv BY PexAssumption DEF Init, CountInv, Waiting
<1>2. CountInv => HandledBounded BY DEF CountInv, HandledBounded
<1> QED BY <1>1, <1>2, CountStep, PexTypesCorrect, PTL DEF Spec

-----------------------------------------------------------------------------
(* The goroutines that dial.                                               *)

\* dialing holds what the workers dial; there are workers only while ensurePeers
\* waits for them or dialSeeds runs; and the list of peers that ensurePeers made
\* still holds the outbound ones while it picks, for none is added meanwhile.
DialInv ==
    /\ dialing = {a \in Addrs : worker[a] = "dialing"}
    /\ pc \notin {"wait", "dial seeds"} => NoWorkers
    /\ pc = "pick" => Outbound \subseteq connectedPeers /\ toDial \cap connectedPeers = {}
    /\ DialsNewNodes

\* A step that starts, ends or moves no worker and dials nothing.
Quiet == UNCHANGED <<dialing, ensure, worker>> /\ Outbound' \subseteq Outbound

LEMMA QuietSteps ==
  ASSUME TypeOK, NEW a \in Addrs,
         \/ JoinAdd(a) \/ JoinEnd(a) \/ Leave(a) \/ ReceiveGet(a) \/ ReceiveSet(a)
         \/ ReceiveCheck(a) \/ ReceiveHandle(a) \/ ReceiveAdd(a)
  PROVE  Quiet
<1>0. link \in [Addrs -> {"none", "in", "out"}] BY DEF TypeOK
<1>1. UNCHANGED <<dialing, ensure, worker>>
  BY Zenon DEF JoinAdd, JoinEnd, Leave, ReceiveGet, ReceiveSet, ReceiveCheck, ReceiveHandle, ReceiveAdd
<1>2. \/ link' = link \/ link' = [link EXCEPT ![a] = "none"] \/ link' = [link EXCEPT ![a] = "in"]
  BY DEF JoinAdd, JoinEnd, Leave, ReceiveGet, ReceiveSet, ReceiveCheck, ReceiveHandle,
         ReceiveAdd, StopPeer, SendTo
<1> QED BY <1>0, <1>1, <1>2 DEF Quiet, Outbound

\* A step of a worker changes its own entry only.
LEMMA WorkerMoves ==
  ASSUME TypeOK, NEW a \in Addrs, NEW s, Step(a, s)
  PROVE  worker'[a] = s /\ \A x \in Addrs \ {a} : worker'[x] = worker[x]
  BY DEF TypeOK, Step

\* The steps of the workers, one after the other: where one is and where it goes.
LEMMA WorkerSteps ==
  ASSUME TypeOK, DialInv, NEW a \in Addrs,
         \/ DialFilter(a) \/ DelSelfRemove(a) \/ DelSelfAddOurs(a)
         \/ DialEnds(a) \/ DialMark(a)
  PROVE  /\ UNCHANGED ensure /\ pc \in {"wait", "dial seeds"}
         /\ \A x \in Addrs \ {a} : worker'[x] = worker[x] /\ link'[x] = link[x]
         /\ worker[a] # "none"
         /\ \/ worker[a] = "filter" /\ worker'[a] \in {"delSelf", "failed", "dialing"}
               /\ link'[a] = link[a]
            \/ worker[a] = "dialing" /\ worker'[a] = "reached" /\ link'[a] = "out"
            \/ worker[a] = "dialing" /\ worker'[a] = "failed" /\ link'[a] = link[a]
            \/ worker[a] \notin {"filter", "dialing"} /\ worker'[a] \notin {"filter", "dialing"}
               /\ link'[a] = link[a]
         /\ dialing' = IF worker'[a] = "dialing" THEN dialing \cup {a} ELSE dialing \ {a}
<1>0. /\ link \in [Addrs -> {"none", "in", "out"}]
      /\ dialing = {x \in Addrs : worker[x] = "dialing"}
  BY DEF TypeOK, DialInv
<1>1. worker[a] # "none"
  BY DEF DialFilter, DelSelfRemove, DelSelfAddOurs, DialEnds, DialMark
<1>2. UNCHANGED ensure
  BY Zenon DEF DialFilter, DelSelfRemove, DelSelfAddOurs, DialEnds, DialMark
<1>3. pc \in {"wait", "dial seeds"} BY <1>1, Zenon DEF DialInv, NoWorkers
<1>4. CASE DialFilter(a)
  <2>1. worker[a] = "filter" /\ link' = link BY <1>4 DEF DialFilter
  <2>2. PICK t \in {"delSelf", "failed", "dialing"} :
          Step(a, t) /\ dialing' = IF t = "dialing" THEN dialing \cup {a} ELSE dialing
    BY <1>4 DEF DialFilter
  <2>3. worker'[a] = t /\ \A x \in Addrs \ {a} : worker'[x] = worker[x]
    BY <2>2, WorkerMoves
  <2>4. dialing' = IF worker'[a] = "dialing" THEN dialing \cup {a} ELSE dialing \ {a}
    BY <1>0, <2>1, <2>2, <2>3
  <2> QED BY <1>1, <1>2, <1>3, <2>1, <2>3, <2>4
<1>5. CASE DelSelfRemove(a) \/ DelSelfAddOurs(a) \/ DialMark(a)
  <2>1. worker[a] \notin {"filter", "dialing"} /\ link' = link /\ dialing' = dialing
    BY <1>5 DEF DelSelfRemove, DelSelfAddOurs, DialMark
  <2>2. PICK t \in {"addOurs", "failed", "none"} : Step(a, t)
    BY <1>5 DEF DelSelfRemove, DelSelfAddOurs, DialMark
  <2>3. worker'[a] = t /\ \A x \in Addrs \ {a} : worker'[x] = worker[x]
    BY <2>2, WorkerMoves
  <2>4. dialing' = IF worker'[a] = "dialing" THEN dialing \cup {a} ELSE dialing \ {a}
    BY <1>0, <2>1, <2>2, <2>3
  <2> QED BY <1>1, <1>2, <1>3, <2>1, <2>2, <2>3, <2>4
<1>6. CASE DialEnds(a)
  <2>1. worker[a] = "dialing" /\ dialing' = dialing \ {a} BY <1>6 DEF DialEnds
  <2>2. PICK t \in {"reached", "failed"} :
          Step(a, t) /\ link' = IF t = "reached" THEN [link EXCEPT ![a] = "out"] ELSE link
    BY <1>6 DEF DialEnds
  <2>3. worker'[a] = t /\ \A x \in Addrs \ {a} : worker'[x] = worker[x]
    BY <2>2, WorkerMoves
  <2>4. dialing' = IF worker'[a] = "dialing" THEN dialing \cup {a} ELSE dialing \ {a}
    BY <2>1, <2>2, <2>3
  <2>5. link'[a] = IF t = "reached" THEN "out" ELSE link[a] BY <1>0, <2>2
  <2>6. \A x \in Addrs \ {a} : link'[x] = link[x] BY <1>0, <2>2
  <2> QED BY <1>1, <1>2, <1>3, <2>1, <2>2, <2>3, <2>4, <2>5, <2>6
<1> QED BY <1>4, <1>5, <1>6

LEMMA DialStep == TypeOK /\ DialInv /\ [Next]_vars => DialInv'
<1> SUFFICES ASSUME TypeOK, DialInv, [Next]_vars PROVE DialInv' OBVIOUS
<1>q. Quiet => DialInv'
  BY DEF Quiet, ensure, DialInv, NoWorkers, DialsNewNodes, Outbound, TypeOK
<1>1. CASE EnsureCount \/ EnsureReturn \/ Quit \/ SeedsDone
  BY <1>1 DEF EnsureCount, EnsureReturn, Quit, SeedsDone, DialInv, NoWorkers, DialsNewNodes,
              Outbound
<1>2. CASE EnsureList
  BY <1>2 DEF EnsureList, DialInv, NoWorkers, DialsNewNodes, Outbound, Peers
<1>3. CASE EnsureDial
  <2>1. \A a \in Addrs : worker[a] = "none" BY <1>3 DEF EnsureDial, DialInv, NoWorkers
  <2>2. \A a \in Addrs : worker'[a] = IF a \in toDial THEN "filter" ELSE "none"
    BY <1>3, <2>1 DEF EnsureDial
  <2>3. \A a \in toDial : a \notin Outbound BY <1>3 DEF EnsureDial, DialInv
  <2>4. UNCHANGED <<dialing, link>> /\ pc' = "wait" BY <1>3 DEF EnsureDial
  <2>5. DialsNewNodes' BY <2>2, <2>3, <2>4 DEF DialsNewNodes, Outbound
  <2> QED BY <2>1, <2>2, <2>4, <2>5 DEF DialInv
<1>4. CASE EnsureAsk
  <2>1. UNCHANGED <<dialing, worker>> /\ pc' = "return" /\ NoWorkers BY <1>4 DEF EnsureAsk
  <2> QED BY <2>1 DEF DialInv, NoWorkers, DialsNewNodes
<1>5. CASE SeedSave
  <2>1. UNCHANGED <<dialing, worker>> /\ pc' = "dial seeds" BY <1>5 DEF SeedSave
  <2> QED BY <2>1 DEF DialInv, DialsNewNodes
<1>6. ASSUME NEW a \in Addrs, EnsurePick(a) PROVE DialInv'
  BY <1>6 DEF EnsurePick, Skipped, DialInv, NoWorkers, DialsNewNodes, Outbound
<1>7. ASSUME NEW a \in Addrs, SeedAdd(a) PROVE DialInv'
  <2>1. UNCHANGED <<dialing, worker, link, pc>> /\ pc = "add seeds" BY <1>7 DEF SeedAdd
  <2> QED BY <2>1 DEF DialInv, NoWorkers, DialsNewNodes
<1>8. ASSUME NEW a \in Addrs, SeedDial(a) PROVE DialInv'
  <2>1. UNCHANGED <<dialing, pc>> /\ pc = "dial seeds" /\ worker[a] = "none"
    BY <1>8 DEF SeedDial, NoWorkers
  <2>2. \A x \in Addrs : worker'[x] = IF x = a THEN "filter" ELSE worker[x]
    BY <1>8 DEF SeedDial, TypeOK
  <2> QED BY <2>1, <2>2 DEF DialInv, DialsNewNodes
<1>9. ASSUME NEW a \in Addrs,
             \/ DialFilter(a) \/ DelSelfRemove(a) \/ DelSelfAddOurs(a)
             \/ DialEnds(a) \/ DialMark(a)
      PROVE  DialInv'
  <2>1. pc' = pc /\ pc \in {"wait", "dial seeds"} BY <1>9, WorkerSteps DEF ensure
  <2>2. dialing' = {x \in Addrs : worker'[x] = "dialing"} BY <1>9, WorkerSteps DEF DialInv
  <2>3. DialsNewNodes' BY <1>9, <2>1, WorkerSteps DEF DialInv, DialsNewNodes
  <2> QED BY <2>1, <2>2, <2>3 DEF DialInv
<1>10. CASE FlushMsgCount \/ UNCHANGED vars
  BY <1>10, <1>q DEF FlushMsgCount, Quiet, vars, Outbound
<1> QED BY <1>1, <1>2, <1>3, <1>4, <1>5, <1>6, <1>7, <1>8, <1>9, <1>10, <1>q, NextCases, QuietSteps

\* ensurePeers dials no node that it has dialled before and that is still
\* connected: an address it picked does not become an outbound peer between the
\* listing of the peers and the dial, for any number of addresses and rounds.
THEOREM DialsAlwaysNewNodes == Spec => []DialsNewNodes
<1>1. Init => DialInv BY DEF Init, DialInv, NoWorkers, DialsNewNodes
<1>2. DialInv => DialsNewNodes BY DEF DialInv
<1> QED BY <1>1, <1>2, DialStep, PexTypesCorrect, PTL DEF Spec

-----------------------------------------------------------------------------
(* The number of outbound peers.                                           *)

\* The addresses that may still become outbound peers through a worker.
Busy == {a \in Addrs : worker[a] \in {"filter", "dialing"}}

Most == MinOutbound * DialFactor

\* The outbound peers, together with all that the present call can still dial.
BoundInv ==
    /\ pc \in {"list", "pick"} => Cardinality(Outbound) + numToDial <= Most
    /\ pc = "pick" => Cardinality(toDial) <= numToDial
    /\ pc = "wait" => Cardinality(Outbound \cup Busy) <= Most
    /\ pc = "add seeds" => Cardinality(Outbound) < FewPeers
    /\ pc = "dial seeds" =>
          Cardinality(Outbound \cup Busy \cup seeds) < FewPeers + HalfOfSeeds
    /\ pc \in {"loop", "return", "quit"} =>
          \/ Cardinality(Outbound) <= Most
          \/ Cardinality(Outbound) < FewPeers + HalfOfSeeds

LEMMA Limits ==
  /\ Most \in Nat /\ FewPeers \in Nat /\ HalfOfSeeds \in Nat
  /\ FewPeers + HalfOfSeeds \in Nat
<1>1. MinOutbound \in Nat /\ DialFactor \in Nat /\ FewPeers \in Nat BY PexAssumption
<1>2. Cardinality(Seeds) \in Nat BY PexAssumption, FS_Subset, FS_CardinalityType
<1> QED BY <1>1, <1>2 DEF Most, HalfOfSeeds

\* Sets of addresses are finite, and a part is not larger than the whole.
LEMMA Counted ==
  ASSUME NEW S \in SUBSET Addrs
  PROVE  /\ IsFiniteSet(S) /\ Cardinality(S) \in Nat
         /\ \A T \in SUBSET S : Cardinality(T) \in Nat /\ Cardinality(T) <= Cardinality(S)
<1>1. IsFiniteSet(S) BY PexAssumption, FS_Subset
<1> QED BY <1>1, FS_Subset, FS_CardinalityType

LEMMA UnionCounted ==
  ASSUME NEW S \in SUBSET Addrs, NEW T \in SUBSET Addrs
  PROVE  Cardinality(S \cup T) <= Cardinality(S) + Cardinality(T)
<1>1. IsFiniteSet(S) /\ IsFiniteSet(T) BY Counted
<1>2. Cardinality(S \cup T) = Cardinality(S) + Cardinality(T) - Cardinality(S \cap T)
  BY <1>1, FS_Union
<1>3. Cardinality(S) \in Nat /\ Cardinality(T) \in Nat /\ Cardinality(S \cap T) \in Nat
  BY Counted
<1> QED BY <1>2, <1>3

\* What is asked for on top of n peers keeps within the factor.
LEMMA Factor ==
  ASSUME NEW m \in Nat, NEW d \in Nat, NEW n \in Nat, (m - n) * d > 0
  PROVE  n + (m - n) * d <= m * d
<1>1. d >= 1 OBVIOUS
<1>2. (m - n) * d = m * d - n * d OBVIOUS
<1>3. n <= n * d BY <1>1
<1> QED BY <1>2, <1>3

LEMMA Less ==
  ASSUME NEW a \in Nat, NEW b \in Nat, a <= b
  PROVE  \A m \in Nat : /\ b < m => a < m
                        /\ b <= m => a <= m
                        /\ \A n \in Nat : b + n <= m => a + n <= m
  OBVIOUS

\* While the same call goes on, fewer peers and workers keep the bound.
LEMMA Shrinks ==
  ASSUME TypeOK, TypeOK', BoundInv, UNCHANGED ensure,
         Outbound' \subseteq Outbound \cup Busy,
         Busy' \subseteq Busy,
         pc \notin {"wait", "dial seeds"} => Outbound' \subseteq Outbound
  PROVE  BoundInv'
<1>0. /\ Outbound \subseteq Addrs /\ Busy \subseteq Addrs /\ seeds \subseteq Addrs
      /\ numToDial \in Nat
  BY DEF Outbound, Busy, TypeOK
<1>1. UNCHANGED <<pc, numToDial, toDial, seeds>> BY DEF ensure
<1>2. /\ Cardinality(Outbound' \cup Busy') <= Cardinality(Outbound \cup Busy)
      /\ Cardinality(Outbound' \cup Busy') \in Nat /\ Cardinality(Outbound \cup Busy) \in Nat
  BY <1>0, Counted
<1>3. /\ Cardinality(Outbound' \cup Busy' \cup seeds) <= Cardinality(Outbound \cup Busy \cup seeds)
      /\ Cardinality(Outbound' \cup Busy' \cup seeds) \in Nat
      /\ Cardinality(Outbound \cup Busy \cup seeds) \in Nat
  BY <1>0, Counted
<1>4. pc \notin {"wait", "dial seeds"} =>
        /\ Cardinality(Outbound') <= Cardinality(Outbound)
        /\ Cardinality(Outbound') \in Nat /\ Cardinality(Outbound) \in Nat
  BY <1>0, Counted
<1>5. CASE pc = "wait"
  <2>1. Cardinality(Outbound' \cup Busy') <= Most BY <1>2, <1>5, Limits DEF BoundInv
  <2> QED BY <1>1, <1>5, <2>1 DEF BoundInv
<1>6. CASE pc = "dial seeds"
  <2>1. Cardinality(Outbound \cup Busy \cup seeds) < FewPeers + HalfOfSeeds
    BY <1>6 DEF BoundInv
  <2>2. Cardinality(Outbound' \cup Busy' \cup seeds) < FewPeers + HalfOfSeeds
    BY <1>3, <2>1, Limits, Less, Zenon
  <2> QED BY <1>1, <1>6, <2>2 DEF BoundInv
<1>7. CASE pc \notin {"wait", "dial seeds"}
  <2>1. /\ Cardinality(Outbound) + numToDial <= Most =>
            Cardinality(Outbound') + numToDial <= Most
        /\ Cardinality(Outbound) < FewPeers => Cardinality(Outbound') < FewPeers
        /\ Cardinality(Outbound) <= Most => Cardinality(Outbound') <= Most
        /\ Cardinality(Outbound) < FewPeers + HalfOfSeeds =>
             Cardinality(Outbound') < FewPeers + HalfOfSeeds
    BY <1>0, <1>4, <1>7, Limits, Less, Zenon
  <2> QED BY <1>1, <1>7, <2>1 DEF BoundInv
<1> QED BY <1>5, <1>6, <1>7

LEMMA BoundStep == TypeOK /\ TypeOK' /\ DialInv /\ BoundInv /\ [Next]_vars => BoundInv'
<1> SUFFICES ASSUME TypeOK, TypeOK', DialInv, BoundInv, [Next]_vars PROVE BoundInv' OBVIOUS
<1>0. /\ Outbound \subseteq Addrs /\ Outbound' \subseteq Addrs /\ Busy \subseteq Addrs
      /\ Busy' \subseteq Addrs /\ seeds \subseteq Addrs /\ toDial \subseteq Addrs
      /\ Peers \subseteq Addrs /\ Outbound \subseteq Peers
      /\ numToDial \in Nat
  BY DEF Outbound, Busy, Peers, TypeOK
<1>c. Cardinality(Outbound) \in Nat BY <1>0, Counted
<1>q. Quiet => BoundInv'
  <2>1. Quiet => Busy' = Busy BY DEF Quiet, Busy
  <2> QED BY <2>1, Shrinks DEF Quiet
<1>1. CASE EnsureCount
  <2>1. pc = "loop" /\ Outbound' = Outbound BY <1>1 DEF EnsureCount, Outbound
  <2>2. dialing = {} BY <2>1 DEF DialInv, NoWorkers
  <2>3. Cardinality(dialing) = 0 BY <2>2, FS_EmptySet
  <2>4. PICK todo \in Int : /\ todo = (MinOutbound - Cardinality(Outbound)) * DialFactor
                            /\ IF todo <= 0 THEN pc' = "return"
                               ELSE pc' = "list" /\ numToDial' = todo
    <3>1. Cardinality(Outbound) + Cardinality(dialing) = Cardinality(Outbound) BY <1>c, <2>3
    <3>2. (MinOutbound - Cardinality(Outbound)) * DialFactor \in Int BY <1>c, PexAssumption
    <3> QED BY <1>1, <3>1, <3>2, Zenon DEF EnsureCount
  <2>5. CASE todo <= 0 BY <2>1, <2>4, <2>5 DEF BoundInv
  <2>6. CASE ~(todo <= 0)
    <3>1. Cardinality(Outbound) + todo <= Most
      BY <1>c, <2>4, <2>6, PexAssumption, Factor DEF Most
    <3> QED BY <2>1, <2>4, <2>6, <3>1 DEF BoundInv
  <2> QED BY <2>5, <2>6
<1>2. CASE EnsureList
  <2>1. pc = "list" /\ pc' = "pick" /\ Outbound' = Outbound /\ toDial' = {} /\ numToDial' = numToDial
    BY <1>2 DEF EnsureList, Outbound
  <2>2. Cardinality({}) = 0 BY FS_EmptySet
  <2> QED BY <1>0, <2>1, <2>2 DEF BoundInv
<1>3. CASE EnsureDial
  <2>1. pc = "pick" /\ pc' = "wait" /\ Outbound' = Outbound BY <1>3 DEF EnsureDial, Outbound
  <2>2. Busy' = toDial
    <3>1. \A a \in Addrs : worker[a] = "none" BY <2>1 DEF DialInv, NoWorkers
    <3>2. \A a \in Addrs : worker'[a] = IF a \in toDial THEN "filter" ELSE "none"
      BY <1>3, <3>1 DEF EnsureDial
    <3> QED BY <1>0, <3>2 DEF Busy
  <2>3. Cardinality(Outbound \cup toDial) <= Cardinality(Outbound) + Cardinality(toDial)
    BY <1>0, UnionCounted
  <2>4. Cardinality(Outbound \cup toDial) \in Nat /\ Cardinality(toDial) \in Nat
    BY <1>0, Counted
  <2>5. Cardinality(Outbound \cup toDial) <= Most
    BY <1>0, <1>c, <2>1, <2>3, <2>4, Limits DEF BoundInv
  <2> QED BY <2>1, <2>2, <2>5 DEF BoundInv
<1>4. CASE EnsureAsk
  <2>1. pc = "wait" /\ pc' = "return" BY <1>4 DEF EnsureAsk
  <2>2. Outbound' \subseteq Outbound BY <1>4 DEF EnsureAsk, SendTo, StopPeer, Outbound, TypeOK
  <2>3. Cardinality(Outbound') <= Cardinality(Outbound \cup Busy)
        /\ Cardinality(Outbound') \in Nat /\ Cardinality(Outbound \cup Busy) \in Nat
    BY <1>0, <2>2, Counted
  <2> QED BY <2>1, <2>3, Limits DEF BoundInv
<1>5. CASE EnsureReturn
  <2>1. pc = "return" /\ Outbound' = Outbound BY <1>5 DEF EnsureReturn, Outbound
  <2>2. \/ pc' = "add seeds" /\ Cardinality(Peers) < FewPeers
        \/ pc' = "loop"
    BY <1>5 DEF EnsureReturn
  <2>3. Cardinality(Outbound) <= Cardinality(Peers) /\ Cardinality(Peers) \in Nat
    BY <1>0, Counted
  <2>4. Cardinality(Peers) < FewPeers => Cardinality(Outbound) < FewPeers
    BY <1>c, <2>3, Limits
  <2> QED BY <2>1, <2>2, <2>4 DEF BoundInv
<1>6. CASE Quit BY <1>6 DEF Quit, BoundInv, Outbound
<1>7. CASE SeedSave
  <2>1. pc = "add seeds" /\ pc' = "dial seeds" /\ Outbound' = Outbound /\ worker' = worker
    BY <1>7 DEF SeedSave, Outbound
  <2>2. Busy' = {} BY <2>1 DEF DialInv, NoWorkers, Busy
  <2>3. seeds' \in SUBSET Addrs /\ Cardinality(seeds') = HalfOfSeeds
    BY <1>7, PexAssumption DEF SeedSave
  <2>4. Cardinality(Outbound \cup seeds') <= Cardinality(Outbound) + HalfOfSeeds
    BY <1>0, <2>3, UnionCounted
  <2>5. Cardinality(Outbound \cup seeds') \in Nat BY <1>0, <2>3, Counted
  <2>6. Outbound' \cup Busy' \cup seeds' = Outbound \cup seeds' BY <2>1, <2>2
  <2>7. Cardinality(Outbound) < FewPeers BY <2>1 DEF BoundInv
  <2>8. Cardinality(Outbound \cup seeds') < FewPeers + HalfOfSeeds
    BY <1>c, <2>4, <2>5, <2>7, Limits
  <2> QED BY <2>1, <2>6, <2>8 DEF BoundInv
<1>8. CASE SeedsDone
  <2>1. pc = "dial seeds" /\ pc' = "loop" /\ Outbound' = Outbound BY <1>8 DEF SeedsDone, Outbound
  <2>2. Cardinality(Outbound) <= Cardinality(Outbound \cup Busy \cup seeds)
        /\ Cardinality(Outbound \cup Busy \cup seeds) \in Nat
    BY <1>0, Counted
  <2>3. Cardinality(Outbound \cup Busy \cup seeds) < FewPeers + HalfOfSeeds
    BY <2>1 DEF BoundInv
  <2>4. Cardinality(Outbound) < FewPeers + HalfOfSeeds BY <1>c, <2>2, <2>3, Limits
  <2> QED BY <2>1, <2>4 DEF BoundInv
<1>9. ASSUME NEW a \in Addrs, EnsurePick(a) PROVE BoundInv'
  <2>1. /\ pc = "pick" /\ pc' = "pick" /\ Outbound' = Outbound /\ numToDial' = numToDial
        /\ Cardinality(toDial) < numToDial /\ a \notin toDial /\ toDial' = toDial \cup {a}
    BY <1>9 DEF EnsurePick, Outbound, Skipped
  <2>2. IsFiniteSet(toDial) /\ Cardinality(toDial) \in Nat BY <1>0, Counted
  <2>3. Cardinality(toDial') = Cardinality(toDial) + 1 BY <2>1, <2>2, FS_AddElement
  <2> QED BY <1>0, <2>1, <2>2, <2>3 DEF BoundInv
<1>10. ASSUME NEW a \in Addrs, SeedAdd(a) PROVE BoundInv'
  BY <1>10 DEF SeedAdd, BoundInv, Outbound
<1>11. ASSUME NEW a \in Addrs, SeedDial(a) PROVE BoundInv'
  <2>1. pc = "dial seeds" /\ pc' = "dial seeds" /\ Outbound' = Outbound
    BY <1>11 DEF SeedDial, Outbound
  <2>2. \A x \in Addrs : worker'[x] = IF x = a THEN "filter" ELSE worker[x]
    BY <1>11 DEF SeedDial, TypeOK
  <2>3. Busy' = Busy \cup {a} BY <2>2 DEF Busy
  <2>4. a \in seeds /\ seeds' = seeds \ {a} BY <1>11 DEF SeedDial
  <2>5. Outbound' \cup Busy' \cup seeds' = Outbound \cup Busy \cup seeds BY <2>1, <2>3, <2>4
  <2> QED BY <2>1, <2>5 DEF BoundInv
<1>12. ASSUME NEW a \in Addrs,
              \/ DialFilter(a) \/ DelSelfRemove(a) \/ DelSelfAddOurs(a)
              \/ DialEnds(a) \/ DialMark(a)
       PROVE  BoundInv'
  <2>1. UNCHANGED ensure /\ pc \in {"wait", "dial seeds"} BY <1>12, WorkerSteps
  <2>2. Outbound' \subseteq Outbound \cup Busy BY <1>12, WorkerSteps DEF Outbound, Busy
  <2>3. Busy' \subseteq Busy BY <1>12, WorkerSteps DEF Busy
  <2> QED BY <2>1, <2>2, <2>3, Shrinks
<1>13. CASE FlushMsgCount \/ UNCHANGED vars
  BY <1>13, <1>q DEF FlushMsgCount, Quiet, vars, Outbound
<1> QED BY <1>1, <1>2, <1>3, <1>4, <1>5, <1>6, <1>7, <1>8, <1>9, <1>10, <1>11, <1>12, <1>13, <1>q,
           NextCases, QuietSteps

LEMMA BoundSafe == TypeOK /\ DialInv /\ BoundInv => OutboundBounded
<1> SUFFICES ASSUME TypeOK, DialInv, BoundInv PROVE OutboundBounded OBVIOUS
<1>1. /\ Outbound \subseteq Addrs /\ Busy \subseteq Addrs /\ seeds \subseteq Addrs
      /\ dialing \subseteq Busy
  BY DEF Outbound, Busy, TypeOK, DialInv
<1>2. CASE pc = "wait"
  <2>1. Cardinality(Outbound \cup dialing) <= Cardinality(Outbound \cup Busy)
        /\ Cardinality(Outbound \cup dialing) \in Nat /\ Cardinality(Outbound \cup Busy) \in Nat
    BY <1>1, Counted
  <2> QED BY <1>2, <2>1, Limits DEF BoundInv, OutboundBounded, Most
<1>3. CASE pc = "dial seeds"
  <2>1. Cardinality(Outbound \cup dialing) <= Cardinality(Outbound \cup Busy \cup seeds)
        /\ Cardinality(Outbound \cup dialing) \in Nat
        /\ Cardinality(Outbound \cup Busy \cup seeds) \in Nat
    BY <1>1, Counted
  <2>2. Cardinality(Outbound \cup Busy \cup seeds) < FewPeers + HalfOfSeeds
    BY <1>3 DEF BoundInv
  <2>3. Cardinality(Outbound \cup dialing) < FewPeers + HalfOfSeeds BY <2>1, <2>2, Limits
  <2> QED BY <2>3 DEF OutboundBounded
<1>4. CASE pc \notin {"wait", "dial seeds"}
  <2>1. dialing = {} BY <1>4 DEF DialInv, NoWorkers
  <2>2. Outbound \cup dialing = Outbound BY <2>1
  <2>3. Cardinality(Outbound) \in Nat BY <1>1, Counted
  <2>4. Cardinality(Outbound) <= Most \/ Cardinality(Outbound) < FewPeers + HalfOfSeeds
    <3>1. CASE pc \in {"list", "pick"}
      <4>1. numToDial \in Nat /\ Cardinality(Outbound) + numToDial <= Most
        BY <3>1 DEF BoundInv, TypeOK
      <4> QED BY <2>3, <4>1, Limits
    <3>2. CASE pc = "add seeds"
      <4>1. Cardinality(Outbound) < FewPeers BY <3>2 DEF BoundInv
      <4> QED BY <2>3, <4>1, Limits
    <3>3. CASE pc \in {"loop", "return", "quit"} BY <3>3 DEF BoundInv
    <3> QED BY <1>4, <3>1, <3>2, <3>3 DEF TypeOK
  <2> QED BY <2>2, <2>4 DEF OutboundBounded, Most
<1> QED BY <1>2, <1>3, <1>4

\* ensurePeers and dialSeeds together never have more outbound peers and dials
\* under way than MinOutbound * DialFactor, unless there were so few peers that
\* the seeds were dialled, and then fewer than FewPeers and half of the seeds.
\* This holds for any limits, seeds and rounds, although ensurePeers counts once
\* and then dials in parallel.
THEOREM OutboundAlwaysBounded == Spec => []OutboundBounded
<1>1. Init => DialInv BY DEF Init, DialInv, NoWorkers, DialsNewNodes
<1>2. Init => BoundInv
  <2> SUFFICES ASSUME Init PROVE BoundInv OBVIOUS
  <2>1. pc = "loop" /\ Outbound = {} BY DEF Init, Outbound
  <2>2. Cardinality({}) = 0 BY FS_EmptySet
  <2> QED BY <2>1, <2>2, Limits DEF BoundInv
<1> QED BY <1>1, <1>2, DialStep, BoundStep, BoundSafe, PexTypesCorrect, PTL DEF Spec
=============================================================================
