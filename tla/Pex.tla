-------------------------------- MODULE Pex --------------------------------
(***************************************************************************)
(* pex.PEXReactor (src/p2p/pex/pex_reactor.go): ensurePeersRoutine with    *)
(* the goroutines of ensurePeers and dialSeeds, the handler Receive, which *)
(* runs in the receiving goroutine of each peer, and the hourly reset of   *)
(* the message counters.  The address book is an AddrTable.  Of the switch *)
(* the module keeps the connected peers and the map dialing.  A node has   *)
(* one address and connects again only when the handler of its former      *)
(* connection has returned.                                                *)
(***************************************************************************)
EXTENDS Integers, FiniteSets, Sequences

CONSTANTS Addrs,         \* network addresses
          Self,          \* our own listen address
          Refused,       \* the addresses addAddress refuses as not routable
          Seeds,         \* Config.Seeds
          MinOutbound,   \* minNumOutboundPeers
          DialFactor,    \* candidates per missing peer, 3 in the code
          FewPeers,      \* the number of peers below which seeds are dialled
          MaxNumPeers, NeedAddrs,
          MsgLimit,      \* defaultMaxMsgCountByPeer
          Inbound,       \* bound: the nodes that may connect to us
          Senders,       \* bound: the peers that send PEX messages
          Lists,         \* bound: the address lists a peer may send
          MaxRounds      \* bound on the calls of ensurePeers

ASSUME PexAssumption ==
    /\ IsFiniteSet(Addrs) /\ Self \in Addrs
    /\ Seeds \subseteq Addrs /\ Inbound \subseteq Addrs \ {Self}
    /\ Lists \subseteq Seq(Addrs)
    /\ {MinOutbound, DialFactor, FewPeers, MaxNumPeers, NeedAddrs, MsgLimit,
        MaxRounds} \subseteq Nat

VARIABLES
    new, old, ours, saved,   \* the address book
    link,       \* sw.peers: how each node is connected
    joining,    \* inbound peers inside PEXReactor.AddPeer, after AddAddress
    dialing,    \* sw.dialing
    pc,         \* ensurePeersRoutine
    rounds,     \* calls of ensurePeers so far
    numToDial, connectedPeers, toDial,   \* the locals of ensurePeers
    seeds,      \* dialSeeds: seeds still to be added, then to be dialled
    worker,     \* the goroutine that dials an address
    recv,       \* Receive for a peer: its step, its locals
    msgCount,   \* msgCountByPeer; 0 is a missing entry
    handled     \* history: messages of a peer handled since the last reset

book == <<new, old, ours, saved>>
ensure == <<pc, rounds, numToDial, connectedPeers, toDial, seeds>>
receive == <<recv, msgCount, handled>>
vars == <<book, link, joining, dialing, ensure, worker, receive>>

Table == INSTANCE AddrTable

Waiting == [step |-> "idle", count |-> 0, list |-> <<>>]

Peers == {a \in Addrs : link[a] # "none"}
Outbound == {a \in Addrs : link[a] = "out"}

Init ==
    /\ Table!Init
    /\ link = [a \in Addrs |-> "none"] /\ joining = {} /\ dialing = {}
    /\ pc = "loop" /\ rounds = 0 /\ numToDial = 0
    /\ connectedPeers = {} /\ toDial = {} /\ seeds = {}
    /\ worker = [a \in Addrs |-> "none"]
    /\ recv = [a \in Addrs |-> Waiting]
    /\ msgCount = [a \in Addrs |-> 0]
    /\ handled = [a \in Addrs |-> 0]

\* AddrBook.AddAddress: its error, and its effect otherwise.  A known address
\* may be left where it is.
AddErrs(a) == a \in ours \cup Refused

AddAddress(a) ==
    /\ ~AddErrs(a)
    /\ \/ Table!Add(a)
       \/ a \in new \cup old /\ UNCHANGED book

\* AddrBook.PickAddress: with a bias between 10 and 90 any known address.
PickAddress == new \cup old

NeedMoreAddrs == Cardinality(new \cup old) < NeedAddrs

StopPeer(p) == link' = [link EXCEPT ![p] = "none"]

\* TrySend, and StopPeerGracefully if it fails.
SendTo(p) == UNCHANGED link \/ StopPeer(p)

-----------------------------------------------------------------------------
(* ensurePeers.                                                            *)

\* A tick, or the first call: how many addresses to dial.
EnsureCount ==
    /\ pc = "loop" /\ rounds < MaxRounds
    /\ rounds' = rounds + 1
    /\ LET n == Cardinality(Outbound) + Cardinality(dialing)
           todo == (MinOutbound - n) * DialFactor
       IN  IF todo <= 0
           THEN pc' = "return" /\ UNCHANGED numToDial
           ELSE pc' = "list" /\ numToDial' = todo
    /\ UNCHANGED <<book, link, joining, dialing, connectedPeers, toDial, seeds, worker, receive>>

EnsureList ==
    /\ pc = "list"
    /\ connectedPeers' = Peers /\ toDial' = {}
    /\ pc' = "pick"
    /\ UNCHANGED <<book, link, joining, dialing, rounds, numToDial, seeds, worker, receive>>

\* Mutant of Skipped: connected nodes are not passed over.
SkippedDials(a) == a \in toDial \cup dialing

\* The three tests on which the loop goes on with its next attempt.
Skipped(a) == a \in toDial \cup dialing \cup connectedPeers

\* Mutant of EnsurePick: as many addresses as there are.
EnsurePickAny(a) ==
    /\ pc = "pick"
    /\ a \in PickAddress /\ ~Skipped(a)
    /\ toDial' = toDial \cup {a}
    /\ UNCHANGED <<book, link, joining, dialing, pc, rounds, numToDial, connectedPeers,
                   seeds, worker, receive>>

EnsurePick(a) ==
    /\ pc = "pick" /\ Cardinality(toDial) < numToDial
    /\ a \in PickAddress /\ ~Skipped(a)
    /\ toDial' = toDial \cup {a}
    /\ UNCHANGED <<book, link, joining, dialing, pc, rounds, numToDial, connectedPeers,
                   seeds, worker, receive>>

\* The loop ends with enough addresses, or because attempts that found nothing
\* or something to skip used up maxAttempts.  One goroutine per address starts.
EnsureDial ==
    /\ pc = "pick"
    /\ \/ Cardinality(toDial) = numToDial
       \/ PickAddress = {}
       \/ \E a \in PickAddress : Skipped(a)
    /\ worker' = [a \in Addrs |-> IF a \in toDial THEN "filter" ELSE worker[a]]
    /\ pc' = "wait"
    /\ numToDial' = 0 /\ connectedPeers' = {} /\ toDial' = {}   \* not used again
    /\ UNCHANGED <<book, link, joining, dialing, rounds, seeds, receive>>

NoWorkers == \A a \in Addrs : worker[a] = "none"

\* wg.Wait, then a request for addresses to one of the peers.
EnsureAsk ==
    /\ pc = "wait" /\ NoWorkers
    /\ IF NeedMoreAddrs /\ Peers # {} THEN \E p \in Peers : SendTo(p) ELSE UNCHANGED link
    /\ pc' = "return"
    /\ UNCHANGED <<book, joining, dialing, rounds, numToDial, connectedPeers, toDial, seeds,
                   worker, receive>>

\* Back in ensurePeersRoutine: after the first call seeds may be dialled.
EnsureReturn ==
    /\ pc = "return"
    /\ IF rounds = 1 /\ Cardinality(Peers) < FewPeers /\ Seeds # {}
       THEN pc' = "add seeds" /\ seeds' = Seeds
       ELSE pc' = "loop" /\ UNCHANGED seeds
    /\ UNCHANGED <<book, link, joining, dialing, rounds, numToDial, connectedPeers, toDial,
                   worker, receive>>

Quit ==
    /\ pc = "loop"
    /\ pc' = "quit"
    /\ UNCHANGED <<book, link, joining, dialing, rounds, numToDial, connectedPeers, toDial,
                   seeds, worker, receive>>

-----------------------------------------------------------------------------
(* dialSeeds: every seed is added, the book is saved, and every second one *)
(* of a random permutation is dialled, one after the other.                *)

SeedAdd(a) ==
    /\ pc = "add seeds" /\ a \in seeds
    /\ IF a = Self \/ AddErrs(a) THEN UNCHANGED book ELSE AddAddress(a)
    /\ seeds' = seeds \ {a}
    /\ UNCHANGED <<link, joining, dialing, pc, rounds, numToDial, connectedPeers, toDial,
                   worker, receive>>

HalfOfSeeds == (Cardinality(Seeds) + 1) \div 2

SeedSave ==
    /\ pc = "add seeds" /\ seeds = {}
    /\ Table!Save
    /\ seeds' \in {s \in SUBSET Seeds : Cardinality(s) = HalfOfSeeds}
    /\ pc' = "dial seeds"
    /\ UNCHANGED <<link, joining, dialing, rounds, numToDial, connectedPeers, toDial,
                   worker, receive>>

SeedDial(a) ==
    /\ pc = "dial seeds" /\ a \in seeds /\ NoWorkers
    /\ worker' = [worker EXCEPT ![a] = "filter"]
    /\ seeds' = seeds \ {a}
    /\ UNCHANGED <<book, link, joining, dialing, pc, rounds, numToDial, connectedPeers,
                   toDial, receive>>

SeedsDone ==
    /\ pc = "dial seeds" /\ seeds = {} /\ NoWorkers
    /\ pc' = "loop"
    /\ UNCHANGED <<book, link, joining, dialing, rounds, numToDial, connectedPeers, toDial,
                   seeds, worker, receive>>

-----------------------------------------------------------------------------
(* Switch.DialPeerWithAddress and dialPeerWorker.                          *)

Step(a, to) == worker' = [worker EXCEPT ![a] = to]

\* filterConnByIP: a banned address, or our own.
DialFilter(a) ==
    /\ worker[a] = "filter"
    /\ \/ a = Self /\ Step(a, "delSelf") /\ UNCHANGED dialing
       \/ Step(a, "failed") /\ UNCHANGED dialing
       \/ a # Self /\ Step(a, "dialing") /\ dialing' = dialing \cup {a}
    /\ UNCHANGED <<book, link, joining, ensure, receive>>

\* addrBookDelSelf.
DelSelfRemove(a) ==
    /\ worker[a] = "delSelf"
    /\ Table!Remove(a)
    /\ Step(a, "addOurs")
    /\ UNCHANGED <<link, joining, dialing, ensure, receive>>

DelSelfAddOurs(a) ==
    /\ worker[a] = "addOurs"
    /\ Table!AddOurs(a)
    /\ Step(a, "failed")
    /\ UNCHANGED <<link, joining, dialing, ensure, receive>>

\* The dial, the handshakes and AddPeer, which refuses a node that is connected.
DialEnds(a) ==
    /\ worker[a] = "dialing"
    /\ dialing' = dialing \ {a}
    /\ \/ /\ link[a] = "none" /\ recv[a] = Waiting
          /\ link' = [link EXCEPT ![a] = "out"]
          /\ Step(a, "reached")
       \/ Step(a, "failed") /\ UNCHANGED link
    /\ UNCHANGED <<book, joining, ensure, receive>>

\* Mutant of DialMark: a goroutine whose dial failed does not call wg.Done.
DialMarkReached(a) ==
    /\ worker[a] = "reached"
    /\ IF pc = "wait" /\ a \in new THEN Table!Good(a) ELSE UNCHANGED book
    /\ Step(a, "none")
    /\ UNCHANGED <<link, joining, dialing, ensure, receive>>

\* MarkGood or MarkAttempt, unless it was dialSeeds that dialled, and wg.Done.
DialMark(a) ==
    /\ worker[a] \in {"reached", "failed"}
    /\ IF pc = "wait" /\ worker[a] = "reached" /\ a \in new
       THEN Table!Good(a) ELSE UNCHANGED book
    /\ Step(a, "none")
    /\ UNCHANGED <<link, joining, dialing, ensure, receive>>

-----------------------------------------------------------------------------
(* Inbound peers, and peers that leave.                                    *)

\* AddPeer for an inbound peer: its address goes into the book; at the limit
\* the peer gets a selection of addresses and is stopped.  A new inbound
\* connection has a remote address of its own, and a counter of its own.
JoinAdd(p) ==
    /\ p \in Inbound \ joining /\ link[p] = "none"
    /\ AddAddress(p)
    /\ joining' = joining \cup {p}
    /\ UNCHANGED <<link, dialing, ensure, worker, receive>>

JoinEnd(p) ==
    /\ p \in joining
    /\ joining' = joining \ {p}
    /\ IF Cardinality(Peers) >= MaxNumPeers \/ link[p] # "none" \/ recv[p] # Waiting
       THEN UNCHANGED <<link, msgCount, handled>>
       ELSE /\ link' = [link EXCEPT ![p] = "in"]
            /\ msgCount' = [msgCount EXCEPT ![p] = 0]
            /\ handled' = [handled EXCEPT ![p] = 0]
    /\ UNCHANGED <<book, dialing, ensure, worker, recv>>

Leave(p) ==
    /\ link[p] # "none"
    /\ StopPeer(p)
    /\ UNCHANGED <<book, joining, dialing, ensure, worker, receive>>

-----------------------------------------------------------------------------
(* Receive.  incrementMsgCount and reachedMaxMsgLimit read and write the   *)
(* shared map in three separate calls.                                     *)

ReceiveGet(p) ==
    /\ p \in Senders /\ link[p] # "none" /\ recv[p].step = "idle"
    /\ recv' = [recv EXCEPT ![p] = [step |-> "set", count |-> msgCount[p], list |-> <<>>]]
    /\ UNCHANGED <<book, link, joining, dialing, ensure, worker, msgCount, handled>>

ReceiveSet(p) ==
    /\ recv[p].step = "set"
    /\ msgCount' = [msgCount EXCEPT ![p] = recv[p].count + 1]
    /\ recv' = [recv EXCEPT ![p] = [step |-> "check", count |-> 0, list |-> <<>>]]
    /\ UNCHANGED <<book, link, joining, dialing, ensure, worker, handled>>

\* With a missing entry the type assertion panics.
reachedMaxMsgLimit(p) == msgCount[p] = 0 \/ msgCount[p] >= MsgLimit

\* Mutant of ReceiveCheck: one message more is let through.
ReceiveCheckLate(p) ==
    /\ recv[p].step = "check"
    /\ IF msgCount[p] = 0 \/ msgCount[p] > MsgLimit
       THEN StopPeer(p) /\ recv' = [recv EXCEPT ![p] = Waiting] /\ UNCHANGED handled
       ELSE /\ recv' = [recv EXCEPT ![p].step = "handle"]
            /\ handled' = [handled EXCEPT ![p] = @ + 1]
            /\ UNCHANGED link
    /\ UNCHANGED <<book, joining, dialing, ensure, worker, msgCount>>

\* The peer is stopped at the limit, and after a panic, from which recvRoutine
\* recovers by stopping the connection.
ReceiveCheck(p) ==
    /\ recv[p].step = "check"
    /\ IF reachedMaxMsgLimit(p)
       THEN StopPeer(p) /\ recv' = [recv EXCEPT ![p] = Waiting] /\ UNCHANGED handled
       ELSE /\ recv' = [recv EXCEPT ![p].step = "handle"]
            /\ handled' = [handled EXCEPT ![p] = @ + 1]
            /\ UNCHANGED link
    /\ UNCHANGED <<book, joining, dialing, ensure, worker, msgCount>>

\* What DecodeMessage makes of the bytes: an error, nothing known, a request, or
\* a list of addresses.
PexMessages == [type : {"error", "unknown", "request"}, addrs : {<<>>}]
               \cup [type : {"addrs"}, addrs : Lists]

ReceiveHandle(p) ==
    /\ recv[p].step = "handle"
    /\ \E msg \in PexMessages :
        /\ recv' = [recv EXCEPT ![p] =
                      IF msg.type = "addrs"
                      THEN [step |-> "add", count |-> 0, list |-> msg.addrs] ELSE Waiting]
        /\ CASE msg.type = "error" -> StopPeer(p)
             [] msg.type = "request" -> SendTo(p)
             [] OTHER -> UNCHANGED link
    /\ UNCHANGED <<book, joining, dialing, ensure, worker, msgCount, handled>>

\* The next address of the list; an error stops the peer.
ReceiveAdd(p) ==
    /\ recv[p].step = "add"
    /\ \/ /\ recv[p].list = <<>>
          /\ recv' = [recv EXCEPT ![p] = Waiting]
          /\ UNCHANGED <<book, link>>
       \/ /\ recv[p].list # <<>>
          /\ IF AddErrs(Head(recv[p].list))
             THEN StopPeer(p) /\ recv' = [recv EXCEPT ![p] = Waiting] /\ UNCHANGED book
             ELSE /\ AddAddress(Head(recv[p].list))
                  /\ recv' = [recv EXCEPT ![p].list = Tail(@)]
                  /\ UNCHANGED link
    /\ UNCHANGED <<joining, dialing, ensure, worker, msgCount, handled>>

\* flushMsgCountByPeer.
FlushMsgCount ==
    /\ msgCount' = [a \in Addrs |-> 0]
    /\ handled' = [a \in Addrs |-> 0]
    /\ UNCHANGED <<book, link, joining, dialing, ensure, worker, recv>>

-----------------------------------------------------------------------------
EnsurePeers == EnsureCount \/ EnsureList \/ (\E a \in Addrs : EnsurePick(a)) \/ EnsureDial
               \/ EnsureAsk \/ EnsureReturn
DialSeeds == (\E a \in Addrs : SeedAdd(a) \/ SeedDial(a)) \/ SeedSave \/ SeedsDone
Dial(a) == DialFilter(a) \/ DelSelfRemove(a) \/ DelSelfAddOurs(a) \/ DialEnds(a) \/ DialMark(a)
Receive(p) == ReceiveGet(p) \/ ReceiveSet(p) \/ ReceiveCheck(p) \/ ReceiveHandle(p) \/ ReceiveAdd(p)

Next ==
    \/ EnsurePeers \/ Quit \/ DialSeeds
    \/ \E a \in Addrs : Dial(a) \/ JoinAdd(a) \/ JoinEnd(a) \/ Leave(a) \/ Receive(a)
    \/ FlushMsgCount

Spec == Init /\ [][Next]_vars

\* The goroutines of the reactor run on; a dial ends by its timeout.
FairSpec == Spec /\ WF_vars(EnsurePeers \/ DialSeeds) /\ \A a \in Addrs : WF_vars(Dial(a))

-----------------------------------------------------------------------------
TypeOK ==
    /\ new \subseteq Addrs /\ old \subseteq Addrs /\ ours \subseteq Addrs
    /\ saved \in [new : SUBSET Addrs, old : SUBSET Addrs]
    /\ joining \subseteq Addrs /\ dialing \subseteq Addrs /\ seeds \subseteq Addrs
    /\ connectedPeers \subseteq Addrs /\ toDial \subseteq Addrs
    /\ rounds \in Nat /\ numToDial \in Nat
    /\ link \in [Addrs -> {"none", "in", "out"}]
    /\ worker \in [Addrs -> {"none", "filter", "delSelf", "addOurs", "dialing", "reached", "failed"}]
    /\ recv \in [Addrs -> [step : {"idle", "set", "check", "handle", "add"}, count : Nat,
                           list : Seq(Addrs)]]
    /\ msgCount \in [Addrs -> Nat] /\ handled \in [Addrs -> Nat]
    /\ pc \in {"loop", "list", "pick", "wait", "return", "add seeds", "dial seeds", "quit"}

\* ensurePeers counts once and dials in parallel, so it may pass the number it
\* wants, but never by more than its factor; the seeds are dialled only when
\* few peers are connected.  Dials that are under way count.
OutboundBounded ==
    LET n == Cardinality(Outbound \cup dialing)
    IN  n <= MinOutbound * DialFactor \/ n < FewPeers + HalfOfSeeds

\* ensurePeers never dials a node we have dialled already: the peers it listed
\* before it picked the addresses still include every outbound one when the
\* goroutines dial.
DialsNewNodes ==
    \A a \in Addrs : pc = "wait" /\ worker[a] \in {"filter", "dialing"} => link[a] # "out"

\* Between two resets of the counters fewer than MsgLimit messages of a peer get
\* past the check in Receive, although the count is read, written and read
\* again in separate calls and the reset may come between any two of them.
HandledBounded == \A p \in Addrs : handled[p] = 0 \/ handled[p] < MsgLimit

\* A call of ensurePeers or dialSeeds comes to its end, so that the routine gets
\* back to its select: every goroutine it waits for calls wg.Done.
RoutineReturns == (pc # "loop") ~> (pc \in {"loop", "quit"})
=============================================================================
