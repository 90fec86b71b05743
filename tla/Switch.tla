------------------------------- MODULE Switch -------------------------------
(***************************************************************************)
(* p2p.Switch (src/p2p/switch.go) with the peers it starts and stops and   *)
(* the AddPeer / RemovePeer calls it makes into its two reactors, PEX and  *)
(* PROTOCOL.                                                               *)
(*                                                                         *)
(* Every connection c is one attempt to add a peer.  Its AddPeer call runs *)
(* in the goroutine of a listener (inbound) or of a dial (outbound); pc[c] *)
(* is where that goroutine stands.  Meanwhile any number of goroutines may *)
(* be inside stopAndRemovePeer for the same peer: stops[c][k] is where the *)
(* call of kind k stands.  A step is what the code does between two points *)
(* where another goroutine can interfere, that is, one critical section of *)
(* the switch, of PeerSet, of a reactor's table or of a service's state.   *)
(***************************************************************************)
EXTENDS Integers, FiniteSets

CONSTANTS Conns,          \* connection attempts, each with its own *Peer
          Inbound,        \* the accepted ones; the others are dialled
          KeyOf,          \* KeyOf[c] is the Key of the peer behind c
          HostOf,         \* HostOf[c] is its IP
          SelfKey,        \* our own public key
          SelfHost,       \* the host we listen on
          MaxNumPeers,    \* Config.MaxNumPeers
          NumListeners,   \* len(sw.listeners)
          SyncerRuns,     \* SyncManager.syncer receives from newPeerCh
          Graceful,       \* bound: peers another goroutine stops gracefully
          Bannable,       \* bound: hosts that may be banned
          MayStop         \* bound: whether Stop is called on the switch

ASSUME SwitchAssumption ==
    /\ IsFiniteSet(Conns)
    /\ Inbound \subseteq Conns
    /\ MaxNumPeers \in Nat
    /\ NumListeners \in Nat \ {0}
    /\ Graceful \subseteq Conns
    /\ Bannable \subseteq {HostOf[c] : c \in Conns}
    /\ MayStop \in BOOLEAN
    /\ SyncerRuns \in BOOLEAN

VARIABLES
    sw,        \* the switch: running, or how far Stop and OnStop have come
    pc,        \* the AddPeer goroutine of every connection
    todo,      \* reactors whose AddPeer it has still to call
    svc,       \* BaseService state of the Peer
    mconn,     \* BaseService state of its MConnection
    closed,    \* the socket is closed on our side
    stops,     \* the stopAndRemovePeer calls for the peer, and OnStop's sweep
    peers,     \* sw.peers
    netPeers,  \* keys registered with the PROTOCOL reactor
    banned,    \* hosts with a ban that has not expired
    dialing,   \* sw.dialing
    late       \* history: a stop of the peer had begun when it was listed

vars == <<sw, pc, todo, svc, mconn, closed, stops, peers, netPeers,
          banned, dialing, late>>

Reactors == {"PEX", "PROTOCOL"}
Outbound == Conns \ Inbound
Hosts == {HostOf[c] : c \in Conns}

\* Who calls stopAndRemovePeer: the MConnection through onError, another
\* goroutine (StopPeerGracefully), PEX.AddPeer inside our own AddPeer; and
\* OnStop, which stops and removes by itself.
Kinds == {"error", "graceful", "addPeer", "sweep"}

Table == INSTANCE PeerTable WITH Peers <- Conns, members <- peers

Init ==
    /\ sw = "running"
    /\ pc = [c \in Conns |-> "idle"]
    /\ todo = [c \in Conns |-> Reactors]
    /\ svc = [c \in Conns |-> "new"]
    /\ mconn = [c \in Conns |-> "new"]
    /\ closed = [c \in Conns |-> FALSE]
    /\ stops = [c \in Conns |-> [k \in Kinds |-> "idle"]]
    /\ Table!Init
    /\ netPeers = {}
    /\ banned = {}
    /\ dialing = {}
    /\ late = [c \in Conns |-> FALSE]

peerVars == <<todo, svc, mconn, late>>

InProgress == {"handshake", "banCheck", "dupCheck", "start", "reactors",
               "status", "notify", "selfStop", "add"}

\* The connections that listener goroutines are working on.
BusyListeners == {c \in Inbound : pc[c] \in InProgress}

\* Mutant of Fail: the caller does not close the connection.
FailStaysOpen(c) ==
    /\ pc' = [pc EXCEPT ![c] = "failed"]
    /\ dialing' = IF c \in Outbound THEN dialing \ {HostOf[c]} ELSE dialing
    /\ UNCHANGED closed

\* AddPeer, or what precedes it, returns an error: the caller closes the
\* connection, and a dial leaves sw.dialing.
Fail(c) ==
    /\ pc' = [pc EXCEPT ![c] = "failed"]
    /\ closed' = [closed EXCEPT ![c] = TRUE]
    /\ dialing' = IF c \in Outbound THEN dialing \ {HostOf[c]} ELSE dialing

Goto(c, label) ==
    /\ pc' = [pc EXCEPT ![c] = label]
    /\ UNCHANGED <<closed, dialing>>

-----------------------------------------------------------------------------
(* How a connection comes about.                                           *)

\* Listener.listenRoutine accepts a connection and queues it.
ListenerAccept(c) ==
    /\ c \in Inbound /\ pc[c] = "idle"
    /\ sw \in {"running", "stopListeners"}
    /\ Goto(c, "backlog")
    /\ UNCHANGED <<sw, stops, peers, netPeers, banned, peerVars>>

\* Listener.listenRoutine after Stop: it drains the queue it has closed.
ListenerDrain(c) ==
    /\ pc[c] = "backlog"
    /\ sw \in {"sweep", "stopped"}
    /\ Goto(c, "dropped")
    /\ UNCHANGED <<sw, stops, peers, netPeers, banned, peerVars>>

\* listenerRoutine takes the next connection, when it is not in AddPeer.
ListenerTake(c) ==
    /\ pc[c] = "backlog"
    /\ Cardinality(BusyListeners) < NumListeners
    /\ \/ /\ Cardinality(peers) < 2 * MaxNumPeers
          /\ Goto(c, "handshake")
       \/ Fail(c)     \* too many peers, or newInboundPeerConn fails
    /\ UNCHANGED <<sw, stops, peers, netPeers, banned, peerVars>>

\* DialPeerWithAddress up to the dial.  PEX, its only caller, never dials a
\* host twice at the same time: toDial is keyed by IP and ensurePeers waits for
\* its workers.
Dial(c) ==
    /\ c \in Outbound /\ pc[c] = "idle"
    /\ HostOf[c] \notin dialing
    /\ IF HostOf[c] \in banned \/ HostOf[c] = SelfHost
       THEN Fail(c)
       ELSE /\ pc' = [pc EXCEPT ![c] = "dialing"]
            /\ dialing' = dialing \cup {HostOf[c]}
            /\ UNCHANGED closed
    /\ UNCHANGED <<sw, stops, peers, netPeers, banned, peerVars>>

\* newOutboundPeerConn returns.
Dialled(c) ==
    /\ pc[c] = "dialing"
    /\ Goto(c, "handshake") \/ Fail(c)
    /\ UNCHANGED <<sw, stops, peers, netPeers, banned, peerVars>>

-----------------------------------------------------------------------------
(* AddPeer.                                                                *)

\* The versions and networks agree, or not.
CompatibleWith(c) == Goto(c, "banCheck") \/ Fail(c)

\* HandshakeTimeout, CompatibleWith and newPeer.
Handshake(c) ==
    /\ pc[c] = "handshake"
    /\ CompatibleWith(c) \/ Fail(c)
    /\ UNCHANGED <<sw, stops, peers, netPeers, banned, peerVars>>

\* filterConnByPeer, the part under sw.mtx.
CheckBan(c) ==
    /\ pc[c] = "banCheck"
    /\ IF HostOf[c] \in banned THEN Fail(c) ELSE Goto(c, "dupCheck")
    /\ UNCHANGED <<sw, stops, peers, netPeers, banned, peerVars>>

\* filterConnByPeer, the rest: our own key, and the lookup in sw.peers.
CheckDuplicate(c) ==
    /\ pc[c] = "dupCheck"
    /\ IF KeyOf[c] = SelfKey \/ Table!Has(KeyOf[c])
       THEN Fail(c)
       ELSE Goto(c, "start")
    /\ UNCHANGED <<sw, stops, peers, netPeers, banned, peerVars>>

\* AddPeer asks IsRunning, startInitPeer starts the peer and its MConnection.
StartPeer(c) ==
    /\ pc[c] = "start"
    /\ IF sw = "running"
       THEN /\ svc' = [svc EXCEPT ![c] = "running"]
            /\ mconn' = [mconn EXCEPT ![c] = "running"]
            /\ Goto(c, "reactors")
       ELSE /\ UNCHANGED <<svc, mconn>>
            /\ Goto(c, "add")
    /\ UNCHANGED <<sw, stops, peers, netPeers, banned, todo, late>>

\* The loop of startInitPeer goes on to the next reactor, or ends.
ReactorDone(c, r) ==
    /\ todo' = [todo EXCEPT ![c] = @ \ {r}]
    /\ Goto(c, IF todo[c] = {r} THEN "add" ELSE "reactors")

\* Mutant of PexAddPeer: one peer too many passes the limit.
PexAddPeerOneMore(c) ==
    /\ pc[c] = "reactors" /\ "PEX" \in todo[c]
    /\ Cardinality(peers) <= MaxNumPeers
    /\ ReactorDone(c, "PEX")
    /\ UNCHANGED <<sw, stops, svc, mconn, peers, netPeers, banned, late>>

\* PEXReactor.AddPeer.  An inbound peer over the limit gets our addresses and
\* is stopped; an outbound one is stopped when TrySend fails.
PexAddPeer(c) ==
    /\ pc[c] = "reactors" /\ "PEX" \in todo[c]
    /\ \/ /\ c \in Outbound \/ Cardinality(peers) < MaxNumPeers
          /\ ReactorDone(c, "PEX")
          /\ UNCHANGED stops
       \/ /\ c \in Outbound \/ Cardinality(peers) >= MaxNumPeers
          /\ stops' = [stops EXCEPT ![c]["addPeer"] = "unregister"]
          /\ Goto(c, "selfStop")
          /\ UNCHANGED todo
       \/ /\ c \in Inbound     \* bad listen address, or refused by the book
          /\ Fail(c)
          /\ UNCHANGED <<stops, todo>>
    /\ UNCHANGED <<sw, svc, mconn, peers, netPeers, banned, late>>

\* Peer.TrySend may succeed: it fails on a stopped peer.
TrySend(c) == svc[c] = "running" /\ mconn[c] = "running"

\* ProtocolReactor.AddPeer up to the status request: one peer at a time
\* (handshakeMu).
ProtocolRequest(c) ==
    /\ pc[c] = "reactors" /\ "PROTOCOL" \in todo[c]
    /\ \A d \in Conns : pc[d] \notin {"status", "notify"}
    /\ \/ /\ TrySend(c)
          /\ Goto(c, "status")
       \/ Fail(c)
    /\ UNCHANGED <<sw, stops, peers, netPeers, banned, peerVars>>

\* Mutant of ProtocolAddPeer: the peer is not registered.
ProtocolAddNobody(c) ==
    /\ pc[c] = "status"
    /\ todo' = [todo EXCEPT ![c] = @ \ {"PROTOCOL"}]
    /\ Goto(c, "notify")
    /\ UNCHANGED <<sw, stops, svc, mconn, peers, netPeers, banned, late>>

\* ProtocolReactor.AddPeer once the status has come and the peer is registered,
\* or the genesis differs or the wait is over.
ProtocolAddPeer(c) ==
    /\ pc[c] = "status"
    /\ \/ /\ netPeers' = netPeers \cup {KeyOf[c]}
          /\ todo' = [todo EXCEPT ![c] = @ \ {"PROTOCOL"}]
          /\ Goto(c, "notify")
       \/ /\ Fail(c)
          /\ UNCHANGED <<netPeers, todo>>
    /\ UNCHANGED <<sw, stops, svc, mconn, peers, banned, late>>

\* Mutant of ProtocolNotify: nobody is notified of a peer that has stopped.
ProtocolNotifyRunning(c) ==
    /\ pc[c] = "notify"
    /\ SyncerRuns /\ svc[c] = "running"
    /\ Goto(c, IF todo[c] = {} THEN "add" ELSE "reactors")
    /\ UNCHANGED <<sw, stops, peers, netPeers, banned, peerVars>>

\* It still holds handshakeMu when it sends on newPeerCh, which is unbuffered.
ProtocolNotify(c) ==
    /\ pc[c] = "notify"
    /\ SyncerRuns
    /\ Goto(c, IF todo[c] = {} THEN "add" ELSE "reactors")
    /\ UNCHANGED <<sw, stops, peers, netPeers, banned, peerVars>>

\* sw.peers.Add, the last step of AddPeer.
AddToPeers(c) ==
    /\ pc[c] = "add"
    /\ \/ /\ Table!Add(c)
          /\ pc' = [pc EXCEPT ![c] = "added"]
          /\ dialing' = IF c \in Outbound THEN dialing \ {HostOf[c]} ELSE dialing
          /\ late' = [late EXCEPT ![c] = \E k \in Kinds : stops[c][k] # "idle"]
          /\ UNCHANGED closed
       \/ /\ Table!Has(KeyOf[c])
          /\ Fail(c)
          /\ UNCHANGED <<peers, late>>
    /\ UNCHANGED <<sw, stops, netPeers, banned, todo, svc, mconn>>

-----------------------------------------------------------------------------
(* Stopping a peer.                                                        *)

\* MConnection.stopForError, once per connection: it stops the MConnection,
\* which closes the socket, and calls onError = StopPeerForError.
StopForError(c) ==
    /\ stops[c]["error"] = "idle"     \* the errored flag
    /\ mconn' = [mconn EXCEPT ![c] = "stopped"]
    /\ closed' = [closed EXCEPT ![c] = TRUE]
    /\ stops' = [stops EXCEPT ![c]["error"] = "unregister"]
    /\ UNCHANGED <<sw, pc, todo, svc, peers, netPeers, banned, dialing, late>>

\* The remote end, a timeout or a bad packet makes recvRoutine or sendRoutine
\* fail.  sendMsgPacket does so even when the MConnection has been stopped.
ConnectionError(c) == mconn[c] # "new" /\ StopForError(c)

\* recvRoutine reads from the socket that our side has closed.
ReadClosed(c) == mconn[c] = "running" /\ closed[c] /\ StopForError(c)

\* StopPeerGracefully from another goroutine that holds the peer: a reactor's
\* Receive, ensurePeers or the block keeper.
StopPeerGracefully(c) ==
    /\ c \in Graceful
    /\ svc[c] # "new"
    /\ stops[c]["graceful"] = "idle"
    /\ stops' = [stops EXCEPT ![c]["graceful"] = "unregister"]
    /\ UNCHANGED <<sw, pc, closed, peers, netPeers, banned, dialing, peerVars>>

\* stopAndRemovePeer: reactor.RemovePeer for every reactor (PEX has nothing to
\* do), ...
StopUnregister(c, k) ==
    /\ stops[c][k] = "unregister"
    /\ netPeers' = netPeers \ {KeyOf[c]}
    /\ stops' = [stops EXCEPT ![c][k] = "remove"]
    /\ UNCHANGED <<sw, pc, closed, peers, banned, dialing, peerVars>>

\* Mutant of StopRemove: the peer stays in sw.peers.
StopKeepsListed(c, k) ==
    /\ stops[c][k] = "remove"
    /\ stops' = [stops EXCEPT ![c][k] = "stop"]
    /\ UNCHANGED <<peers, sw, pc, closed, netPeers, banned, dialing, peerVars>>

\* ... then sw.peers.Remove, ...
StopRemove(c, k) ==
    /\ stops[c][k] = "remove"
    /\ Table!Remove(c)
    /\ stops' = [stops EXCEPT ![c][k] = "stop"]
    /\ UNCHANGED <<sw, pc, closed, netPeers, banned, dialing, peerVars>>

\* Peer.Stop, once: it stops the MConnection, which closes the socket.
PeerStop(c) ==
    /\ svc' = [svc EXCEPT ![c] = "stopped"]
    /\ mconn' = [mconn EXCEPT ![c] = "stopped"]
    /\ closed' = [closed EXCEPT ![c] = TRUE]

\* ... and last peer.Stop.  Called from PEX.AddPeer, it is followed by the
\* error that PEX.AddPeer returns.
StopStop(c, k) ==
    /\ stops[c][k] = "stop"
    /\ PeerStop(c)
    /\ stops' = [stops EXCEPT ![c][k] = "done"]
    /\ IF k = "addPeer"
       THEN /\ pc' = [pc EXCEPT ![c] = "failed"]
            /\ dialing' = IF c \in Outbound THEN dialing \ {HostOf[c]} ELSE dialing
       ELSE UNCHANGED <<pc, dialing>>
    /\ UNCHANGED <<sw, todo, peers, netPeers, banned, late>>

-----------------------------------------------------------------------------
(* Stopping the switch.                                                    *)

\* BaseService.Stop: IsRunning is false from here on.
StopSwitch ==
    /\ MayStop
    /\ sw = "running"
    /\ sw' = "stopListeners"
    /\ UNCHANGED <<pc, closed, stops, peers, netPeers, banned, dialing, peerVars>>

\* OnStop stops the listeners and takes the list of the peers to stop.
StopListeners ==
    /\ sw = "stopListeners"
    /\ sw' = "sweep"
    /\ stops' = [c \in Conns |-> IF c \in peers
                                 THEN [stops[c] EXCEPT !["sweep"] = "sweepStop"]
                                 ELSE stops[c]]
    /\ UNCHANGED <<pc, closed, peers, netPeers, banned, dialing, peerVars>>

\* The loop of OnStop: peer.Stop, ...
SweepStop(c) ==
    /\ stops[c]["sweep"] = "sweepStop"
    /\ \A d \in Conns : stops[d]["sweep"] # "sweepRemove"
    /\ PeerStop(c)
    /\ stops' = [stops EXCEPT ![c]["sweep"] = "sweepRemove"]
    /\ UNCHANGED <<sw, pc, todo, peers, netPeers, banned, dialing, late>>

\* ... then sw.peers.Remove.
SweepRemove(c) ==
    /\ stops[c]["sweep"] = "sweepRemove"
    /\ Table!Remove(c)
    /\ stops' = [stops EXCEPT ![c]["sweep"] = "done"]
    /\ UNCHANGED <<sw, pc, closed, netPeers, banned, dialing, peerVars>>

\* OnStop stops the reactors and returns.
SwitchStopped ==
    /\ sw = "sweep"
    /\ \A c \in Conns : stops[c]["sweep"] \in {"idle", "done"}
    /\ sw' = "stopped"
    /\ UNCHANGED <<pc, closed, stops, peers, netPeers, banned, dialing, peerVars>>

\* AddBannedPeer, and a ban running out (Banning.tla has the ban list itself).
ToggleBan(h) ==
    /\ banned' = IF h \in banned THEN banned \ {h} ELSE banned \cup {h}
    /\ UNCHANGED <<sw, pc, closed, stops, peers, netPeers, dialing, peerVars>>

-----------------------------------------------------------------------------
AddPeerStep(c) ==
    \/ Dialled(c) \/ Handshake(c) \/ CheckBan(c) \/ CheckDuplicate(c)
    \/ StartPeer(c) \/ PexAddPeer(c) \/ ProtocolRequest(c)
    \/ ProtocolAddPeer(c) \/ ProtocolNotify(c) \/ AddToPeers(c)

StopStep(c) == \E k \in Kinds :
    StopUnregister(c, k) \/ StopRemove(c, k) \/ StopStop(c, k)

OnStopStep ==
    \/ StopListeners
    \/ \E c \in Conns : SweepStop(c) \/ SweepRemove(c)
    \/ SwitchStopped

Next ==
    \/ \E c \in Conns :
         \/ ListenerAccept(c) \/ ListenerDrain(c) \/ ListenerTake(c) \/ Dial(c)
         \/ AddPeerStep(c)
         \/ ConnectionError(c) \/ ReadClosed(c) \/ StopPeerGracefully(c)
         \/ StopStep(c)
    \/ StopSwitch
    \/ OnStopStep
    \/ \E h \in Bannable : ToggleBan(h)

Spec == Init /\ [][Next]_vars

\* The handshakes time out, a read from a closed socket returns, and a
\* goroutine that is inside AddPeer, stopAndRemovePeer or OnStop goes on: none
\* of these steps waits for a remote node.
Fairness ==
    /\ \A c \in Conns : /\ WF_vars(AddPeerStep(c))
                        /\ WF_vars(ReadClosed(c))
                        /\ \A k \in Kinds :
                             WF_vars(\/ StopUnregister(c, k)
                                     \/ StopRemove(c, k)
                                     \/ StopStop(c, k))
    /\ WF_vars(OnStopStep)

FairSpec == Spec /\ Fairness

-----------------------------------------------------------------------------
(* Properties.                                                             *)

PcLabels == InProgress \cup
    {"idle", "backlog", "dialing", "dropped", "failed", "added"}

Phases == {"idle", "unregister", "remove", "stop", "sweepStop", "sweepRemove",
           "done"}

TypeOK ==
    /\ sw \in {"running", "stopListeners", "sweep", "stopped"}
    /\ pc \in [Conns -> PcLabels]
    /\ todo \in [Conns -> SUBSET Reactors]
    /\ svc \in [Conns -> {"new", "running", "stopped"}]
    /\ mconn \in [Conns -> {"new", "running", "stopped"}]
    /\ closed \in [Conns -> BOOLEAN]
    /\ stops \in [Conns -> [Kinds -> Phases]]
    /\ peers \subseteq Conns
    /\ netPeers \subseteq {KeyOf[c] : c \in Conns}
    /\ banned \subseteq Hosts
    /\ dialing \subseteq Hosts
    /\ late \in [Conns -> BOOLEAN]

\* While the switch runs, the listed inbound peers never exceed MaxNumPeers by
\* more than the listeners beyond the first, although PEX.AddPeer compares the
\* size of sw.peers with the limit long before AddPeer lists the peer.
InboundBounded ==
    sw = "running" => Cardinality(peers \cap Inbound) < MaxNumPeers + NumListeners

NoStopBegun(c) == \A k \in Kinds : stops[c][k] = "idle"

\* A listed peer whose connection is dead has a removal from sw.peers under
\* way, unless a stop of it had begun before AddPeer listed it: such a peer
\* missed its Remove and stays in the list.
DeadPeerBeingRemoved ==
    \A c \in peers : (mconn[c] = "stopped" /\ ~late[c]) =>
        \E k \in Kinds :
            stops[c][k] \in {"unregister", "remove", "sweepStop", "sweepRemove"}

\* The key of c is used by no other connection.
UniqueKey(c) == \A d \in Conns : KeyOf[d] = KeyOf[c] => d = c

\* A peer that was added, started and never stopped is in sw.peers and, when
\* the switch started it, registered with the PROTOCOL reactor, as long as no
\* other connection has used its key.
AddedPeerKnown ==
    \A c \in Conns : (pc[c] = "added" /\ UniqueKey(c) /\ NoStopBegun(c)) =>
        /\ c \in peers
        /\ svc[c] = "running" => KeyOf[c] \in netPeers

\* sw.dialing holds exactly the hosts of the dials in progress, so the count
\* NumPeers gives to ensurePeers neither forgets a dial nor keeps a finished one.
DialingExact ==
    dialing = {HostOf[c] : c \in {d \in Outbound : pc[d] \in InProgress \cup {"dialing"}}}

\* AddPeer returns: no listener and no dial waits for ever for the handshake, for
\* the other reactor or for the lock of ProtocolReactor.AddPeer.
AddPeerReturns ==
    \A c \in Conns : pc[c] \in InProgress ~> pc[c] \in {"added", "failed"}

\* When AddPeer fails after it started the peer, the caller only closes the
\* connection; the peer and its MConnection still come to a stop.
FailedPeerStops ==
    \A c \in Conns : pc[c] = "failed" ~> svc[c] # "running" /\ mconn[c] # "running"

\* A listed peer with a closed connection leaves sw.peers, unless a stop of it
\* had begun before it was listed.
ClosedPeerDelisted ==
    \A c \in Conns : (c \in peers /\ closed[c] /\ ~late[c]) ~> c \notin peers

=============================================================================
