----------------------------- MODULE Handshake -----------------------------
(***************************************************************************)
(* The status handshake of ProtocolReactor.AddPeer, which ends with the    *)
(* relay of transactions (src/netsync/protocol_reactor.go and TxSync).     *)
(*                                                                         *)
(* AddPeer asks the new peer for its status, again on every tick, and      *)
(* waits on the unbuffered peerStatusCh, which all connections share.  The *)
(* answer comes through Receive, in which the goroutine that reads from    *)
(* the connection blocks until some handshake takes the status.            *)
(***************************************************************************)
EXTENDS TxSync

CONSTANTS
    Foreign,    \* the keys of nodes with another genesis block
    MaxAsked,   \* bound: how often each handshake asks
    MayLeave,   \* the connections that may break
    Earlier     \* bound: those that are made before each connection

ASSUME AskAssumption == MaxAsked \in [Conns -> Nat \ {0}]

VARIABLES
    hs,         \* where AddPeer is
    asked,      \* number of status requests it has sent
    coming,     \* those that are not yet answered or whose answer is on its way
    blocked,    \* connections whose Receive is blocked on peerStatusCh
    peers,      \* peerSet.peers: a partial map from keys to peers, as a set
    removed     \* connections whose peer was removed, and has stopped

handshakeVars == <<hs, asked, coming, blocked, peers, removed>>

\* The handshake that holds handshakeMu.
Holding == {c \in Conns : hs[c] \in {"wait", "register", "lookup", "announce"}}

SameKey(c) == {d \in Conns : KeyOf[d] = KeyOf[c]}

HandshakeInit ==
    /\ Init
    /\ hs = [c \in Conns |-> "new"]
    /\ asked = [c \in Conns |-> 0] /\ coming = [c \in Conns |-> 0]
    /\ blocked = {} /\ peers = {} /\ removed = {}

Step(c, to) == hs' = [hs EXCEPT ![c] = to]

-----------------------------------------------------------------------------
(* AddPeer.                                                                *)

\* TrySend of a request; it fails when the queue is full or when the peer has
\* stopped, which it does a moment after RemovePeer.
Request(c) ==
    \/ /\ asked' = [asked EXCEPT ![c] = @ + 1]
       /\ coming' = [coming EXCEPT ![c] = @ + 1]
       /\ Step(c, "wait")
    \/ /\ c \in removed \cup Failing
       /\ Step(c, "failed")
       /\ UNCHANGED <<asked, coming>>

AddPeer(c) ==
    /\ hs[c] = "new" /\ Holding = {}
    /\ \A d \in Earlier[c] : hs[d] # "new"
    /\ Request(c)
    /\ UNCHANGED <<vars, blocked, peers, removed>>

\* retryTicker
Retry(c) ==
    /\ hs[c] = "wait" /\ asked[c] < MaxAsked[c]
    /\ Request(c)
    /\ UNCHANGED <<vars, blocked, peers, removed>>

\* handshakeWait
Timeout(c) ==
    /\ hs[c] = "wait"
    /\ Step(c, "failed")
    /\ UNCHANGED <<vars, asked, coming, blocked, peers, removed>>

\* Mutant of TakeStatus: whose status it is is not looked at.
TakeAnyStatus(c, d) ==
    /\ hs[c] = "wait" /\ d \in blocked
    /\ blocked' = blocked \ {d}
    /\ Step(c, IF KeyOf[d] \in Foreign THEN "failed" ELSE "register")
    /\ UNCHANGED <<vars, asked, coming, peers, removed>>

\* AddPeer receives the status that Receive for d sends; one of another node is
\* dropped, one with another genesis hash ends the handshake.
TakeStatus(c, d) ==
    /\ hs[c] = "wait" /\ d \in blocked
    /\ blocked' = blocked \ {d}
    /\ Step(c, IF KeyOf[d] # KeyOf[c] THEN "wait"
               ELSE IF KeyOf[d] \in Foreign THEN "failed" ELSE "register")
    /\ UNCHANGED <<vars, asked, coming, peers, removed>>

\* peers.AddPeer, which is not in the repository: as netsync uses it, the peer of
\* an older connection of the node stays.
Register(c) ==
    /\ hs[c] = "register"
    /\ peers' = IF peers \cap SameKey(c) = {} THEN peers \cup {c} ELSE peers
    /\ Step(c, "lookup")
    /\ UNCHANGED <<vars, asked, coming, blocked, removed>>

\* The peer has been removed again: errPeerDropped.
Dropped(c) ==
    /\ hs[c] = "lookup" /\ peers \cap SameKey(c) = {}
    /\ Step(c, "failed")
    /\ UNCHANGED <<vars, asked, coming, blocked, peers, removed>>

\* syncTransactions for the peer that is registered, unless the pool is empty.
Lookup(c) ==
    /\ hs[c] = "lookup"
    /\ \E d \in peers \cap SameKey(c) :
        syncTransactions(d) \/ (<<>> \in Batches /\ UNCHANGED vars)
    /\ Step(c, "announce")
    /\ UNCHANGED <<asked, coming, blocked, peers, removed>>

\* Once txSyncCh has taken the offer, newPeerCh is sent to; the syncer that
\* receives from it ends with quitSync, like txsyncLoop.
Announce(c) ==
    /\ hs[c] = "announce" /\ offer = {} /\ ~quit
    /\ Step(c, "added")
    /\ UNCHANGED <<vars, asked, coming, blocked, peers, removed>>

-----------------------------------------------------------------------------
(* The connections.                                                        *)

\* The other node answers a request, and Receive is called with the answer.
Receive(c) ==
    /\ coming[c] > 0 /\ c \notin blocked
    /\ coming' = [coming EXCEPT ![c] = @ - 1]
    /\ blocked' = blocked \cup {c}
    /\ UNCHANGED <<vars, hs, asked, peers, removed>>

\* The switch removes the peer: its connection broke, or was closed because the
\* handshake failed.  RemovePeer works by key, so it may hit the peer of another
\* connection.
RemovePeer(c) ==
    /\ c \notin removed
    /\ \/ c \in MayLeave /\ hs[c] # "new"
       \/ hs[c] = "failed"
    /\ removed' = removed \cup {c}
    /\ peers' = peers \ SameKey(c)
    /\ UNCHANGED <<vars, hs, asked, coming, blocked>>

-----------------------------------------------------------------------------
Relay ==
    /\ NewSync \/ (\E ok \in BOOLEAN : SendTransactions(ok)) \/ Done \/ Quit
    /\ UNCHANGED handshakeVars

HandshakeNext ==
    \/ \E c \in Conns :
        \/ AddPeer(c) \/ Retry(c) \/ Timeout(c) \/ (\E d \in Conns : TakeStatus(c, d))
        \/ Register(c) \/ Dropped(c) \/ Lookup(c) \/ Announce(c)
        \/ Receive(c) \/ RemovePeer(c)
    \/ Relay

HandshakeSpec == HandshakeInit /\ [][HandshakeNext]_<<vars, handshakeVars>>

\* The fairness of TxSync; whether peers answer or leave is open.
FairHandshakeSpec ==
    /\ HandshakeSpec
    /\ WF_vars(NewSync /\ UNCHANGED handshakeVars) /\ WF_vars(Done /\ UNCHANGED handshakeVars)
    /\ WF_vars((\E ok \in BOOLEAN : SendTransactions(ok)) /\ UNCHANGED handshakeVars)

-----------------------------------------------------------------------------
(* Properties.                                                             *)

HandshakeTypeOK ==
    /\ hs \in [Conns -> {"new", "wait", "register", "lookup", "announce", "added", "failed"}]
    /\ asked \in [Conns -> Nat] /\ coming \in [Conns -> Nat]
    /\ {blocked, peers, removed} \subseteq SUBSET Conns

\* A registered peer has our genesis block, although the statuses of all
\* connections go through one channel and late ones meet other handshakes.
GenesisChecked == \A c \in peers : KeyOf[c] \notin Foreign

\* When the answer to its only request has ended the handshake, nothing keeps
\* Receive from reading on.  (After a repeated request the second answer finds
\* no handshake of its own, and blocks the connection until another one starts.)
ReadsOn ==
    \A c \in Conns :
        SameKey(c) = {c} /\ asked[c] = 1 /\ hs[c] \in {"register", "lookup", "announce", "added"}
            => c \notin blocked /\ coming[c] = 0

\* Each handshake is decided by the status of its own node and takes it.
StatusMatched == GenesisChecked /\ ReadsOn
=============================================================================
