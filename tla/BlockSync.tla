----------------------------- MODULE BlockSync ------------------------------
(***************************************************************************)
(* Block synchronisation (src/netsync): synchronise and the block keeper   *)
(* that downloads blocks from the best peer, the fetcher that imports      *)
(* announced blocks, and ProtocolReactor.Receive that feeds both, over the *)
(* Chain they share.                                                       *)
(*                                                                         *)
(* Peers join and leave while this goes on.  A peer that joins is          *)
(* registered with netsync by ProtocolReactor.AddPeer before               *)
(* Switch.AddPeer adds it to the switch's peer set; a peer that leaves is  *)
(* taken from the switch's set before ProtocolReactor.RemovePeer posts it  *)
(* on dropPeerCh and unregisters it.                                       *)
(***************************************************************************)
EXTENDS Chain

CONSTANTS
    Peers,          \* keys of the other nodes
    TipOf,          \* the best block of each
    Announced,      \* pairs <<p, b>>: p may announce the mined block b
    MaxPending,     \* maxBlocksPending
    MaxQuitReq,     \* maxQuitReq
    MaxQueueDist,   \* maxQueueDist
    MaxRetries,     \* ticks of retryTicker before syncWait fires
    MaxJoins,       \* bound: how often each peer connects
    MaxSyncs,       \* bound: how often synchronise runs
    MayCrash        \* whether the process may crash

ASSUME SyncAssumption ==
    /\ TipOf \in [Peers -> Blocks]
    /\ Announced \subseteq Peers \X Blocks
    /\ {MaxPending, MaxQuitReq} \subseteq Nat \ {0}
    /\ {MaxQueueDist, MaxRetries, MaxSyncs} \subseteq Nat /\ MaxJoins \in [Peers -> Nat]
    /\ Callers = {"keeper", "fetcher"}

VARIABLES
    link,       \* where each peer is with the switch
    joins,      \* how often it has connected
    heights,    \* netsync's peerSet: the heights of the registered peers
    dropCh,     \* dropPeerCh, also called quitReqBlockCh
    wire,       \* heights requested from each peer and not yet answered
    pendingCh,  \* pendingProcessCh
    keeper,     \* the goroutine in synchronise and BlockRequestWorker
    syncs,      \* how often synchronise has run
    fetcher,    \* the goroutine in Fetcher.loop
    news        \* announcements not yet made

netVars == <<link, joins, heights, dropCh, wire, pendingCh>>
keeperVars == <<keeper, syncs>>
fetcherVars == <<fetcher, news>>
vars == <<chainVars, netVars, keeperVars, fetcherVars>>

Registered == DOMAIN heights
Has(p) == link[p] \in {"on", "zombie"}   \* sw.Peers().Has

NoKeeper == [pc |-> "idle", peer |-> Nil, max |-> 0, num |-> 0, orphanNum |-> 0,
             isOrphan |-> FALSE, retries |-> 0, whole |-> FALSE]
NewFetcher == [pc |-> "top", height |-> 0, op |-> Nil,
               queue |-> [b \in Blocks |-> 0], queued |-> {}]

NetInit ==
    /\ link = [p \in Peers |-> "off"]
    /\ heights = [p \in {} |-> 0]
    /\ dropCh = <<>> /\ pendingCh = <<>>
    /\ wire = [p \in Peers |-> <<>>]
    /\ keeper = NoKeeper
    /\ fetcher = NewFetcher

Init ==
    /\ ChainInit /\ NetInit
    /\ joins = [p \in Peers |-> 0]
    /\ syncs = 0
    /\ news = Announced

-----------------------------------------------------------------------------
(* Peers.                                                                  *)

\* ProtocolReactor.AddPeer registers the peer with the height of its status.
AddPeer(p) ==
    /\ link[p] = "off" /\ joins[p] < MaxJoins[p]
    /\ link' = [link EXCEPT ![p] = "joining"]
    /\ joins' = [joins EXCEPT ![p] = @ + 1]
    /\ heights' = [x \in Registered \cup {p} |->
                    IF x = p THEN HeightOf[TipOf[p]] ELSE heights[x]]
    /\ UNCHANGED <<chainVars, dropCh, wire, pendingCh, keeperVars, fetcherVars>>

\* Switch.AddPeer adds the peer to its set, even if it was stopped meanwhile.
PeersAdd(p) ==
    /\ link[p] \in {"joining", "stopped"}
    /\ link' = [link EXCEPT ![p] = IF @ = "joining" THEN "on" ELSE "zombie"]
    /\ UNCHANGED <<chainVars, joins, heights, dropCh, wire, pendingCh,
                   keeperVars, fetcherVars>>

\* ProtocolReactor.RemovePeer drops its notice if the channel is full.
Notice(ch, p) == IF Len(ch) < MaxQuitReq THEN Append(ch, p) ELSE ch
Without(p) == [x \in Registered \ {p} |-> heights[x]]

\* StopPeerGracefully as one goroutine calls it, both halves, when ch is on
\* dropPeerCh.  A peer that is still joining is stopped before it is added.
StopPeerGracefully(p, ch) ==
    /\ link' = [link EXCEPT ![p] = CASE @ \in {"on", "zombie"} -> "off"
                                     [] @ = "joining" -> "stopped"
                                     [] OTHER -> @]
    /\ wire' = [wire EXCEPT ![p] = <<>>]
    /\ dropCh' = Notice(ch, p)
    /\ heights' = Without(p)

\* Switch.stopAndRemovePeer, first half: a connection fails or is stopped.
Leave(p) ==
    /\ link[p] = "on"
    /\ link' = [link EXCEPT ![p] = "leaving"]
    /\ wire' = [wire EXCEPT ![p] = <<>>]
    /\ UNCHANGED <<chainVars, joins, heights, dropCh, pendingCh, keeperVars, fetcherVars>>

\* The connection fails while Switch.AddPeer has not yet added the peer.
FailEarly(p) ==
    /\ link[p] = "joining"
    /\ StopPeerGracefully(p, dropCh)
    /\ UNCHANGED <<chainVars, joins, pendingCh, keeperVars, fetcherVars>>

\* The second half: ProtocolReactor.RemovePeer.
RemovePeer(p) ==
    /\ link[p] = "leaving"
    /\ link' = [link EXCEPT ![p] = "off"]
    /\ dropCh' = Notice(dropCh, p)
    /\ heights' = Without(p)
    /\ UNCHANGED <<chainVars, joins, wire, pendingCh, keeperVars, fetcherVars>>

\* On the chain of a peer whose best block is tip.
GetBlockByHeight(tip, h) == Path(ParentOf, tip)[HeightOf[tip] - h]

\* AddBlock blocks while pendingProcessCh is full.
AddBlock(b, p) ==
    /\ Len(pendingCh) < MaxPending
    /\ pendingCh' = Append(pendingCh, [peer |-> p, block |-> b])

\* A peer answers a request, and Receive hands the block to AddBlock.  A peer
\* without the block is silent.
Answer(p) ==
    /\ wire[p] # <<>> /\ link[p] \in {"joining", "on"}
    /\ LET h == Head(wire[p]) IN
        IF h <= HeightOf[TipOf[p]]
        THEN AddBlock(GetBlockByHeight(TipOf[p], h), p)
        ELSE UNCHANGED pendingCh
    /\ wire' = [wire EXCEPT ![p] = Tail(@)]
    /\ UNCHANGED <<chainVars, link, joins, heights, dropCh, keeperVars, fetcherVars>>

-----------------------------------------------------------------------------
(* synchronise and BlockRequestWorker.                                     *)

\* The syncer starts synchronise; a second one returns at once.  Old notices on
\* dropPeerCh are thrown away.
synchronise ==
    /\ keeper.pc = "idle" /\ syncs < MaxSyncs
    /\ syncs' = syncs + 1
    /\ dropCh' = <<>>
    /\ keeper' = [keeper EXCEPT !.pc = "choose"]
    /\ UNCHANGED <<chainVars, link, joins, heights, wire, pendingCh, fetcherVars>>

\* BestPeer and the tests after it, up to the loop of BlockRequestWorker.
BestPeers == {p \in Registered : \A q \in Registered : heights[q] <= heights[p]}

Choose ==
    /\ keeper.pc = "choose"
    /\ \/ /\ BestPeers = {}
          /\ keeper' = NoKeeper
          /\ UNCHANGED netVars
       \/ \E p \in BestPeers :
            \/ /\ ~Has(p)
               /\ StopPeerGracefully(p, dropCh)
               /\ keeper' = NoKeeper
               /\ UNCHANGED <<joins, pendingCh>>
            \/ /\ Has(p)
               /\ keeper' = IF heights[p] > HeightOf[best]
                            THEN [NoKeeper EXCEPT !.pc = "request", !.peer = p,
                                    !.max = heights[p], !.num = HeightOf[best] + 1]
                            ELSE NoKeeper
               /\ UNCHANGED netVars
    /\ UNCHANGED <<chainVars, syncs, fetcherVars>>

reqNum == IF keeper.isOrphan THEN keeper.orphanNum ELSE keeper.num

\* peers.requestBlockByHeight succeeds for a registered peer that runs.
CanRequest(p) == p \in Registered /\ link[p] \in {"joining", "on"}

\* BlockRequest returned errReqBlock, errGetBlockTimeout or errPeerDropped.
Abandon(ch) ==
    /\ StopPeerGracefully(keeper.peer, ch)
    /\ keeper' = [keeper EXCEPT !.pc = "finish"]

\* The head of the loop of BlockRequestWorker, and the request.
Request ==
    /\ keeper.pc = "request"
    /\ \/ /\ keeper.num > keeper.max
          /\ keeper' = [keeper EXCEPT !.pc = "finish", !.whole = TRUE]
          /\ UNCHANGED netVars
       \/ /\ keeper.num <= keeper.max /\ CanRequest(keeper.peer)
          /\ wire' = [wire EXCEPT ![keeper.peer] = Append(@, reqNum)]
          /\ keeper' = [keeper EXCEPT !.pc = "wait", !.retries = 0]
          /\ UNCHANGED <<link, joins, heights, dropCh, pendingCh>>
       \/ /\ keeper.num <= keeper.max /\ ~CanRequest(keeper.peer)
          /\ Abandon(dropCh)
          /\ UNCHANGED <<joins, pendingCh>>
    /\ UNCHANGED <<chainVars, syncs, fetcherVars>>

\* The cases of the select of BlockRequest: a response ...
Response ==
    /\ keeper.pc = "wait" /\ pendingCh # <<>>
    /\ pendingCh' = Tail(pendingCh)
    /\ LET r == Head(pendingCh) IN
        IF r.peer = keeper.peer /\ HeightOf[r.block] = reqNum
        THEN /\ ProcessBlock("keeper", r.block)
             /\ keeper' = [keeper EXCEPT !.pc = "process", !.orphanNum = HeightOf[r.block] - 1]
        ELSE UNCHANGED <<calls, keeper>>
    /\ UNCHANGED <<stored, status, parent, best, mainChain, orphans, job, replies, cut,
                   link, joins, heights, dropCh, wire, syncs, fetcherVars>>

\* ... a tick of the retry ticker ...
Retry ==
    /\ keeper.pc = "wait" /\ keeper.retries < MaxRetries
    /\ \/ /\ CanRequest(keeper.peer)
          /\ wire' = [wire EXCEPT ![keeper.peer] = Append(@, reqNum)]
          /\ keeper' = [keeper EXCEPT !.retries = @ + 1]
          /\ UNCHANGED <<link, heights, dropCh>>
       \/ ~CanRequest(keeper.peer) /\ Abandon(dropCh)
    /\ UNCHANGED <<chainVars, joins, pendingCh, syncs, fetcherVars>>

\* Mutant of Timeout: the timer is started again instead of giving up.
TimeoutRestarts ==
    /\ keeper.pc = "wait" /\ keeper.retries = MaxRetries
    /\ keeper' = [keeper EXCEPT !.retries = 0]
    /\ UNCHANGED <<chainVars, netVars, syncs, fetcherVars>>

\* ... the timeout ...
Timeout ==
    /\ keeper.pc = "wait" /\ keeper.retries = MaxRetries
    /\ Abandon(dropCh)
    /\ UNCHANGED <<chainVars, joins, pendingCh, syncs, fetcherVars>>

\* ... and a notice that a peer has gone.
Dropped ==
    /\ keeper.pc = "wait" /\ dropCh # <<>>
    /\ IF Head(dropCh) = keeper.peer
       THEN Abandon(Tail(dropCh))
       ELSE /\ dropCh' = Tail(dropCh)
            /\ UNCHANGED <<link, wire, heights, keeper>>
    /\ UNCHANGED <<chainVars, joins, pendingCh, syncs, fetcherVars>>

\* Mutant of Processed: an orphan counts like any other block.
ProcessedOrphan ==
    /\ keeper.pc = "process"
    /\ \E r \in replies["keeper"] :
        keeper' = IF r.err THEN [keeper EXCEPT !.pc = "finish"]
                  ELSE [keeper EXCEPT !.pc = "request", !.isOrphan = FALSE, !.num = @ + 1]
    /\ replies' = [replies EXCEPT !["keeper"] = {}]
    /\ UNCHANGED <<stored, status, parent, best, mainChain, orphans, calls, job, cut,
                   netVars, syncs, fetcherVars>>

\* ProcessBlock returns.  After an error the peer may have reached the ban
\* threshold, and is then stopped.
Processed ==
    /\ keeper.pc = "process"
    /\ \E r \in replies["keeper"] :
        \/ /\ r.err
           /\ keeper' = [keeper EXCEPT !.pc = "finish"]
           /\ \/ UNCHANGED netVars
              \/ StopPeerGracefully(keeper.peer, dropCh) /\ UNCHANGED <<joins, pendingCh>>
        \/ /\ ~r.err /\ r.isOrphan
           /\ keeper' = [keeper EXCEPT !.pc = "request", !.isOrphan = TRUE]
           /\ UNCHANGED netVars
        \/ /\ ~r.err /\ ~r.isOrphan
           /\ keeper' = [keeper EXCEPT !.pc = "request", !.isOrphan = FALSE, !.num = @ + 1]
           /\ UNCHANGED netVars
    /\ replies' = [replies EXCEPT !["keeper"] = {}]
    /\ UNCHANGED <<stored, status, parent, best, mainChain, orphans, calls, job, cut,
                   syncs, fetcherVars>>

\* The end of BlockRequestWorker.  Peers to which BroadcastNewStatus fails are
\* stopped: Leave and RemovePeer.
Finish ==
    /\ keeper.pc = "finish"
    /\ keeper' = NoKeeper
    /\ UNCHANGED <<chainVars, netVars, syncs, fetcherVars>>

Keeper ==
    synchronise \/ Choose \/ Request \/ Response \/ Retry \/ Timeout \/ Dropped
        \/ Processed \/ Finish

-----------------------------------------------------------------------------
(* Fetcher.loop.                                                           *)

\* The top of the loop reads the height of the chain once ...
Top ==
    /\ fetcher.pc = "top"
    /\ fetcher' = [fetcher EXCEPT !.pc = "import", !.height = HeightOf[best]]
    /\ UNCHANGED <<chainVars, netVars, keeperVars, news>>

\* ... and takes queued blocks, lowest first: one that is too high is put back,
\* one that is known or does not extend the best block is forgotten, and any
\* other is handed to ProcessBlock.
Queue == {b \in Blocks : fetcher.queue[b] > 0}
Lowest == {b \in Queue : \A x \in Queue : HeightOf[b] <= HeightOf[x]}

forgetBlock(f, b) == [f EXCEPT !.queued = @ \ {b}]

\* Mutant of Import: a block is imported without a look at its parent.
ImportAny ==
    /\ fetcher.pc = "import"
    /\ \/ /\ Queue = {}
          /\ fetcher' = [fetcher EXCEPT !.pc = "select"]
          /\ UNCHANGED calls
       \/ \E b \in Lowest :
            /\ ProcessBlock("fetcher", b)
            /\ fetcher' = [fetcher EXCEPT !.queue[b] = @ - 1, !.pc = "insert", !.op = b]
    /\ UNCHANGED <<stored, status, parent, best, mainChain, orphans, job, replies, cut,
                   netVars, keeperVars, news>>

Import ==
    /\ fetcher.pc = "import"
    /\ \/ /\ Queue = {}
          /\ fetcher' = [fetcher EXCEPT !.pc = "select"]
          /\ UNCHANGED calls
       \/ \E b \in Lowest :
            LET popped == [fetcher EXCEPT !.queue[b] = @ - 1] IN
            \/ /\ HeightOf[b] > fetcher.height + 1
               /\ fetcher' = [fetcher EXCEPT !.pc = "select"]
               /\ UNCHANGED calls
            \/ /\ HeightOf[b] <= fetcher.height + 1
               /\ b \in stored \/ ParentOf[b] # best
               /\ fetcher' = forgetBlock(popped, b)
               /\ UNCHANGED calls
            \/ /\ HeightOf[b] <= fetcher.height + 1
               /\ b \notin stored /\ ParentOf[b] = best
               /\ ProcessBlock("fetcher", b)
               /\ fetcher' = [popped EXCEPT !.pc = "insert", !.op = b]
    /\ UNCHANGED <<stored, status, parent, best, mainChain, orphans, job, replies, cut,
                   netVars, keeperVars, news>>

\* The end of insert.  The peer of a block that fails may be banned, and peers
\* to which BroadcastMinedBlock fails are stopped: Leave and RemovePeer.
insert ==
    /\ fetcher.pc = "insert" /\ replies["fetcher"] # {}
    /\ replies' = [replies EXCEPT !["fetcher"] = {}]
    /\ fetcher' = [fetcher EXCEPT !.pc = "import", !.op = Nil]
    /\ UNCHANGED <<stored, status, parent, best, mainChain, orphans, calls, job, cut,
                   netVars, keeperVars, news>>

\* Receive of a MineBlockMessage hands the block to the fetcher when that waits
\* in its select, and then sets the peer's status.
enqueue(f, b) ==
    LET dist == HeightOf[b] - HeightOf[best] IN
    IF dist < 0 \/ dist > MaxQueueDist \/ b \in f.queued THEN f
    ELSE [f EXCEPT !.queued = @ \cup {b}, !.queue[b] = @ + 1]

Announce(p, b) ==
    /\ fetcher.pc = "select"
    /\ <<p, b>> \in news /\ link[p] \in {"joining", "on"}
    /\ news' = news \ {<<p, b>>}
    /\ fetcher' = [enqueue(fetcher, b) EXCEPT !.pc = "top"]
    /\ heights' = [x \in Registered |-> IF x = p THEN HeightOf[b] ELSE heights[x]]
    /\ UNCHANGED <<chainVars, link, joins, dropCh, wire, pendingCh, keeperVars>>

Fetcher == Top \/ Import \/ insert

-----------------------------------------------------------------------------
(* The process crashes and restarts: only what is on disk stays.           *)

Crash ==
    /\ MayCrash
    /\ NewChain
    /\ link' = [p \in Peers |-> "off"]
    /\ heights' = [p \in {} |-> 0]
    /\ dropCh' = <<>> /\ pendingCh' = <<>>
    /\ wire' = [p \in Peers |-> <<>>]
    /\ keeper' = NoKeeper
    /\ fetcher' = NewFetcher
    /\ UNCHANGED <<joins, syncs, news>>

Next ==
    \/ \E p \in Peers : AddPeer(p) \/ PeersAdd(p) \/ Answer(p)
                          \/ Leave(p) \/ FailEarly(p) \/ RemovePeer(p)
    \/ Keeper
    \/ blockProcesser /\ UNCHANGED <<netVars, keeperVars, fetcherVars>>
    \/ Fetcher
    \/ \E p \in Peers, b \in Blocks : Announce(p, b)
    \/ Crash

Spec == Init /\ [][Next]_vars

\* The node's own goroutines and its timers run.  Peers owe nothing.
FairSpec ==
    /\ Spec
    /\ WF_vars(blockProcesser /\ UNCHANGED <<netVars, keeperVars, fetcherVars>>)
    /\ WF_vars(Choose \/ Request \/ Response \/ Retry \/ Timeout \/ Dropped \/ Processed \/ Finish)
    /\ WF_vars(Fetcher)

-----------------------------------------------------------------------------
(* Properties.                                                             *)

TypeOK ==
    /\ ChainTypeOK
    /\ link \in [Peers -> {"off", "joining", "on", "leaving", "stopped", "zombie"}]
    /\ Registered \subseteq Peers /\ heights \in [Registered -> Nat]
    /\ dropCh \in Seq(Peers) /\ Len(dropCh) <= MaxQuitReq
    /\ wire \in [Peers -> Seq(Nat)]
    /\ pendingCh \in Seq([peer : Peers, block : Blocks]) /\ Len(pendingCh) <= MaxPending
    /\ keeper \in [pc : {"idle", "choose", "request", "wait", "process", "finish"},
                   peer : Peers \cup {Nil}, max : Nat, num : Nat, orphanNum : Nat,
                   isOrphan : BOOLEAN, retries : 0 .. MaxRetries, whole : BOOLEAN]
    /\ fetcher \in [pc : {"top", "import", "insert", "select"}, height : Nat,
                    op : Blocks \cup {Nil}, queue : [Blocks -> Nat], queued : SUBSET Blocks]

\* The fetcher tests that a block extends the best block and hands it over
\* later, when the keeper may have moved the chain: the block is still never
\* taken for an orphan, because blocks do not leave the index and the orphans
\* of a saved block are saved with it.  Only an invalid orphan stays one.
FetcherNeverOrphans == \A r \in replies["fetcher"] : r.isOrphan => fetcher.op \in Invalid

\* BlockRequestWorker, when it has got all blocks up to the peer's height, leaves
\* a chain at least that high, or one with more work than a saved block of that
\* height, also if it started on another branch: each orphan is followed back
\* to a known block before the next height is requested.  This is for a peer
\* whose blocks are all valid: an invalid one among the orphans is skipped
\* without an error.
ChainOf(p) == {Path(ParentOf, TipOf[p])[i] : i \in 0 .. HeightOf[TipOf[p]]}

SyncReachesPeer ==
    keeper.pc = "finish" /\ keeper.whole /\ ~cut =>
        \/ HeightOf[best] >= keeper.max
        \/ \E c \in Index : HeightOf[c] >= keeper.max /\ WorkOf[c] < WorkOf[best]
        \/ ChainOf(keeper.peer) \cap Invalid # {}

\* Every synchronisation ends, whatever peers do: requests time out, orphans
\* lead back to a known block, and blockProcesser answers.  Otherwise the flag
\* synchronising would keep the node from ever synchronising again.
SyncEnds == keeper.pc # "idle" ~> keeper.pc = "idle"
=============================================================================
