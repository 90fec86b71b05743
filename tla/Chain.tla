------------------------------- MODULE Chain --------------------------------
(***************************************************************************)
(* The block chain (src/protocol): the block index with its main chain,    *)
(* the orphans, the store on disk, and the goroutine blockProcesser that   *)
(* handles the blocks which ProcessBlock queues for it, one at a time.     *)
(*                                                                         *)
(* A block is a model value with a parent, a height and a total work.      *)
(* processBlock saves the block, then the orphans that wait for it, then   *)
(* connects the best of them: each save is a write to disk of its own, and *)
(* a crash may come between any two.                                       *)
(***************************************************************************)
EXTENDS Integers, Sequences

CONSTANTS
    Blocks,       \* all blocks that may be met
    Genesis,      \* the genesis block
    ParentOf,     \* PreviousBlockHash of every other block
    HeightOf,     \* Height of a block
    WorkOf,       \* WorkSum of its node
    Invalid,      \* blocks that saveBlock rejects
    Unspendable,  \* blocks that connectBlock and reorganizeChain reject
    Callers,      \* goroutines that call ProcessBlock
    Nil           \* no block

ASSUME TreeAssumption ==
    /\ Genesis \in Blocks /\ Nil \notin Blocks
    /\ ParentOf \in [Blocks \ {Genesis} -> Blocks]
    /\ HeightOf \in [Blocks -> Nat] /\ WorkOf \in [Blocks -> Nat]
    /\ HeightOf[Genesis] = 0
    /\ \A b \in Blocks \ {Genesis} :
        HeightOf[b] = HeightOf[ParentOf[b]] + 1 /\ WorkOf[b] > WorkOf[ParentOf[b]]
    /\ Genesis \notin Invalid \cup Unspendable

VARIABLES
    stored,     \* blocks on disk, with their headers
    status,     \* the block of BlockStoreState, on disk
    parent,     \* the block index: Parent of each node
    best,       \* Chain.bestNode
    mainChain,  \* BlockIndex.mainChain, from height 0
    orphans,    \* OrphanManage.orphan
    calls,      \* processBlockCh
    job,        \* the block blockProcesser works on, in a set of at most one
    replies,    \* the replies that callers have not yet received
    cut         \* history: a saved block was left unconnected by an error or a crash

chainVars == <<stored, status, parent, best, mainChain, orphans, calls, job, replies, cut>>

-----------------------------------------------------------------------------
(* The index.                                                              *)

Index == DOMAIN parent

\* The nodes from b down along Parent, b first.
Path(par, b) ==
    LET up[i \in 0 .. HeightOf[b]] ==
            IF i = 0 THEN b
            ELSE IF up[i - 1] \in DOMAIN par THEN par[up[i - 1]] ELSE Nil
    IN  up

\* Mutant of SetMainChain: only entries that were nil are filled.
SetMainChainKeeps(chain, par, node) ==
    LET h == HeightOf[node]
        path == Path(par, node)
    IN  [i \in 1 .. h + 1 |-> IF i <= Len(chain) THEN chain[i] ELSE path[h + 1 - i]]

\* SetMainChain: the array is cut or filled up with nil to the height of the
\* node, then the nodes below it are entered until one is in its place.
SetMainChain(chain, par, node) ==
    LET h == HeightOf[node]
        resized == [i \in 1 .. h + 1 |-> IF i <= Len(chain) THEN chain[i] ELSE Nil]
        path == Path(par, node)
    IN  [i \in 1 .. h + 1 |->
            IF \A k \in i .. h + 1 : resized[k] # path[h + 1 - k]
            THEN path[h + 1 - i] ELSE resized[i]]

\* LoadBlockIndex reads the headers in the order of their heights: a node finds
\* its parent among those read before it, and the first one has none.
LoadBlockIndex(disk) ==
    [b \in disk |->
        IF b # Genesis /\ ParentOf[b] \in disk /\ HeightOf[ParentOf[b]] < HeightOf[b]
        THEN ParentOf[b] ELSE Nil]

-----------------------------------------------------------------------------
(* NewChain on an empty store: initChainStatus saves the genesis block.    *)

ChainInit ==
    /\ stored = {Genesis} /\ status = Genesis
    /\ parent = LoadBlockIndex({Genesis})
    /\ best = Genesis
    /\ mainChain = SetMainChain(<<>>, LoadBlockIndex({Genesis}), Genesis)
    /\ orphans = {} /\ calls = <<>> /\ job = {}
    /\ replies = [c \in Callers |-> {}]
    /\ cut = FALSE

\* The process dies and starts again: NewChain on what is on disk.
NewChain ==
    /\ parent' = LoadBlockIndex(stored)
    /\ best' = status
    /\ mainChain' = SetMainChain(<<>>, LoadBlockIndex(stored), status)
    /\ orphans' = {} /\ calls' = <<>> /\ job' = {}
    /\ replies' = [c \in Callers |-> {}]
    /\ cut' = (cut \/ job # {})
    /\ UNCHANGED <<stored, status>>

\* ProcessBlock queues the block and waits for the reply.
ProcessBlock(c, b) == calls' = Append(calls, [caller |-> c, block |-> b])

Reply(c, isOrphan, err) ==
    replies' = [replies EXCEPT ![c] = {[isOrphan |-> isOrphan, err |-> err]}]

\* Mutant of saveBlock: the block enters the index and is not written to disk.
saveBlockInMemory(b) ==
    /\ stored' = stored
    /\ parent' = [x \in Index \cup {b} |-> IF x = b THEN ParentOf[b] ELSE parent[x]]

\* saveBlock: the block is written to disk and enters the index.
saveBlock(b) ==
    /\ stored' = stored \cup {b}
    /\ parent' = [x \in Index \cup {b} |-> IF x = b THEN ParentOf[b] ELSE parent[x]]

\* Mutant of processBlock: the orphans that wait for the block are not looked for.
processBlockAlone ==
    /\ job = {} /\ calls # <<>>
    /\ calls' = Tail(calls)
    /\ LET c == Head(calls).caller
           b == Head(calls).block
       IN  \/ /\ b \in Index \cup orphans
              /\ Reply(c, b \in orphans, FALSE)
              /\ UNCHANGED <<stored, parent, orphans, job>>
           \/ /\ b \notin Index \cup orphans
              /\ ParentOf[b] \notin Index
              /\ orphans' = orphans \cup {b}
              /\ Reply(c, TRUE, FALSE)
              /\ UNCHANGED <<stored, parent, job>>
           \/ /\ b \notin Index \cup orphans
              /\ ParentOf[b] \in Index
              /\ saveBlock(b)
              /\ job' = {[caller |-> c, tree |-> {}, tip |-> b]}
              /\ UNCHANGED <<orphans, replies>>
    /\ UNCHANGED <<status, best, mainChain, cut>>

\* processBlock up to saveBlock.
processBlock ==
    /\ job = {} /\ calls # <<>>
    /\ calls' = Tail(calls)
    /\ LET c == Head(calls).caller
           b == Head(calls).block
       IN  \/ /\ b \in Index \cup orphans   \* "block has been processed"
              /\ Reply(c, b \in orphans, FALSE)
              /\ UNCHANGED <<stored, parent, orphans, job>>
           \/ /\ b \notin Index \cup orphans
              /\ ParentOf[b] \notin Index
              /\ orphans' = orphans \cup {b}
              /\ Reply(c, TRUE, FALSE)
              /\ UNCHANGED <<stored, parent, job>>
           \/ /\ b \notin Index \cup orphans
              /\ ParentOf[b] \in Index
              /\ b \in Invalid
              /\ Reply(c, FALSE, TRUE)
              /\ UNCHANGED <<stored, parent, orphans, job>>
           \/ /\ b \notin Index \cup orphans
              /\ ParentOf[b] \in Index
              /\ b \notin Invalid
              /\ saveBlock(b)
              /\ job' = {[caller |-> c, tree |-> {b}, tip |-> b]}
              /\ UNCHANGED <<orphans, replies>>
    /\ UNCHANGED <<status, best, mainChain, cut>>

\* Orphans that saveSubBlock still has to save: children of what it has saved.
Waiting(j) == {o \in orphans \ Invalid : ParentOf[o] \in j.tree}

\* saveSubBlock, one orphan at a time; it returns the highest block it meets.
saveSubBlock ==
    /\ \E j \in job, o \in orphans :
        /\ o \in Waiting(j)
        /\ saveBlock(o)
        /\ orphans' = orphans \ {o}
        /\ job' = {[j EXCEPT !.tree = @ \cup {o},
                             !.tip = IF HeightOf[o] > HeightOf[@] THEN o ELSE @]}
    /\ UNCHANGED <<status, best, mainChain, calls, replies, cut>>

\* connectBlock and reorganizeChain end by saving the new status on disk and
\* making the node the best one; both fail on a block they cannot apply.
setState(b) ==
    /\ status' = b
    /\ best' = b
    /\ mainChain' = SetMainChain(mainChain, parent, b)

\* The blocks that reorganizeChain attaches: those of b's chain not on ours.
Attached(b) ==
    {Path(parent, b)[i] : i \in 0 .. HeightOf[b]}
        \ {Path(parent, best)[i] : i \in 0 .. HeightOf[best]}

\* processBlock after saveSubBlock: append, reorganize or leave the chain.
Extends(b) == parent[b] = best
Better(b) == HeightOf[b] > HeightOf[best] /\ WorkOf[b] >= WorkOf[best]

\* Mutant of connectBest: the chain is only appended to.
connectBestAppends ==
    /\ \E j \in job :
        /\ Waiting(j) = {}
        /\ \/ /\ Extends(j.tip) /\ j.tip \notin Unspendable
              /\ setState(j.tip)
           \/ /\ ~Extends(j.tip) \/ j.tip \in Unspendable
              /\ UNCHANGED <<status, best, mainChain>>
        /\ Reply(j.caller, FALSE, j.tip \in Unspendable)
        /\ cut' = (cut \/ j.tip \in Unspendable)
    /\ job' = {}
    /\ UNCHANGED <<stored, parent, orphans, calls>>

connectBest ==
    /\ \E j \in job :
        /\ Waiting(j) = {}
        /\ \/ /\ Extends(j.tip) \/ Better(j.tip)
              /\ Attached(j.tip) \cap Unspendable = {}
              /\ setState(j.tip)
              /\ Reply(j.caller, FALSE, FALSE)
              /\ UNCHANGED cut
           \/ /\ Extends(j.tip) \/ Better(j.tip)
              /\ Attached(j.tip) \cap Unspendable # {}
              /\ Reply(j.caller, FALSE, TRUE)
              /\ cut' = TRUE
              /\ UNCHANGED <<status, best, mainChain>>
           \/ /\ ~Extends(j.tip) /\ ~Better(j.tip)
              /\ Reply(j.caller, FALSE, FALSE)
              /\ UNCHANGED <<status, best, mainChain, cut>>
    /\ job' = {}
    /\ UNCHANGED <<stored, parent, orphans, calls>>

\* blockProcesser
blockProcesser == processBlock \/ saveSubBlock \/ connectBest

-----------------------------------------------------------------------------
(* Properties.                                                             *)

ChainTypeOK ==
    /\ stored \subseteq Blocks /\ status \in Blocks /\ best \in Blocks
    /\ parent \in [Index -> Blocks \cup {Nil}] /\ Index \subseteq Blocks
    /\ mainChain \in Seq(Blocks) /\ orphans \subseteq Blocks
    /\ calls \in Seq([caller : Callers, block : Blocks])
    /\ job \subseteq [caller : Callers, tree : SUBSET Blocks, tip : Blocks]
    /\ replies \in [Callers -> SUBSET [isOrphan : BOOLEAN, err : BOOLEAN]]
    /\ cut \in BOOLEAN

\* What is on disk is a tree that contains the block of the status and agrees
\* with the index at every moment, so a crash at any point leaves a store from
\* which NewChain rebuilds the same index, parents included.
DiskRebuildsIndex ==
    /\ status \in stored /\ best \in stored
    /\ \A b \in stored \ {Genesis} : ParentOf[b] \in stored
    /\ LoadBlockIndex(stored) = parent

\* mainChain holds exactly the chain of the best block, after appends,
\* reorganisations and restarts: the walk of SetMainChain stops at the first
\* node in its place, and whatever lies below must be right already.
\* GetBlockByHeight answers other nodes' requests from it.
MainChainExact ==
    /\ Len(mainChain) = HeightOf[best] + 1
    /\ \A i \in 1 .. Len(mainChain) :
        mainChain[i] = Path(ParentOf, best)[Len(mainChain) - i]

\* An orphan is not in the index, and its parent is not either, except while
\* saveSubBlock is at work or if the orphan is invalid: so a walk back from an
\* orphan ends at a block that is saved or at one that is missing.
OrphansApart ==
    /\ orphans \cap Index = {}
    /\ job = {} => \A o \in orphans \ Invalid : ParentOf[o] \notin Index

\* For every saved block, it or another at least as high has lost against the
\* best block once blockProcesser is idle, unless an error or a crash came
\* between saving and connecting.  (A block left behind that way is "processed"
\* for BlockExist and is only connected when a child of it arrives.)  Of the
\* blocks saved together only the highest is weighed against the best one.
BestChosen ==
    job = {} /\ ~cut =>
        \A b \in Index : \E c \in Index : HeightOf[c] >= HeightOf[b] /\ ~Better(c)
=============================================================================
