------------------------------- MODULE TxSync -------------------------------
(***************************************************************************)
(* The initial relay of transactions to a new peer (src/netsync/sync.go,   *)
(* txsyncLoop; src/netsync/protocol_reactor.go, syncTransactions).         *)
(*                                                                         *)
(* Three kinds of goroutine meet here.  ProtocolReactor.AddPeer, one at a  *)
(* time because it holds handshakeMu, offers a new peer's transactions on  *)
(* the unbuffered txSyncCh.  txsyncLoop keeps them in the map pending,     *)
(* under the key of the node, and cuts packs from them.  A goroutine per   *)
(* pack sends it and reports on the channel done.  A node may connect      *)
(* again while packs of its old connection are under way.                  *)
(***************************************************************************)
EXTENDS Integers, Sequences, FiniteSets

CONSTANTS
    Conns,      \* netsync peers, one for each connection
    KeyOf,      \* swPeer.Key of each
    Txs,        \* transactions
    SizeOf,     \* SerializedSize of each
    Batches,    \* what GetTransactions may return, in the order of the loop
    PackSize,   \* txsyncPackSize
    Failing,    \* the connections on which SendTransactions may fail
    MayQuit     \* whether quitSync may be closed

ASSUME KeyAssumption == KeyOf \in [Conns -> {KeyOf[c] : c \in Conns}]
ASSUME SizeAssumption == SizeOf \in [Txs -> Nat] /\ PackSize \in Nat \ {0}
ASSUME BatchAssumption == Batches \subseteq Seq(Txs)

Keys == {KeyOf[c] : c \in Conns}
Syncs == [p : Conns, txs : Seq(Txs)]

VARIABLES
    offer,      \* the txsync blocked on txSyncCh, in a set of at most one
    pending,    \* pending: a partial map from keys to txsyncs, as a set
    sending,    \* sending
    pack,       \* the pack of the last send, in a set of at most one
    flying,     \* number of goroutines that are sending the pack
    done,       \* the channel done: TRUE stands for a nil error
    quit,       \* txsyncLoop has returned
    relayed,    \* history: the transactions to be relayed to each connection
    sent,       \* history: the transactions sent to each connection
    failed,     \* history: the connections on which a send failed
    again       \* history: the peers to which transactions were relayed again

vars == <<offer, pending, sending, pack, flying, done, quit, relayed, sent, failed, again>>

-----------------------------------------------------------------------------
(* The total size of the first n transactions, and the length of the pack  *)
(* that the loop of send cuts from txs.                                    *)

Total(txs, n) ==
    LET sum[i \in 0 .. n] == IF i = 0 THEN 0 ELSE sum[i - 1] + SizeOf[txs[i]] IN sum[n]

PackLen(txs) ==
    CHOOSE n \in 0 .. Len(txs) :
        /\ \A i \in 0 .. n - 1 : Total(txs, i) < PackSize
        /\ n = Len(txs) \/ Total(txs, n) >= PackSize

Entries(map, k) == {s \in map : KeyOf[s.p] = k}

\* Mutant of send: the copy starts at the last transaction of the pack.
sendRepeatsLast(map, s) ==
    LET n == PackLen(s.txs)
        rest == [s EXCEPT !.txs = SubSeq(s.txs, n, Len(s.txs))]
    IN  /\ pack' = {[p |-> s.p, txs |-> SubSeq(s.txs, 1, n)]}
        /\ pending' = (map \ Entries(map, KeyOf[s.p]))
                        \cup (IF n = Len(s.txs) THEN {} ELSE {rest})
        /\ sending' = TRUE
        /\ flying' = flying + 1

\* send: cut a pack from s, forget s once it is empty, start a goroutine.
send(map, s) ==
    LET n == PackLen(s.txs)
        rest == [s EXCEPT !.txs = SubSeq(s.txs, n + 1, Len(s.txs))]
    IN  /\ pack' = {[p |-> s.p, txs |-> SubSeq(s.txs, 1, n)]}
        /\ pending' = (map \ Entries(map, KeyOf[s.p]))
                        \cup (IF rest.txs = <<>> THEN {} ELSE {rest})
        /\ sending' = TRUE
        /\ flying' = flying + 1

Init ==
    /\ offer = {} /\ pending = {} /\ pack = {} /\ done = <<>>
    /\ sending = FALSE /\ flying = 0 /\ quit = FALSE
    /\ relayed = [c \in Conns |-> <<>>] /\ sent = [c \in Conns |-> <<>>]
    /\ failed = {} /\ again = {}

\* syncTransactions for the peer c, which is that of an older connection of the
\* node if this one is still registered; an empty pool is left to the caller.
syncTransactions(c) ==
    /\ offer = {}
    /\ \E txs \in Batches \ {<<>>} :
        /\ offer' = {[p |-> c, txs |-> txs]}
        /\ relayed' = [relayed EXCEPT ![c] = txs]
    /\ again' = IF relayed[c] = <<>> THEN again ELSE again \cup {c}
    /\ UNCHANGED <<pending, sending, pack, flying, done, quit, sent, failed>>

\* Mutant of NewSync: a new sync is sent at once, without the test of sending.
NewSyncAtOnce ==
    /\ ~quit
    /\ \E s \in offer : send((pending \ Entries(pending, KeyOf[s.p])) \cup {s}, s)
    /\ offer' = {}
    /\ UNCHANGED <<done, quit, relayed, sent, failed, again>>

\* txsyncLoop receives from txSyncCh; the entry of an old connection of the
\* node is replaced.
NewSync ==
    /\ ~quit
    /\ \E s \in offer :
        LET map == (pending \ Entries(pending, KeyOf[s.p])) \cup {s}
        IN  IF sending
            THEN pending' = map /\ UNCHANGED <<sending, pack, flying>>
            ELSE send(map, s)
    /\ offer' = {}
    /\ UNCHANGED <<done, quit, relayed, sent, failed, again>>

\* The goroutine of send: SendTransactions sends the pack and succeeds, or
\* fails after some of the transactions, and reports on done (capacity 1).
SendTransactions(ok) ==
    /\ flying > 0 /\ Len(done) < 1
    /\ \E s \in pack :
        /\ ok \/ s.p \in Failing
        /\ \E n \in 0 .. Len(s.txs) :
            /\ ok => n = Len(s.txs)
            /\ sent' = [sent EXCEPT ![s.p] = @ \o SubSeq(s.txs, 1, n)]
        /\ failed' = IF ok THEN failed ELSE failed \cup {s.p}
    /\ flying' = flying - 1
    /\ done' = Append(done, ok)
    /\ UNCHANGED <<offer, pending, sending, pack, quit, relayed, again>>

\* Mutant of Done: the next send is not scheduled.
DoneUnscheduled ==
    /\ ~quit /\ done # <<>>
    /\ \E last \in pack :
        pending' = IF Head(done) THEN pending
                                 ELSE pending \ Entries(pending, KeyOf[last.p])
    /\ sending' = FALSE
    /\ done' = Tail(done)
    /\ UNCHANGED <<pack, flying, offer, quit, relayed, sent, failed, again>>

\* txsyncLoop receives from done, stops tracking the node if the send failed
\* and picks the next sync at random.
Done ==
    /\ ~quit /\ done # <<>>
    /\ \E last \in pack :
        LET map == IF Head(done) THEN pending
                                 ELSE pending \ Entries(pending, KeyOf[last.p])
        IN  IF map = {}
            THEN pending' = map /\ sending' = FALSE /\ UNCHANGED <<pack, flying>>
            ELSE \E s \in map : send(map, s)
    /\ done' = Tail(done)
    /\ UNCHANGED <<offer, quit, relayed, sent, failed, again>>

\* txsyncLoop returns when quitSync is closed.
Quit ==
    /\ MayQuit /\ ~quit
    /\ quit' = TRUE
    /\ UNCHANGED <<offer, pending, sending, pack, flying, done, relayed, sent, failed, again>>

Next ==
    \/ \E c \in Conns : syncTransactions(c)
    \/ NewSync
    \/ \E ok \in BOOLEAN : SendTransactions(ok)
    \/ Done
    \/ Quit

Spec == Init /\ [][Next]_vars

\* The goroutines run and a send ends, one way or the other: TrySend does not
\* block.  Peers need not connect, and quitSync need not be closed.
FairSpec ==
    /\ Spec
    /\ WF_vars(NewSync) /\ WF_vars(Done)
    /\ WF_vars(\E ok \in BOOLEAN : SendTransactions(ok))

-----------------------------------------------------------------------------
(* Properties.                                                             *)

TypeOK ==
    /\ offer \subseteq Syncs /\ pending \subseteq Syncs /\ pack \subseteq Syncs
    /\ sending \in BOOLEAN /\ quit \in BOOLEAN /\ flying \in Nat
    /\ done \in Seq(BOOLEAN) /\ failed \subseteq Conns /\ again \subseteq Conns
    /\ relayed \in [Conns -> Seq(Txs)] /\ sent \in [Conns -> Seq(Txs)]

\* Packs are sent "to one peer at a time", and the variable pack, which the
\* sending goroutine reads, is not written while one runs: there is one
\* goroutine or one result exactly when sending is set, so that a result never
\* waits for room in done either.
OneSendAtATime == flying + Len(done) = IF sending THEN 1 ELSE 0

UnderWay(c) ==
    IF flying > 0 /\ (\E s \in pack : s.p = c)
    THEN (CHOOSE s \in pack : TRUE).txs ELSE <<>>

Rest(c) ==
    LET mine == {s \in pending \cup offer : s.p = c}
    IN  IF mine = {} THEN <<>> ELSE (CHOOSE s \in mine : TRUE).txs

\* What was sent to a connection, what is under way and what waits make up, in
\* that order, what was to be relayed to it: the shifting of s.txs under the
\* cut pack neither loses, nor repeats, nor reorders a transaction, however the
\* packs of several nodes and of two connections of one node interleave.  What
\* waits may be gone as a whole: after a failed send or a new connection.
RelayInOrder ==
    \A c \in Conns \ (failed \cup again) :
        LET known == sent[c] \o UnderWay(c) \o Rest(c) IN
        /\ Len(known) <= Len(relayed[c])
        /\ known = SubSeq(relayed[c], 1, Len(known))
        /\ Rest(c) # <<>> => known = relayed[c]

\* The relay to a peer is not finished, although no send to it failed, no other
\* connection of its node took its place and the loop was not told to quit.
Waiting(c) ==
    /\ relayed[c] # sent[c] /\ ~quit /\ c \notin failed \cup again
    /\ \A d \in Conns \ {c} : KeyOf[d] = KeyOf[c] => relayed[d] = <<>>

\* "When a new peer appears, we relay all currently pending transactions": the
\* relays that were begun are all finished some time.
RelayComplete == (\E c \in Conns : Waiting(c)) ~> (\A c \in Conns : ~Waiting(c))
=============================================================================
