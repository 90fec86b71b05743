---------------------------- MODULE MConnection ----------------------------
(***************************************************************************)
(* connection.MConnection (src/p2p/connection/connection.go): the two ends *)
(* of one connection, each with its channels, its sendRoutine and its      *)
(* recvRoutine.  A message is a sequence of bytes, the byte <<k, i>> being *)
(* the i-th one of the k-th message of a channel.  Between the ends is a   *)
(* reliable stream of packets that is cut when an end closes it.           *)
(***************************************************************************)
EXTENDS Integers, Sequences, FiniteSets

CONSTANTS Channels,
          Priority,     \* Priority[ch], a positive integer
          Lengths,      \* Lengths[e][ch]: lengths of the messages e sends on ch
          PayloadSize,  \* maxMsgPacketPayloadSize
          QueueCap,     \* QueueCap[ch], SendQueueCapacity
          RecvCap,      \* RecvCap[ch], RecvMessageCapacity
          NumBatch,     \* numBatchMsgPackets
          MaxPings,     \* bound: MaxPings[e] is the number of pings e sends
          MayStop,      \* bound: the ends that are stopped from outside
          MayPanic      \* bound: the ends that get a packet they panic on

Ends == {"a", "b"}
Other(e) == IF e = "a" THEN "b" ELSE "a"

ASSUME MConnectionAssumption ==
    /\ \A ch \in Channels : Priority[ch] > 0 /\ QueueCap[ch] > 0
    /\ PayloadSize \in Nat \ {0} /\ NumBatch > 0
    /\ Lengths \in [Ends -> [Channels -> Seq(Nat \ {0})]]  \* no encoding is empty
    /\ MayStop \subseteq Ends /\ MayPanic \subseteq Ends

VARIABLES
    running,    \* IsRunning()
    closed,     \* our side has closed the socket
    onErrors,   \* how often onError was called; 1 is the errored flag
    calls,      \* Send and TrySend calls made on every channel
    waking,     \* a caller has queued its message but not yet woken sendRoutine
    queue,      \* Channel.sendQueue
    queueSize,  \* Channel.sendQueueSize
    sending,    \* Channel.sending, <<>> for nil
    recent,     \* Channel.recentlySent, in packets
    token,      \* the content of c.send
    sender,     \* where sendRoutine stands: select, batch or done
    batch,      \* the packets left to send in sendSomeMsgPackets
    buf,        \* bufWriter
    bufErr,     \* its sticky error
    flushSet,   \* flushTimer is running
    net,        \* packets on the way from the end
    receiver,   \* where recvRoutine stands
    recving,    \* Channel.recving
    pings,      \* pings sent
    accepted,   \* history: messages for which Send or TrySend returned true
    delivered   \* history: messages given to onReceive

connVars == <<running, closed, onErrors>>
chanVars == <<calls, waking, queue, queueSize, accepted>>
sendVars == <<sending, recent, token, sender, batch, buf, bufErr, flushSet, net, pings>>
recvVars == <<receiver, recving, delivered>>
vars == <<connVars, chanVars, sendVars, recvVars>>

PerChannel(v) == [e \in Ends |-> [ch \in Channels |-> v]]
PerEnd(v) == [e \in Ends |-> v]

Message(k, len) == [i \in 1 .. len |-> <<k, i>>]

Init ==
    /\ running = PerEnd(TRUE) /\ closed = PerEnd(FALSE) /\ onErrors = PerEnd(0)
    /\ calls = PerChannel(0) /\ waking = PerChannel(FALSE)
    /\ queue = PerChannel(<<>>) /\ queueSize = PerChannel(0)
    /\ sending = PerChannel(<<>>) /\ recent = PerChannel(0)
    /\ token = PerEnd(FALSE) /\ sender = PerEnd("select") /\ batch = PerEnd(0)
    /\ buf = PerEnd(<<>>) /\ bufErr = PerEnd(FALSE) /\ flushSet = PerEnd(FALSE)
    /\ net = PerEnd(<<>>) /\ pings = PerEnd(0)
    /\ receiver = PerEnd("read") /\ recving = PerChannel(<<>>)
    /\ accepted = PerChannel(<<>>) /\ delivered = PerChannel(<<>>)

-----------------------------------------------------------------------------
(* Stopping.                                                               *)

\* Stop and OnStop: flushTimer is stopped, quit and the socket are closed.
OnStop(e) ==
    /\ running' = [running EXCEPT ![e] = FALSE]
    /\ closed' = [closed EXCEPT ![e] = TRUE]

stopForError(e) ==
    /\ OnStop(e)
    /\ onErrors' = [onErrors EXCEPT ![e] = 1]

Stop(e) ==
    /\ e \in MayStop /\ running[e]
    /\ OnStop(e)
    /\ flushSet' = [flushSet EXCEPT ![e] = FALSE]
    /\ UNCHANGED <<onErrors, chanVars, recvVars, sending, recent, token, sender,
                   batch, buf, bufErr, net, pings>>

-----------------------------------------------------------------------------
(* Callers of Send and TrySend.                                            *)

\* sendBytes and trySendBytes with room in the queue.
SendBytes(e, ch) ==
    LET k == calls[e][ch] + 1
        msg == Message(k, Lengths[e][ch][k])
    IN  /\ running[e] /\ ~waking[e][ch]
        /\ k <= Len(Lengths[e][ch])
        /\ Len(queue[e][ch]) < QueueCap[ch]
        /\ calls' = [calls EXCEPT ![e][ch] = k]
        /\ queue' = [queue EXCEPT ![e][ch] = Append(@, msg)]
        /\ accepted' = [accepted EXCEPT ![e][ch] = Append(@, msg)]
        /\ waking' = [waking EXCEPT ![e][ch] = TRUE]
        /\ UNCHANGED <<queueSize, connVars, sendVars, recvVars>>

\* The queue is full: TrySend returns false, and so does Send after its timeout.
SendFails(e, ch) ==
    /\ running[e] /\ ~waking[e][ch]
    /\ calls[e][ch] < Len(Lengths[e][ch])
    /\ Len(queue[e][ch]) = QueueCap[ch]
    /\ calls' = [calls EXCEPT ![e][ch] = @ + 1]
    /\ UNCHANGED <<waking, queue, queueSize, accepted, connVars, sendVars, recvVars>>

\* Mutant of Wake: sendRoutine is not woken up.
WakeNobody(e, ch) ==
    /\ waking[e][ch]
    /\ waking' = [waking EXCEPT ![e][ch] = FALSE]
    /\ queueSize' = [queueSize EXCEPT ![e][ch] = @ + 1]
    /\ UNCHANGED <<calls, queue, accepted, connVars, sendVars, recvVars>>

\* The caller counts its message and wakes sendRoutine up.
Wake(e, ch) ==
    /\ waking[e][ch]
    /\ waking' = [waking EXCEPT ![e][ch] = FALSE]
    /\ queueSize' = [queueSize EXCEPT ![e][ch] = @ + 1]
    /\ token' = [token EXCEPT ![e] = TRUE]
    /\ UNCHANGED <<calls, queue, accepted, connVars, sending, recent, sender, batch,
                   buf, bufErr, flushSet, net, pings, recvVars>>

-----------------------------------------------------------------------------
(* sendRoutine.                                                            *)

\* bufWriter.Write of pkts, then Flush if flushed, for a writer with no error
\* yet.  A socket that our side closed cannot be written to; one that the other
\* side closed may or may not take the bytes.
FlushOK(e, pkts) ==
    /\ ~bufErr[e] /\ ~closed[e]
    /\ net' = [net EXCEPT ![e] = @ \o buf[e] \o pkts]
    /\ buf' = [buf EXCEPT ![e] = <<>>]
    /\ UNCHANGED bufErr

FlushFails(e, pkts) ==
    /\ bufErr[e] \/ closed[e] \/ closed[Other(e)]
    /\ bufErr' = [bufErr EXCEPT ![e] = TRUE]
    /\ buf' = [buf EXCEPT ![e] = IF bufErr[e] THEN @ ELSE @ \o pkts]
    /\ UNCHANGED net

\* The end of a case of the select: go on while the connection is running.
NextCase(e) == sender' = [sender EXCEPT ![e] = IF running[e] THEN "select" ELSE "done"]

SendFlush(e) ==
    /\ sender[e] = "select" /\ flushSet[e]
    /\ flushSet' = [flushSet EXCEPT ![e] = FALSE]
    /\ FlushOK(e, <<>>) \/ FlushFails(e, <<>>)   \* the error is only logged
    /\ NextCase(e)
    /\ UNCHANGED <<sending, recent, token, batch, pings, connVars, chanVars, recvVars>>

\* updateStats, every two seconds.
SendStats(e) ==
    /\ sender[e] = "select"
    /\ recent' = [recent EXCEPT ![e] = [ch \in Channels |-> (recent[e][ch] * 4) \div 5]]
    /\ NextCase(e)
    /\ UNCHANGED <<sending, token, batch, buf, bufErr, flushSet, net, pings, connVars,
                   chanVars, recvVars>>

\* A ping or a pong is written and flushed; only a failing write is an error.
WriteAndFlush(e, pkt) ==
    /\ FlushOK(e, <<pkt>>) \/ FlushFails(e, <<pkt>>)
    /\ IF running[e] /\ bufErr[e]
       THEN /\ stopForError(e)
            /\ flushSet' = [flushSet EXCEPT ![e] = FALSE]
            /\ sender' = [sender EXCEPT ![e] = "done"]
       ELSE /\ NextCase(e)
            /\ UNCHANGED <<connVars, flushSet>>

SendPing(e) ==
    /\ sender[e] = "select" /\ pings[e] < MaxPings[e]
    /\ pings' = [pings EXCEPT ![e] = @ + 1]
    /\ WriteAndFlush(e, [type |-> "ping"])
    /\ UNCHANGED <<sending, recent, token, batch, chanVars, recvVars>>

\* The pong that recvRoutine hands over.
SendPong(e) ==
    /\ sender[e] = "select" /\ receiver[e] = "pong"
    /\ receiver' = [receiver EXCEPT ![e] = "read"]
    /\ WriteAndFlush(e, [type |-> "pong"])
    /\ UNCHANGED <<sending, recent, token, batch, pings, chanVars, recving, delivered>>

\* quit is closed.
SendQuit(e) ==
    /\ sender[e] = "select" /\ ~running[e]
    /\ sender' = [sender EXCEPT ![e] = "done"]
    /\ UNCHANGED <<sending, recent, token, batch, buf, bufErr, flushSet, net, pings,
                   connVars, chanVars, recvVars>>

\* sendSomeMsgPackets begins.
SendBatch(e) ==
    /\ sender[e] = "select" /\ token[e]
    /\ token' = [token EXCEPT ![e] = FALSE]
    /\ sender' = [sender EXCEPT ![e] = "batch"]
    /\ batch' = [batch EXCEPT ![e] = NumBatch]
    /\ UNCHANGED <<sending, recent, buf, bufErr, flushSet, net, pings,
                   connVars, chanVars, recvVars>>

\* isSendPending, for all channels: a channel that is sending nothing takes the
\* next message of its queue.
Takes(e, ch) == sending[e][ch] = <<>> /\ queue[e][ch] # <<>>
Pulled(e) == [ch \in Channels |->
                IF Takes(e, ch) THEN Head(queue[e][ch]) ELSE sending[e][ch]]
LeftInQueue(e) == [ch \in Channels |->
                IF Takes(e, ch) THEN Tail(queue[e][ch]) ELSE queue[e][ch]]
Pending(e) == {ch \in Channels : Pulled(e)[ch] # <<>>}

\* The pending channels with the least recentlySent / priority.
LeastChannels(e) ==
    {ch \in Pending(e) : \A d \in Pending(e) :
        recent[e][ch] * Priority[d] <= recent[e][d] * Priority[ch]}

\* Mutant of nextMsgPacket: one byte too many passes for the last packet.
nextMsgPacketEarlyEOF(ch, bytes) ==
    [type |-> "msg", ch |-> ch, eof |-> Len(bytes) <= PayloadSize + 1,
     bytes |-> SubSeq(bytes, 1, IF Len(bytes) <= PayloadSize THEN Len(bytes) ELSE PayloadSize)]

nextMsgPacket(ch, bytes) ==
    [type |-> "msg", ch |-> ch, eof |-> Len(bytes) <= PayloadSize,
     bytes |-> SubSeq(bytes, 1, IF Len(bytes) <= PayloadSize THEN Len(bytes) ELSE PayloadSize)]

\* One sendMsgPacket of the batch, with a packet to send.  The write itself may
\* have to flush a full buffer.
SendPacket(e) ==
    /\ sender[e] = "batch"
    /\ \E ch \in LeastChannels(e) :
         LET bytes == Pulled(e)[ch]
             pkt == nextMsgPacket(ch, bytes)
         IN  /\ sending' = [sending EXCEPT ![e] = [Pulled(e) EXCEPT ![ch] =
                              SubSeq(bytes, Len(pkt.bytes) + 1, Len(bytes))]]
             /\ queue' = [queue EXCEPT ![e] = LeftInQueue(e)]
             /\ queueSize' = IF pkt.eof THEN [queueSize EXCEPT ![e][ch] = @ - 1]
                                        ELSE queueSize
             /\ \/ /\ \/ FlushOK(e, <<pkt>>)
                      \/ /\ ~bufErr[e]
                         /\ buf' = [buf EXCEPT ![e] = Append(@, pkt)]
                         /\ UNCHANGED <<bufErr, net>>
                   /\ recent' = [recent EXCEPT ![e][ch] = @ + 1]
                   /\ flushSet' = [flushSet EXCEPT ![e] = running[e]]
                   /\ batch' = [batch EXCEPT ![e] = @ - 1]
                   /\ IF batch[e] > 1
                      THEN UNCHANGED <<sender, token>>
                      ELSE /\ NextCase(e)
                           /\ token' = [token EXCEPT ![e] = TRUE]
                   /\ UNCHANGED connVars
                \/ /\ FlushFails(e, <<pkt>>)
                   /\ stopForError(e)
                   /\ sender' = [sender EXCEPT ![e] = "done"]
                   /\ flushSet' = [flushSet EXCEPT ![e] = FALSE]
                   /\ batch' = [batch EXCEPT ![e] = 0]
                   /\ UNCHANGED <<recent, token>>
    /\ UNCHANGED <<calls, waking, accepted, pings, recvVars>>

\* sendMsgPacket with nothing to send ends the batch.
SendExhausted(e) ==
    /\ sender[e] = "batch"
    /\ Pending(e) = {}
    /\ NextCase(e)
    /\ batch' = [batch EXCEPT ![e] = 0]
    /\ UNCHANGED <<sending, recent, token, buf, bufErr, flushSet, net, pings,
                   connVars, chanVars, recvVars>>

-----------------------------------------------------------------------------
(* recvRoutine.                                                            *)

\* Mutant of RecvEnds: the connection is not stopped.
RecvEndsAlone(e, how) ==
    /\ receiver' = [receiver EXCEPT ![e] = how]
    /\ UNCHANGED <<connVars, flushSet>>

\* recvRoutine ends; it stops the connection unless that was done already.
RecvEnds(e, how) ==
    /\ receiver' = [receiver EXCEPT ![e] = how]
    /\ IF running[e] THEN stopForError(e) ELSE UNCHANGED connVars
    /\ flushSet' = [flushSet EXCEPT ![e] = FALSE]

\* recvMsgPacket, and onReceive for a message that is complete.
RecvMsg(e, pkt) ==
    LET bytes == recving[e][pkt.ch] \o pkt.bytes
    IN  IF Len(bytes) > RecvCap[pkt.ch]
        THEN RecvEnds(e, "done") /\ UNCHANGED <<recving, delivered>>
        ELSE /\ recving' = [recving EXCEPT ![e][pkt.ch] = IF pkt.eof THEN <<>> ELSE bytes]
             /\ delivered' = IF pkt.eof
                             THEN [delivered EXCEPT ![e][pkt.ch] = Append(@, bytes)]
                             ELSE delivered
             /\ UNCHANGED <<receiver, connVars, flushSet>>

\* A packet arrives.  What bufReader holds is read even after Stop.
RecvPacket(e) ==
    /\ receiver[e] = "read" /\ net[Other(e)] # <<>>
    /\ net' = [net EXCEPT ![Other(e)] = Tail(@)]
    /\ LET pkt == Head(net[Other(e)])
       IN  \/ /\ pkt.type = "ping"
              /\ receiver' = [receiver EXCEPT ![e] = "pong"]
              /\ UNCHANGED <<recving, delivered, connVars, flushSet>>
           \/ /\ pkt.type = "pong"
              /\ UNCHANGED <<recvVars, connVars, flushSet>>
           \/ pkt.type = "msg" /\ RecvMsg(e, pkt)
    /\ UNCHANGED <<sending, recent, token, sender, batch, buf, bufErr, pings, chanVars>>

\* Reading fails: the socket is closed on one of the two sides.
RecvError(e) ==
    /\ receiver[e] = "read" /\ (closed[e] \/ closed[Other(e)])
    /\ RecvEnds(e, "done")
    /\ UNCHANGED <<recving, delivered, sending, recent, token, sender, batch, buf,
                   bufErr, net, pings, chanVars>>

\* An unknown channel or type, or a panic in onReceive: _recover stops the
\* connection and pong stays open.
RecvPanic(e) ==
    /\ e \in MayPanic
    /\ receiver[e] = "read" /\ net[Other(e)] # <<>>
    /\ receiver' = [receiver EXCEPT ![e] = "panicked"]
    /\ stopForError(e)
    /\ flushSet' = [flushSet EXCEPT ![e] = FALSE]
    /\ UNCHANGED <<recving, delivered, sending, recent, token, sender, batch, buf,
                   bufErr, net, pings, chanVars>>

-----------------------------------------------------------------------------
Callers(e) == \E ch \in Channels : SendBytes(e, ch) \/ SendFails(e, ch) \/ Wake(e, ch)

sendRoutine(e) ==
    \/ SendFlush(e) \/ SendStats(e) \/ SendPing(e) \/ SendPong(e) \/ SendQuit(e)
    \/ SendBatch(e) \/ SendPacket(e) \/ SendExhausted(e)

recvRoutine(e) == RecvPacket(e) \/ RecvError(e) \/ RecvPanic(e)

Next == \E e \in Ends : Callers(e) \/ sendRoutine(e) \/ recvRoutine(e) \/ Stop(e)

Spec == Init /\ [][Next]_vars

\* What sendRoutine has to do, as opposed to the cases of its timers.
SendWork(e) ==
    \/ SendFlush(e) \/ SendPong(e) \/ SendQuit(e)
    \/ SendBatch(e) \/ SendPacket(e) \/ SendExhausted(e)

\* The callers and the two goroutines go on, and select, which takes one of its
\* ready cases at random, does not forever prefer the timers to the work.
Fairness ==
    \A e \in Ends : /\ WF_vars(\E ch \in Channels : Wake(e, ch))
                    /\ WF_vars(SendWork(e))
                    /\ WF_vars(recvRoutine(e))

FairSpec == Spec /\ Fairness

-----------------------------------------------------------------------------
(* Properties.                                                             *)

TypeOK ==
    /\ running \in [Ends -> BOOLEAN] /\ closed \in [Ends -> BOOLEAN]
    /\ onErrors \in [Ends -> 0 .. 1]
    /\ sender \in [Ends -> {"select", "batch", "done"}]
    /\ \A e \in Ends : batch[e] \in IF sender[e] = "batch" THEN 1 .. NumBatch ELSE {0}
    /\ receiver \in [Ends -> {"read", "pong", "done", "panicked"}]
    /\ \A e \in Ends, ch \in Channels : /\ Len(queue[e][ch]) <= QueueCap[ch]
                                        /\ queueSize[e][ch] \in Int
                                        /\ Len(recving[e][ch]) <= RecvCap[ch]

\* On every channel the messages arrive whole, unchanged, in the order in which
\* Send and TrySend accepted them, and without gaps, however the packets of the
\* channels are interleaved and whenever the connection is stopped.
InOrderDelivery ==
    \A e \in Ends, ch \in Channels :
        LET n == Len(delivered[Other(e)][ch])
        IN  /\ n <= Len(accepted[e][ch])
            /\ delivered[Other(e)][ch] = SubSeq(accepted[e][ch], 1, n)

\* sendQueueSize, which is raised after a message is queued and lowered when its
\* last packet is made, counts the queued and the half-sent messages, up to the
\* callers that have not counted theirs yet.
QueueSizeExact ==
    \A e \in Ends, ch \in Channels :
        queueSize[e][ch] = Len(queue[e][ch])
                           + (IF sending[e][ch] # <<>> THEN 1 ELSE 0)
                           - (IF waking[e][ch] THEN 1 ELSE 0)

\* A message was accepted but not delivered yet, and both ends run.
Undelivered ==
    /\ \A e \in Ends : running[e]
    /\ \E e \in Ends, ch \in Channels : Len(delivered[Other(e)][ch]) < Len(accepted[e][ch])

\* Every accepted message is delivered as long as both ends run: no wake-up of
\* sendRoutine is lost, no written packet is left unflushed in bufWriter, and
\* the wait of recvRoutine for its pong does not block the two ends.
AcceptedIsDelivered == Undelivered ~> ~Undelivered

\* When one end closes the connection, both stop, and both sendRoutines return.
CloseIsNoticed ==
    (\E e \in Ends : closed[e]) ~> (\A e \in Ends : ~running[e] /\ sender[e] = "done")
=============================================================================
