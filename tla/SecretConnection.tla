-------------------------- MODULE SecretConnection --------------------------
(***************************************************************************)
(* Both ends of an encrypted connection                                    *)
(* (src/p2p/connection/secret_connection.go): the handshake, the cutting   *)
(* of written data into frames, the nonces, and the reader's buffer.       *)
(*                                                                         *)
(* At each end the handshake runs its write and its read in parallel       *)
(* (cmn.Parallel), and later the send and the receive routine of the       *)
(* MConnection write and read; so an end is a writer and a reader.  Each   *)
(* direction of the transport holds a bounded number of items, and a write *)
(* into a full one blocks.  A byte is named by its position in the stream  *)
(* that its end writes; the auth message makes up the first bytes.         *)
(***************************************************************************)
EXTENDS Integers, Sequences

CONSTANTS
    DataMax,    \* dataMaxSize
    AuthSize,   \* authSigMsgSize
    NonceMod,   \* number of nonces: 2^192 in the code
    PipeCap,    \* what the transport holds in each direction
    Writes,     \* what each end writes after the handshake: sizes, in order
    ReadSizes,  \* sizes of the buffers its reader may pass to Read
    Ephs,       \* ephemeral public keys, as numbers
    Hashes,     \* what hash24 may return
    MayFail     \* whether the transport may fail

Ends == {"a", "b"}
Other(e) == IF e = "a" THEN "b" ELSE "a"

ASSUME SizeAssumption ==
    /\ {DataMax, AuthSize, PipeCap} \subseteq Nat \ {0}
    /\ Writes \in [Ends -> Seq(Nat \ {0})]
    /\ ReadSizes \subseteq Nat \ {0}
ASSUME NonceAssumption ==
    /\ NonceMod \in Nat \ {0} /\ NonceMod % 2 = 0
    /\ Hashes \subseteq 0 .. NonceMod - 1
    /\ Ephs \subseteq Nat

VARIABLES
    eph,        \* local ephemeral key of each end
    hash,       \* the value of hash24 on the two keys, low one first
    phase,      \* "eph", "auth", "open" or "closed": how far MakeSecretConnection is
    remote,     \* the ephemeral key received, in a set of at most one
    out,        \* what the current call of Write has not yet sent
    todo,       \* writes yet to be made
    next,       \* position in its stream of the next byte an end writes
    sendNonce, recvNonce,
    recvBuffer,
    pipe,       \* what is on its way from each end to the other
    got,        \* bytes that the calls of Read have returned
    up,         \* the transport works
    sealed,     \* history: the nonces with which each end has sealed a frame
    short       \* history: ends that read with a buffer shorter than a chunk

vars == <<eph, hash, phase, remote, out, todo, next, sendNonce, recvNonce, recvBuffer,
          pipe, got, up, sealed, short>>

-----------------------------------------------------------------------------
(* Nonces.                                                                 *)

sort32(foo, bar) == IF foo < bar THEN [lo |-> foo, hi |-> bar] ELSE [lo |-> bar, hi |-> foo]

\* The last bit of the nonce inverted: ^= 0x01.
Flip(n) == IF n % 2 = 0 THEN n + 1 ELSE n - 1

\* Mutant of genNonces: both ends take the nonces in the same order.
genNoncesAlike(nonce1, locIsLo) == [recv |-> nonce1, send |-> Flip(nonce1)]

genNonces(nonce1, locIsLo) ==
    IF locIsLo THEN [recv |-> nonce1, send |-> Flip(nonce1)]
               ELSE [recv |-> Flip(nonce1), send |-> nonce1]

incrNonce(n) == (n + 1) % NonceMod

incr2Nonce(n) == incrNonce(incrNonce(n))

-----------------------------------------------------------------------------
(* The handshake.                                                          *)

Init ==
    /\ eph \in {k \in [Ends -> Ephs] : k["a"] # k["b"]}
    /\ hash \in Hashes
    /\ phase = [e \in Ends |-> "eph"]
    /\ remote = [e \in Ends |-> {}]
    /\ out = [e \in Ends |-> <<>>]
    /\ todo = [e \in Ends |-> <<"eph">>]
    /\ next = [e \in Ends |-> 1]
    /\ sendNonce = [e \in Ends |-> 0] /\ recvNonce = [e \in Ends |-> 0]
    /\ recvBuffer = [e \in Ends |-> <<>>]
    /\ pipe = [e \in Ends |-> <<>>]
    /\ got = [e \in Ends |-> <<>>]
    /\ up = TRUE
    /\ sealed = [e \in Ends |-> <<>>] /\ short = {}

Positions(from, n) == [i \in 1 .. n |-> from + i - 1]

\* Mutant of WriteEph: the key is written after the other one has been read.
WriteEphLater(e) ==
    /\ up /\ phase[e] = "eph" /\ todo[e] # <<>> /\ Len(pipe[e]) < PipeCap
    /\ remote[e] # {}
    /\ pipe' = [pipe EXCEPT ![e] = Append(@, [nonce |-> eph[e], data |-> <<>>])]
    /\ todo' = [todo EXCEPT ![e] = <<>>]
    /\ UNCHANGED <<eph, hash, phase, remote, out, next, sendNonce, recvNonce, recvBuffer,
                   got, up, sealed, short>>

\* shareEphPubKey: the writing and the reading goroutine.
WriteEph(e) ==
    /\ up /\ phase[e] = "eph" /\ todo[e] # <<>> /\ Len(pipe[e]) < PipeCap
    /\ pipe' = [pipe EXCEPT ![e] = Append(@, [nonce |-> eph[e], data |-> <<>>])]
    /\ todo' = [todo EXCEPT ![e] = <<>>]
    /\ UNCHANGED <<eph, hash, phase, remote, out, next, sendNonce, recvNonce, recvBuffer,
                   got, up, sealed, short>>

ReadEph(e) ==
    /\ up /\ phase[e] = "eph" /\ remote[e] = {} /\ pipe[Other(e)] # <<>>
    /\ remote' = [remote EXCEPT ![e] = {Head(pipe[Other(e)]).nonce}]
    /\ pipe' = [pipe EXCEPT ![Other(e)] = Tail(@)]
    /\ UNCHANGED <<eph, hash, phase, out, todo, next, sendNonce, recvNonce, recvBuffer,
                   got, up, sealed, short>>

\* Both have ended: sort the keys, derive the nonces, and begin to share the
\* signature of the challenge.
StartAuth(e) ==
    /\ phase[e] = "eph" /\ todo[e] = <<>>
    /\ \E rem \in remote[e] :
        LET n == genNonces(hash, eph[e] = sort32(eph[e], rem).lo)
        IN  /\ sendNonce' = [sendNonce EXCEPT ![e] = n.send]
            /\ recvNonce' = [recvNonce EXCEPT ![e] = n.recv]
    /\ phase' = [phase EXCEPT ![e] = "auth"]
    /\ out' = [out EXCEPT ![e] = Positions(1, AuthSize)]
    /\ next' = [next EXCEPT ![e] = AuthSize + 1]
    /\ UNCHANGED <<eph, hash, remote, todo, recvBuffer, pipe, got, up, sealed, short>>

\* shareAuthSignature has written and read; the signature of the challenge, a
\* hash of the two keys, verifies if its bytes came through.
FinishAuth(e) ==
    /\ phase[e] = "auth" /\ out[e] = <<>> /\ Len(got[e]) = AuthSize
    /\ IF got[e] = Positions(1, AuthSize)
       THEN /\ phase' = [phase EXCEPT ![e] = "open"]
            /\ todo' = [todo EXCEPT ![e] = Writes[e]]
            /\ UNCHANGED up
       ELSE /\ phase' = [phase EXCEPT ![e] = "closed"]
            /\ up' = FALSE
            /\ UNCHANGED todo
    /\ UNCHANGED <<eph, hash, remote, out, next, sendNonce, recvNonce, recvBuffer, pipe,
                   got, sealed, short>>

-----------------------------------------------------------------------------
(* Write and Read.                                                         *)

\* The caller begins a Write once the last one has returned.
StartWrite(e) ==
    /\ phase[e] = "open" /\ out[e] = <<>> /\ todo[e] # <<>>
    /\ out' = [out EXCEPT ![e] = Positions(next[e], Head(todo[e]))]
    /\ next' = [next EXCEPT ![e] = @ + Head(todo[e])]
    /\ todo' = [todo EXCEPT ![e] = Tail(@)]
    /\ UNCHANGED <<eph, hash, phase, remote, sendNonce, recvNonce, recvBuffer, pipe, got,
                   up, sealed, short>>

\* One turn of the loop of Write: a chunk is cut off, sealed and sent.
Chunk(data) == SubSeq(data, 1, IF DataMax < Len(data) THEN DataMax ELSE Len(data))

\* Mutant of Write: the byte after a full chunk is skipped.
WriteSkips(e) ==
    /\ up /\ out[e] # <<>> /\ Len(pipe[e]) < PipeCap
    /\ LET chunk == Chunk(out[e]) IN
        /\ pipe' = [pipe EXCEPT ![e] = Append(@, [nonce |-> sendNonce[e], data |-> chunk])]
        /\ out' = [out EXCEPT ![e] = SubSeq(@, Len(chunk) + 2, Len(@))]
    /\ sealed' = [sealed EXCEPT ![e] = Append(@, sendNonce[e])]
    /\ sendNonce' = [sendNonce EXCEPT ![e] = incr2Nonce(@)]
    /\ UNCHANGED <<eph, hash, phase, remote, todo, next, recvNonce, recvBuffer, got, up, short>>

Write(e) ==
    /\ up /\ out[e] # <<>> /\ Len(pipe[e]) < PipeCap
    /\ LET chunk == Chunk(out[e]) IN
        /\ pipe' = [pipe EXCEPT ![e] = Append(@, [nonce |-> sendNonce[e], data |-> chunk])]
        /\ out' = [out EXCEPT ![e] = SubSeq(@, Len(chunk) + 1, Len(@))]
    /\ sealed' = [sealed EXCEPT ![e] = Append(@, sendNonce[e])]
    /\ sendNonce' = [sendNonce EXCEPT ![e] = incr2Nonce(@)]
    /\ UNCHANGED <<eph, hash, phase, remote, todo, next, recvNonce, recvBuffer, got, up, short>>

\* Read into a buffer of k bytes.  Bytes that are left from an earlier frame are
\* copied and taken from recvBuffer, and the call returns 0.
Take(s, k) == SubSeq(s, 1, IF k < Len(s) THEN k ELSE Len(s))
Drop(s, k) == SubSeq(s, k + 1, Len(s))

ReadLeft(e, k) ==
    /\ recvBuffer[e] # <<>>
    /\ recvBuffer' = [recvBuffer EXCEPT ![e] = Drop(@, k)]
    /\ UNCHANGED <<recvNonce, pipe, got, phase, up, short>>

ReadFrame(e, k) ==
    /\ up /\ recvBuffer[e] = <<>> /\ pipe[Other(e)] # <<>>
    /\ LET frame == Head(pipe[Other(e)]) IN
        IF frame.nonce = recvNonce[e]
        THEN /\ recvNonce' = [recvNonce EXCEPT ![e] = incr2Nonce(@)]
             /\ got' = [got EXCEPT ![e] = @ \o Take(frame.data, k)]
             /\ recvBuffer' = [recvBuffer EXCEPT ![e] = Drop(frame.data, k)]
             /\ short' = IF k < Len(frame.data) THEN short \cup {e} ELSE short
             /\ UNCHANGED <<phase, up>>
        ELSE /\ phase' = [phase EXCEPT ![e] = "closed"]   \* "Failed to decrypt"
             /\ up' = FALSE
             /\ UNCHANGED <<recvNonce, got, recvBuffer, short>>
    /\ pipe' = [pipe EXCEPT ![Other(e)] = Tail(@)]

\* io.ReadFull in shareAuthSignature, and the reads of the MConnection.
Read(e) ==
    /\ \/ phase[e] = "auth" /\ \E k \in {AuthSize - Len(got[e])} \ {0} :
            ReadLeft(e, k) \/ ReadFrame(e, k)
       \/ phase[e] = "open" /\ \E k \in ReadSizes : ReadLeft(e, k) \/ ReadFrame(e, k)
    /\ UNCHANGED <<eph, hash, remote, out, todo, next, sendNonce, sealed>>

\* The transport fails: reads and writes return the error, and the ends close.
Fail ==
    /\ MayFail /\ up
    /\ up' = FALSE
    /\ UNCHANGED <<eph, hash, phase, remote, out, todo, next, sendNonce, recvNonce,
                   recvBuffer, pipe, got, sealed, short>>

CloseAfterError(e) ==
    /\ ~up /\ phase[e] # "closed" /\ recvBuffer[e] = <<>>
    /\ phase' = [phase EXCEPT ![e] = "closed"]
    /\ out' = [out EXCEPT ![e] = <<>>]
    /\ todo' = [todo EXCEPT ![e] = <<>>]
    /\ UNCHANGED <<eph, hash, remote, next, sendNonce, recvNonce, recvBuffer, pipe, got,
                   up, sealed, short>>

Step(e) ==
    \/ WriteEph(e) \/ ReadEph(e) \/ StartAuth(e) \/ FinishAuth(e)
    \/ StartWrite(e) \/ Write(e) \/ Read(e) \/ CloseAfterError(e)

Next == Fail \/ \E e \in Ends : Step(e)

Spec == Init /\ [][Next]_vars

\* Both ends' goroutines run: what an end can do, it does in the end.  The
\* writer does not starve the reader of the same end, nor the other way round.
FairSpec ==
    /\ Spec
    /\ \A e \in Ends :
        /\ WF_vars(Read(e) \/ ReadEph(e))
        /\ WF_vars(WriteEph(e) \/ StartWrite(e) \/ Write(e))
        /\ WF_vars(StartAuth(e) \/ FinishAuth(e) \/ CloseAfterError(e))

-----------------------------------------------------------------------------
(* Properties.                                                             *)

TypeOK ==
    /\ phase \in [Ends -> {"eph", "auth", "open", "closed"}]
    /\ sendNonce \in [Ends -> 0 .. NonceMod - 1] /\ recvNonce \in [Ends -> 0 .. NonceMod - 1]
    /\ out \in [Ends -> Seq(Nat)] /\ recvBuffer \in [Ends -> Seq(Nat)] /\ got \in [Ends -> Seq(Nat)]
    /\ next \in [Ends -> Nat \ {0}] /\ up \in BOOLEAN
    /\ \A e \in Ends : Len(pipe[e]) <= PipeCap /\ remote[e] \subseteq Ephs

\* Under one shared secret no nonce is used by both ends, and by one end only
\* after it has used up its half of them, NonceMod \div 2: the two directions start
\* one bit apart and move in steps of two, also across the wrap-around.
NoncesFresh ==
    \A e, f \in Ends : \A i \in 1 .. Len(sealed[e]), j \in 1 .. Len(sealed[f]) :
        sealed[e][i] = sealed[f][j] => e = f /\ (i - j) % (NonceMod \div 2) = 0

\* The frames on their way are sealed with the nonces that the receiving end will
\* use for them: both ends derive matching nonces from their own view of the
\* handshake and stay in step, so between two correct ends no frame fails to open.
NoncesInStep ==
    \A e \in Ends : \A i \in 1 .. Len(pipe[e]) :
        phase[Other(e)] \in {"auth", "open"} =>
            pipe[e][i].nonce = (recvNonce[Other(e)] + 2 * (i - 1)) % NonceMod

\* The nonces of the two ends are fresh and in step.
NoncesAgree == NoncesFresh /\ NoncesInStep

\* What Read returns is what the other end wrote, without gaps, repetitions or
\* changes in order, however writes are cut into frames, as long as no read has
\* a buffer shorter than a chunk.  After a shorter one ReadLeft loses bytes: it
\* returns 0.  The readers of this program have buffers of dataMaxSize bytes or
\* read just what one Write wrote.
StreamIntact == \A e \in Ends \ short : got[e] = Positions(1, Len(got[e]))

\* What is written is read, unless the transport fails or a buffer is too short.
\* So the handshake does not lock up either, though each end writes before the
\* other may have read and the transport holds little: both run in parallel.
StreamArrives ==
    \A e \in Ends :
        <>(\/ ~up \/ Other(e) \in short
           \/ phase[e] = "open" /\ todo[e] = <<>> /\ Len(got[Other(e)]) = next[e] - 1)
=============================================================================
