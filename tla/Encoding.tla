------------------------------ MODULE Encoding ------------------------------
(***************************************************************************)
(* The encoding of the primitives in blocks and transactions               *)
(* (src/encoding/blockchain/blockchain.go) as functions on byte sequences. *)
(*                                                                         *)
(* A Reader is the sequence of its unread bytes, a writer the sequence of  *)
(* what was written.  Every function returns whether it succeeded, its     *)
(* value, and the reader or writer as it leaves it.                        *)
(***************************************************************************)
EXTENDS Integers, Sequences

CONSTANTS
    Base,       \* 128 in the code: a byte from Base on says that more follow
    MaxInt31,   \* math.MaxInt32
    MaxInt63    \* math.MaxInt64

ASSUME BaseAssumption == Base \in Nat /\ Base > 1
ASSUME RangeAssumption == MaxInt31 \in Nat /\ MaxInt63 \in Nat /\ MaxInt31 <= MaxInt63

Byte == 0 .. 2 * Base - 1
Reader == Seq(Byte)

Ok(v, s) == [ok |-> TRUE, val |-> v, rest |-> s]
Err == [ok |-> FALSE]

\* The next call, which the code makes only when the one before succeeded.
Then(r, Call(_, _)) == IF r.ok THEN Call(r.val, r.rest) ELSE Err

-----------------------------------------------------------------------------
(* Reading.                                                                *)

\* io.ReadFull of n bytes through Reader.Read.
ReadFull(buf, n) ==
    IF n > Len(buf) THEN Err ELSE Ok(SubSeq(buf, 1, n), SubSeq(buf, n + 1, Len(buf)))

\* binary.ReadUvarint: groups of digits, the lowest first.  Its limit of ten
\* bytes only refuses numbers, or paddings with zeros, beyond the model's.
RECURSIVE ReadUvarint(_)
ReadUvarint(buf) ==
    IF buf = <<>> THEN Err
    ELSE IF Head(buf) < Base THEN Ok(Head(buf), Tail(buf))
    ELSE Then(ReadUvarint(Tail(buf)),
              LAMBDA v, s : Ok(Head(buf) - Base + Base * v, s))

ReadVarint31(buf) ==
    Then(ReadUvarint(buf), LAMBDA v, s : IF v > MaxInt31 THEN Err ELSE Ok(v, s))

ReadVarint63(buf) ==
    Then(ReadUvarint(buf), LAMBDA v, s : IF v > MaxInt63 THEN Err ELSE Ok(v, s))

ReadVarstr31(buf) == Then(ReadVarint31(buf), LAMBDA n, s : ReadFull(s, n))

\* A loop that reads n elements and stops at the first error.  The argument
\* read is a function on readers.
ReadMany(read, n, buf) ==
    LET loop[i \in 0 .. n] ==
            IF i = 0 THEN Ok(<<>>, buf)
            ELSE Then(loop[i - 1], LAMBDA vs, s :
                      Then(read[s], LAMBDA v, t : Ok(Append(vs, v), t)))
    IN  loop[n]

ReadVarstrList(buf) ==
    Then(ReadVarint31(buf), LAMBDA n, s :
         ReadMany([r \in Reader |-> ReadVarstr31(r)], n, s))

\* What read leaves of the string is the suffix.
ReadExtensibleString(read, buf) ==
    Then(ReadVarstr31(buf), LAMBDA str, s :
         Then(read[str], LAMBDA v, suffix : Ok([in |-> v, suffix |-> suffix], s)))

-----------------------------------------------------------------------------
(* Writing.                                                                *)

Write(w, bytes) == Ok(Len(bytes), w \o bytes)

RECURSIVE PutUvarint(_)
PutUvarint(v) ==
    IF v < Base THEN <<v>> ELSE <<Base + (v % Base)>> \o PutUvarint(v \div Base)

WriteVarint31(w, v) == IF v > MaxInt31 THEN Err ELSE Write(w, PutUvarint(v))

WriteVarint63(w, v) == IF v > MaxInt63 THEN Err ELSE Write(w, PutUvarint(v))

WriteVarstr31(w, str) ==
    Then(WriteVarint31(w, Len(str)), LAMBDA n, v : Write(v, str))

\* A loop that writes the parts, each of which is what one call would write.
WriteMany(w, parts) ==
    LET loop[i \in 0 .. Len(parts)] ==
            IF i = 0 THEN Ok(0, w)
            ELSE Then(loop[i - 1], LAMBDA n, v :
                      Then(parts[i], LAMBDA k, bytes : Write(v, bytes)))
    IN  loop[Len(parts)]

WriteVarstrList(w, l) ==
    Then(WriteVarint31(w, Len(l)), LAMBDA n, v :
         WriteMany(v, [i \in DOMAIN l |-> WriteVarstr31(<<>>, l[i])]))

\* The body is what the given function wrote into a buffer of its own.
WriteExtensibleString(w, suffix, body) ==
    Then(body, LAMBDA n, str : WriteVarstr31(w, str \o suffix))
=============================================================================
