------------------------ MODULE MConnectionProofs ------------------------
(***************************************************************************)
(* Proofs about p2p/connection/connection.go for any number of channels,   *)
(* messages of any lengths, packets of any size and queues of any          *)
(* capacity: the count of queued messages that CanSend and Status read,    *)
(* and delivery in order.                                                  *)
(*                                                                         *)
(* One direction of one channel is a stream: the messages that Send and    *)
(* TrySend accepted are one stream of bytes, and a position of it is a     *)
(* number of whole messages and a number of bytes of the next.  The        *)
(* receiver of a channel stands at the position of what it has delivered   *)
(* and put together, the sender at the one of what it has not made packets *)
(* of, and the packets between them, on the socket and in the buffered     *)
(* writer, lead from the one to the other.  The first lemmas say that      *)
(* every operation on the stream keeps that.  The next ones are about the  *)
(* types and about what each kind of step does to a channel.  Then every   *)
(* step of either end, on any channel, keeps sender, packets and receiver  *)
(* of each channel linked, until the writer fails (then the sender no      *)
(* longer matters) or the receiver gives up (then it delivers nothing      *)
(* more).                                                                  *)
(***************************************************************************)
EXTENDS MConnection, TLAPS, SequenceTheorems

\* A leaf is tried with SMT and Zenon, and then again with more time.
USE SMT, Zenon, SMTT(40), ZenonT(40), Z3T(40)

\* A byte is the number of its message and its place in it.
Byte == Nat \X Nat
Msgs == Seq(Byte) \ {<<>>}
Packet == [type : {"ping"}] \cup [type : {"pong"}]
          \cup [type : {"msg"}, ch : Channels, eof : BOOLEAN, bytes : Seq(Byte)]

-----------------------------------------------------------------------------
(* The stream of one channel.  A position in it is the number m of         *)
(* messages before it and the number o of bytes of the next one.           *)

Pos == [m : Nat, o : Nat]

\* The packet pkt carries the stream of the messages A from p to q.
Carries(A, p, pkt, q) ==
    LET n == Len(pkt.bytes)
    IN  /\ p.m < Len(A) /\ p.o + n <= Len(A[p.m + 1])
        /\ \A i \in 1 .. n : pkt.bytes[i] = A[p.m + 1][p.o + i]
        /\ pkt.eof <=> p.o + n = Len(A[p.m + 1])
        /\ q = IF pkt.eof THEN [m |-> p.m + 1, o |-> 0] ELSE [m |-> p.m, o |-> p.o + n]

\* at gives the positions of channel ch before and after the packets of P.
Chain(A, P, ch, at) ==
    /\ at \in [0 .. Len(P) -> Pos]
    /\ \A k \in 1 .. Len(P) :
         IF P[k].type = "msg" /\ P[k].ch = ch THEN Carries(A, at[k - 1], P[k], at[k])
                                              ELSE at[k] = at[k - 1]

\* A receiver that delivered D and holds R stands at p, and a sender with S in
\* hand and Q queued does.
RecvAt(A, D, R, p) ==
    /\ Len(D) = p.m /\ p.m <= Len(A)
    /\ \A j \in 1 .. p.m : D[j] = A[j]
    /\ Len(R) = p.o
    /\ p.o > 0 => p.m < Len(A)
    /\ \A i \in 1 .. p.o : R[i] = A[p.m + 1][i]

SendAt(A, S, Q, p) ==
    IF S = <<>>
    THEN /\ p.o = 0 /\ p.m + Len(Q) = Len(A)
         /\ \A j \in 1 .. Len(Q) : Q[j] = A[p.m + j]
    ELSE /\ p.m + 1 + Len(Q) = Len(A)
         /\ \A j \in 1 .. Len(Q) : Q[j] = A[p.m + 1 + j]
         /\ p.o + Len(S) = Len(A[p.m + 1])
         /\ \A i \in 1 .. Len(S) : S[i] = A[p.m + 1][p.o + i]

\* One more message is accepted.
LEMMA AcceptChain ==
  ASSUME NEW A \in Seq(Msgs), NEW msg \in Msgs, NEW P, NEW ch, NEW at,
         Chain(A, P, ch, at), Len(P) \in Nat
  PROVE  Chain(Append(A, msg), P, ch, at)
<1> DEFINE B == Append(A, msg)
<1>1. Len(B) = Len(A) + 1 /\ \A j \in 1 .. Len(A) : B[j] = A[j] OBVIOUS
<1>2. ASSUME NEW p \in Pos, NEW q, NEW pkt, Carries(A, p, pkt, q) PROVE Carries(B, p, pkt, q)
  <2>1. p.m \in Nat /\ p.m < Len(A) BY <1>2 DEF Carries, Pos
  <2>2. p.m + 1 \in 1 .. Len(A) /\ p.m < Len(B) BY <1>1, <2>1
  <2>3. B[p.m + 1] = A[p.m + 1] BY <1>1, <2>2
  <2> QED BY <1>2, <2>2, <2>3 DEF Carries
<1>3. \A k \in 1 .. Len(P) : at[k - 1] \in Pos BY DEF Chain
<1> HIDE DEF B
<1>4. ASSUME NEW k \in 1 .. Len(P)
      PROVE  IF P[k].type = "msg" /\ P[k].ch = ch THEN Carries(B, at[k - 1], P[k], at[k])
                                              ELSE at[k] = at[k - 1]
  BY <1>2, <1>3 DEF Chain
<1> QED BY <1>4 DEF Chain, B

\* One more accepted message does not move the receiver ...
LEMMA AcceptRecvAt ==
  ASSUME NEW A \in Seq(Msgs), NEW msg \in Msgs, NEW D, NEW R, NEW p \in Pos,
         RecvAt(A, D, R, p)
  PROVE  RecvAt(Append(A, msg), D, R, p)
  BY DEF RecvAt, Pos

\* ... nor the sender, for which it is one more queued message.
LEMMA AcceptSendAt ==
  ASSUME NEW A \in Seq(Msgs), NEW msg \in Msgs, NEW S \in Seq(Byte), NEW Q \in Seq(Msgs),
         NEW p \in Pos, SendAt(A, S, Q, p)
  PROVE  SendAt(Append(A, msg), S, Append(Q, msg), p)
<1> DEFINE B == Append(A, msg)
           U == Append(Q, msg)
<1>1. /\ Len(B) = Len(A) + 1 /\ \A j \in 1 .. Len(A) : B[j] = A[j]
      /\ B[Len(A) + 1] = msg
  OBVIOUS
<1>2. /\ Len(U) = Len(Q) + 1 /\ \A j \in 1 .. Len(Q) : U[j] = Q[j]
      /\ U[Len(Q) + 1] = msg
  OBVIOUS
<1>3. p.m \in Nat /\ p.o \in Nat /\ Len(Q) \in Nat /\ Len(A) \in Nat BY DEF Pos
<1> HIDE DEF B, U
<1>4. CASE S = <<>>
  BY <1>1, <1>2, <1>3, <1>4 DEF SendAt, B, U
<1>5. CASE S # <<>>
  <2>1. /\ p.m + 1 + Len(Q) = Len(A)
        /\ \A j \in 1 .. Len(Q) : Q[j] = A[p.m + 1 + j]
        /\ p.o + Len(S) = Len(A[p.m + 1])
        /\ \A i \in 1 .. Len(S) : S[i] = A[p.m + 1][p.o + i]
    BY <1>5 DEF SendAt
  <2>2. p.m + 1 + Len(Q) = Len(A) BY <2>1
  <2>3. p.m + 1 + (Len(Q) + 1) = Len(A) + 1
    <3> DEFINE x == p.m
               y == Len(Q)
               z == Len(A)
    <3>1. x \in Nat /\ y \in Nat /\ z \in Nat /\ x + 1 + y = z BY <1>3, <2>2
    <3> HIDE DEF x, y, z
    <3>2. x + 1 + (y + 1) = z + 1 BY <3>1
    <3> QED BY <3>2 DEF x, y, z
  <2>4. p.m + 1 \in 1 .. Len(A) BY <1>3, <2>2
  <2>5. B[p.m + 1] = A[p.m + 1] BY <1>1, <2>4
  <2>6. ASSUME NEW j \in 1 .. Len(U) PROVE U[j] = B[p.m + 1 + j]
    <3>1. CASE j = Len(Q) + 1
      <4>1. p.m + 1 + j = Len(A) + 1 BY <2>3, <3>1
      <4> QED BY <1>1, <1>2, <3>1, <4>1
    <3>2. CASE j # Len(Q) + 1
      <4>1. j \in 1 .. Len(Q) /\ p.m + 1 + j \in 1 .. Len(A)
        <5>1. Len(U) = Len(Q) + 1 BY <1>2
        <5> QED BY <1>3, <2>2, <3>2, <5>1
      <4> QED BY <1>1, <1>2, <2>1, <4>1, Zenon
    <3> QED BY <3>1, <3>2
  <2>7. p.m + 1 + Len(U) = Len(B)
    <3>1. Len(U) = Len(Q) + 1 /\ Len(B) = Len(A) + 1 BY <1>1, <1>2
    <3> QED BY <2>3, <3>1
  <2>8. SendAt(B, S, U, p) BY <1>5, <2>1, <2>5, <2>6, <2>7 DEF SendAt
  <2> QED BY <2>8 DEF B, U
<1> QED BY <1>4, <1>5

\* isSendPending takes the next message.
LEMMA PullSendAt ==
  ASSUME NEW A \in Seq(Msgs), NEW Q \in Seq(Msgs), Q # <<>>, NEW p \in Pos,
         SendAt(A, <<>>, Q, p)
  PROVE  SendAt(A, Head(Q), Tail(Q), p)
<1>1. /\ Head(Q) = Q[1] /\ Head(Q) \in Msgs /\ Len(Q) \in Nat \ {0}
      /\ Len(Tail(Q)) = Len(Q) - 1
      /\ \A j \in 1 .. Len(Q) - 1 : Tail(Q)[j] = Q[j + 1]
  OBVIOUS
<1>2. p.m \in Nat /\ p.o = 0 /\ p.m + Len(Q) = Len(A) BY DEF SendAt, Pos
<1>3. \A j \in 1 .. Len(Q) : Q[j] = A[p.m + j] BY DEF SendAt
<1>4. Q[1] = A[p.m + 1] BY <1>1, <1>3
<1>5. Head(Q) # <<>> /\ Len(Head(Q)) \in Nat BY <1>1 DEF Msgs
<1>6. \A j \in 1 .. Len(Tail(Q)) : Tail(Q)[j] = A[p.m + 1 + j]
  BY <1>1, <1>2, <1>3
<1>7. p.o + Len(Head(Q)) = Len(A[p.m + 1]) BY <1>1, <1>2, <1>4, <1>5
<1>8. \A i \in 1 .. Len(Head(Q)) : Head(Q)[i] = A[p.m + 1][p.o + i]
  BY <1>1, <1>2, <1>4, <1>5
<1> QED BY <1>1, <1>2, <1>5, <1>6, <1>7, <1>8 DEF SendAt

\* What SendPacket leaves of the message in hand.
Rest(S, pkt) == SubSeq(S, Len(pkt.bytes) + 1, Len(S))

\* nextMsgPacket cuts off up to PayloadSize bytes, and the rest is not empty
\* unless the packet is the last one of its message.
LEMMA PacketFields ==
  ASSUME NEW S \in Seq(Byte), S # <<>>, NEW ch \in Channels,
         NEW pkt, pkt = nextMsgPacket(ch, S)
  PROVE  /\ pkt \in Packet /\ pkt.type = "msg" /\ pkt.ch = ch
         /\ Len(pkt.bytes) \in 1 .. Len(S) /\ \A i \in 1 .. Len(pkt.bytes) : pkt.bytes[i] = S[i]
         /\ Rest(S, pkt) \in Seq(Byte) /\ Len(Rest(S, pkt)) = Len(S) - Len(pkt.bytes)
         /\ pkt.eof <=> Len(pkt.bytes) = Len(S)
         /\ pkt.eof <=> Rest(S, pkt) = <<>>
<1> DEFINE n == IF Len(S) <= PayloadSize THEN Len(S) ELSE PayloadSize
           rest == Rest(S, pkt)
<1>1. PayloadSize \in Nat \ {0} BY MConnectionAssumption
<1>2. Len(S) \in Nat \ {0} OBVIOUS
<1>3. n \in 1 .. Len(S) /\ (Len(S) <= PayloadSize <=> n = Len(S)) BY <1>1, <1>2
<1>4. /\ pkt.type = "msg" /\ pkt.ch = ch /\ pkt.eof = (Len(S) <= PayloadSize)
      /\ pkt.bytes = SubSeq(S, 1, n)
      /\ pkt = [type |-> "msg", ch |-> ch, eof |-> Len(S) <= PayloadSize, bytes |-> SubSeq(S, 1, n)]
  BY Zenon DEF nextMsgPacket
<1> HIDE DEF n
<1>5. /\ SubSeq(S, 1, n) \in Seq(Byte) /\ Len(SubSeq(S, 1, n)) = n
      /\ \A i \in 1 .. n : SubSeq(S, 1, n)[i] = S[i]
  BY <1>2, <1>3
<1>6. /\ rest \in Seq(Byte) /\ Len(rest) = Len(S) - n
      /\ \A i \in 1 .. Len(S) - n : rest[i] = S[n + i]
  <2>1. rest = SubSeq(S, n + 1, Len(S)) BY <1>4, <1>5 DEF Rest
  <2>2. /\ SubSeq(S, n + 1, Len(S)) \in Seq(Byte)
        /\ Len(SubSeq(S, n + 1, Len(S))) = Len(S) - n
        /\ \A i \in 1 .. Len(S) - n : SubSeq(S, n + 1, Len(S))[i] = S[n + i]
    BY <1>2, <1>3
  <2> QED BY <2>1, <2>2, Zenon
<1> HIDE DEF rest
<1>7. rest = <<>> <=> n = Len(S)
  <2>1. rest = <<>> <=> Len(rest) = 0 BY <1>6, EmptySeq
  <2>2. Len(rest) = Len(S) - n BY <1>6
  <2> QED BY <1>2, <1>3, <2>1, <2>2
<1>8. pkt \in Packet BY <1>4, <1>5 DEF Packet
<1>9. pkt.eof <=> n = Len(S) BY <1>3, <1>4, Zenon
<1>10. Len(pkt.bytes) = n BY <1>4, <1>5
<1> QED BY <1>3, <1>4, <1>5, <1>6, <1>7, <1>8, <1>9, <1>10 DEF rest

\* The bytes of the rest are those of the message behind the packet.
LEMMA RestElement ==
  ASSUME NEW S \in Seq(Byte), S # <<>>, NEW ch \in Channels,
         NEW pkt, pkt = nextMsgPacket(ch, S), NEW i \in 1 .. Len(Rest(S, pkt))
  PROVE  Rest(S, pkt)[i] = S[Len(pkt.bytes) + i]
<1> DEFINE n == Len(pkt.bytes)
<1>1. n \in 1 .. Len(S) /\ Len(Rest(S, pkt)) = Len(S) - n BY PacketFields
<1> HIDE DEF n
<1>2. i \in 1 .. Len(S) - n BY <1>1
<1>3. \A j \in 1 .. Len(S) - n : SubSeq(S, n + 1, Len(S))[j] = S[n + j] BY <1>1
<1> QED BY <1>2, <1>3 DEF Rest, n

\* nextMsgPacket carries the stream on.
LEMMA PacketSendAt ==
  ASSUME NEW A \in Seq(Msgs), NEW S \in Seq(Byte), S # <<>>, NEW Q \in Seq(Msgs),
         NEW p \in Pos, SendAt(A, S, Q, p), NEW ch \in Channels,
         NEW pkt, pkt = nextMsgPacket(ch, S)
  PROVE  /\ pkt \in Packet /\ pkt.type = "msg" /\ pkt.ch = ch
         /\ \E q \in Pos : Carries(A, p, pkt, q) /\ SendAt(A, Rest(S, pkt), Q, q)
<1> DEFINE n == Len(pkt.bytes)
           rest == Rest(S, pkt)
<1>1. /\ pkt \in Packet /\ pkt.type = "msg" /\ pkt.ch = ch
      /\ n \in 1 .. Len(S)
      /\ rest \in Seq(Byte) /\ Len(rest) = Len(S) - n
      /\ pkt.eof <=> n = Len(S)
      /\ pkt.eof <=> rest = <<>>
  BY PacketFields
<1>2. \A i \in 1 .. n : pkt.bytes[i] = S[i] BY PacketFields
<1>9. ASSUME NEW i \in 1 .. Len(rest) PROVE rest[i] = S[n + i] BY RestElement, Zenon
<1>3. n \in 1 .. Len(S) /\ Len(S) \in Nat \ {0} /\ Len(rest) = Len(S) - n BY <1>1
<1> HIDE DEF n, rest
<1>4. /\ p.m \in Nat /\ p.o \in Nat /\ p.m + 1 + Len(Q) = Len(A)
      /\ \A j \in 1 .. Len(Q) : Q[j] = A[p.m + 1 + j]
      /\ p.o + Len(S) = Len(A[p.m + 1])
      /\ \A i \in 1 .. Len(S) : S[i] = A[p.m + 1][p.o + i]
      /\ Len(Q) \in Nat
  BY DEF SendAt, Pos
<1>5. p.m \in Nat /\ p.o \in Nat /\ p.o + Len(S) = Len(A[p.m + 1]) BY <1>4
<1> DEFINE q == IF pkt.eof THEN [m |-> p.m + 1, o |-> 0] ELSE [m |-> p.m, o |-> p.o + n]
<1>6. q \in Pos BY <1>3, <1>5 DEF Pos
<1>7. Carries(A, p, pkt, q)
  <2>1. p.m < Len(A) BY <1>4
  <2>2. p.o + n <= Len(A[p.m + 1]) BY <1>3, <1>5
  <2>3. \A i \in 1 .. n : pkt.bytes[i] = A[p.m + 1][p.o + i]
    <3> TAKE i \in 1 .. n
    <3>1. i \in 1 .. Len(S) BY <1>3
    <3> QED BY <1>2, <1>4, <3>1
  <2>4. pkt.eof <=> p.o + n = Len(A[p.m + 1])
    <3>1. p.o + n = p.o + Len(S) <=> n = Len(S) BY <1>3, <1>5
    <3> QED BY <1>1, <1>5, <3>1
  <2> QED BY <2>1, <2>2, <2>3, <2>4 DEF Carries, n
<1>8. SendAt(A, rest, Q, q)
  <2>1. CASE pkt.eof
    <3>1. q.m = p.m + 1 /\ q.o = 0 /\ rest = <<>> BY <1>1, <2>1
    <3> QED BY <1>4, <3>1, Zenon DEF SendAt
  <2>2. CASE ~pkt.eof
    <3>1. q.m = p.m /\ q.o = p.o + n /\ rest # <<>> BY <1>1, <2>2
    <3>2. q.o + Len(rest) = Len(A[q.m + 1])
      <4>1. (p.o + n) + (Len(S) - n) = p.o + Len(S) BY <1>3, <1>5
      <4> QED BY <1>3, <1>5, <3>1, <4>1
    <3>3. \A i \in 1 .. Len(rest) : rest[i] = A[q.m + 1][q.o + i]
      <4> TAKE i \in 1 .. Len(rest)
      <4>1. n + i \in 1 .. Len(S) BY <1>3
      <4>2. rest[i] = S[n + i] /\ S[n + i] = A[p.m + 1][p.o + (n + i)] BY <1>9, <1>4, <4>1, Zenon
      <4>3. p.o + (n + i) = q.o + i BY <1>3, <1>5, <3>1, <4>1
      <4> QED BY <3>1, <4>2, <4>3
    <3> QED BY <1>4, <3>1, <3>2, <3>3, Zenon DEF SendAt
  <2> QED BY <2>1, <2>2
<1> HIDE DEF q
<1> QED BY <1>1, <1>6, <1>7, <1>8 DEF rest

\* A packet is written, whatever channel it is for.
LEMMA PushChain ==
  ASSUME NEW A, NEW P \in Seq(Packet), NEW pkt \in Packet, NEW ch, NEW at,
         Chain(A, P, ch, at), NEW q \in Pos,
         IF pkt.type = "msg" /\ pkt.ch = ch THEN Carries(A, at[Len(P)], pkt, q)
                                            ELSE q = at[Len(P)]
  PROVE  \E up : /\ Chain(A, Append(P, pkt), ch, up)
                 /\ up[0] = at[0] /\ up[Len(Append(P, pkt))] = q
<1> DEFINE n == Len(P)
           U == Append(P, pkt)
           up == [k \in 0 .. n + 1 |-> IF k <= n THEN at[k] ELSE q]
<1>1. n \in Nat /\ Len(U) = n + 1 /\ U[n + 1] = pkt /\ \A k \in 1 .. n : U[k] = P[k]
  OBVIOUS
<1>2. at \in [0 .. n -> Pos] BY DEF Chain
<1>3. /\ up \in [0 .. n + 1 -> Pos] /\ up[n + 1] = q
      /\ \A k \in 0 .. n : up[k] = at[k]
  BY <1>1, <1>2
<1>4. \A k \in 1 .. n : k - 1 \in 0 .. n /\ k \in 0 .. n /\ k \in 1 .. n BY <1>1
<1> HIDE DEF n, U, up
<1>5. ASSUME NEW k \in 1 .. n + 1
      PROVE  IF U[k].type = "msg" /\ U[k].ch = ch THEN Carries(A, up[k - 1], U[k], up[k])
                                                  ELSE up[k] = up[k - 1]
  <2>1. CASE k = n + 1
    <3>1. k - 1 = n /\ n \in 0 .. n BY <1>1, <2>1
    <3>2. U[k] = pkt /\ up[k] = q /\ up[k - 1] = at[n] BY <1>1, <1>3, <2>1, <3>1
    <3> QED BY <3>2 DEF n
  <2>2. CASE k # n + 1
    <3>1. k \in 1 .. n BY <1>1, <2>2
    <3>2. U[k] = P[k] /\ up[k] = at[k] /\ up[k - 1] = at[k - 1] BY <1>1, <1>3, <1>4, <3>1, Zenon
    <3> QED BY <3>1, <3>2 DEF Chain, n
  <2> QED BY <2>1, <2>2
<1>6. Chain(A, U, ch, up) BY <1>1, <1>3, <1>5 DEF Chain
<1>7. up[0] = at[0] /\ up[Len(U)] = q BY <1>1, <1>3
<1> QED BY <1>6, <1>7 DEF U

\* The first packet is read.
LEMMA PopChain ==
  ASSUME NEW A, NEW P \in Seq(Packet), P # <<>>, NEW ch, NEW at, Chain(A, P, ch, at)
  PROVE  /\ at[0] \in Pos /\ at[1] \in Pos
         /\ IF Head(P).type = "msg" /\ Head(P).ch = ch THEN Carries(A, at[0], Head(P), at[1])
                                                       ELSE at[1] = at[0]
         /\ \E up : /\ Chain(A, Tail(P), ch, up)
                    /\ up[0] = at[1] /\ up[Len(Tail(P))] = at[Len(P)]
<1> DEFINE n == Len(P)
           U == Tail(P)
           up == [k \in 0 .. n - 1 |-> at[k + 1]]
<1>1. /\ n \in Nat \ {0} /\ Len(U) = n - 1 /\ \A k \in 1 .. n - 1 : U[k] = P[k + 1]
      /\ Head(P) = P[1]
  OBVIOUS
<1>2. at \in [0 .. n -> Pos] BY DEF Chain
<1>3. 1 \in 1 .. n /\ 0 \in 0 .. n /\ 1 \in 0 .. n BY <1>1
<1>4. at[0] \in Pos /\ at[1] \in Pos BY <1>2, <1>3
<1>5. IF P[1].type = "msg" /\ P[1].ch = ch THEN Carries(A, at[1 - 1], P[1], at[1])
                                           ELSE at[1] = at[1 - 1]
  BY <1>3 DEF Chain
<1>6. 1 - 1 = 0 OBVIOUS
<1>7. /\ up \in [0 .. n - 1 -> Pos]
      /\ \A k \in 0 .. n - 1 : up[k] = at[k + 1]
  BY <1>1, <1>2
<1> HIDE DEF n, U, up
<1>8. ASSUME NEW k \in 1 .. n - 1
      PROVE  IF U[k].type = "msg" /\ U[k].ch = ch THEN Carries(A, up[k - 1], U[k], up[k])
                                                  ELSE up[k] = up[k - 1]
  <2>1. /\ k + 1 \in 1 .. n /\ k - 1 \in 0 .. n - 1 /\ k \in 0 .. n - 1
        /\ (k - 1) + 1 = k /\ (k + 1) - 1 = k
    BY <1>1
  <2>2. U[k] = P[k + 1] /\ up[k] = at[k + 1] /\ up[k - 1] = at[k] BY <1>1, <1>7, <2>1
  <2>3. IF P[k + 1].type = "msg" /\ P[k + 1].ch = ch
        THEN Carries(A, at[(k + 1) - 1], P[k + 1], at[k + 1])
        ELSE at[k + 1] = at[(k + 1) - 1]
    BY <2>1 DEF Chain, n
  <2> QED BY <2>1, <2>2, <2>3
<1>9. Chain(A, U, ch, up) BY <1>1, <1>7, <1>8 DEF Chain
<1>10. up[0] = at[1] /\ up[Len(U)] = at[n]
  <2>1. 0 \in 0 .. n - 1 /\ n - 1 \in 0 .. n - 1 /\ (n - 1) + 1 = n /\ 0 + 1 = 1 BY <1>1
  <2> QED BY <1>1, <1>7, <2>1
<1>11. \E u : Chain(A, U, ch, u) /\ u[0] = at[1] /\ u[Len(U)] = at[n] BY <1>9, <1>10
<1> QED BY <1>1, <1>4, <1>5, <1>6, <1>11 DEF U, n

\* What a receiver that gets the packet at its position does.
LEMMA TakeRecvAt ==
  ASSUME NEW A \in Seq(Msgs), NEW D \in Seq(Seq(Byte)), NEW R \in Seq(Byte),
         NEW p \in Pos, NEW q, RecvAt(A, D, R, p), NEW pkt, pkt.bytes \in Seq(Byte),
         pkt.eof \in BOOLEAN, Carries(A, p, pkt, q)
  PROVE  RecvAt(A, IF pkt.eof THEN Append(D, R \o pkt.bytes) ELSE D,
                   IF pkt.eof THEN <<>> ELSE R \o pkt.bytes, q)
<1> DEFINE W == R \o pkt.bytes
           n == Len(pkt.bytes)
           a == A[p.m + 1]
<1>1. /\ p.m \in Nat /\ p.o \in Nat /\ n \in Nat /\ Len(A) \in Nat
      /\ Len(D) = p.m /\ Len(R) = p.o /\ p.m < Len(A) /\ p.o + n <= Len(a)
      /\ \A j \in 1 .. p.m : D[j] = A[j]
      /\ \A i \in 1 .. p.o : R[i] = a[i]
      /\ \A i \in 1 .. n : pkt.bytes[i] = a[p.o + i]
      /\ pkt.eof <=> p.o + n = Len(a)
      /\ q = IF pkt.eof THEN [m |-> p.m + 1, o |-> 0] ELSE [m |-> p.m, o |-> p.o + n]
  BY DEF RecvAt, Carries, Pos
<1>2. a \in Seq(Byte)
  <2>1. p.m + 1 \in 1 .. Len(A) BY <1>1
  <2>2. a \in Msgs BY <2>1, ElementOfSeq
  <2> QED BY <2>2 DEF Msgs
<1> HIDE DEF a, n
<1>3. /\ W \in Seq(Byte) /\ Len(W) = p.o + n
      /\ \A i \in 1 .. p.o + n : W[i] = IF i <= p.o THEN R[i] ELSE pkt.bytes[i - p.o]
  <2>1. /\ W \in Seq(Byte) /\ Len(W) = Len(R) + n
        /\ \A i \in 1 .. Len(R) + n :
             W[i] = IF i <= Len(R) THEN R[i] ELSE pkt.bytes[i - Len(R)]
    BY ConcatProperties DEF n
  <2>2. Len(R) = p.o BY <1>1
  <2> HIDE DEF W
  <2> QED BY <2>1, <2>2
<1> HIDE DEF W
<1>4. \A i \in 1 .. p.o + n : W[i] = a[i]
  <2> TAKE i \in 1 .. p.o + n
  <2>1. CASE i <= p.o BY <1>1, <1>3, <2>1
  <2>2. CASE i > p.o
    <3>1. i - p.o \in 1 .. n /\ p.o + (i - p.o) = i BY <1>1, <2>2
    <3>2. ~(i <= p.o) BY <1>1, <2>2
    <3>3. W[i] = pkt.bytes[i - p.o] BY <1>3, <3>2
    <3>4. pkt.bytes[i - p.o] = a[p.o + (i - p.o)] BY <1>1, <3>1, Zenon
    <3> QED BY <3>1, <3>3, <3>4
  <2> QED BY <1>1, <2>1, <2>2
<1>5. CASE pkt.eof
  <2>1. W = a
    <3>1. Len(W) = p.o + n /\ Len(a) = p.o + n /\ W \in Seq(Byte) BY <1>1, <1>3, <1>5
    <3>2. \A i \in 1 .. Len(W) : W[i] = a[i] BY <1>4, <3>1
    <3> QED BY <1>2, <3>1, <3>2, SeqEqual
  <2>2. q.m = p.m + 1 /\ q.o = 0 BY <1>1, <1>5
  <2>3. /\ Len(Append(D, W)) = p.m + 1 /\ Append(D, W)[p.m + 1] = W
        /\ \A j \in 1 .. p.m : Append(D, W)[j] = D[j]
    BY <1>1, <1>3
  <2>4. \A j \in 1 .. q.m : Append(D, W)[j] = A[j]
    BY <1>1, <2>1, <2>2, <2>3 DEF a
  <2>5. Len(<<>>) = 0 OBVIOUS
  <2>6. RecvAt(A, Append(D, W), <<>>, q)
    BY <1>1, <2>2, <2>3, <2>4, <2>5 DEF RecvAt
  <2> QED BY <1>5, <2>6 DEF W
<1>6. CASE ~pkt.eof
  <2>1. q.m = p.m /\ q.o = p.o + n BY <1>1, <1>6
  <2>2. RecvAt(A, D, W, q) BY <1>1, <1>3, <1>4, <2>1 DEF RecvAt, a
  <2> QED BY <1>6, <2>2 DEF W
<1> QED BY <1>5, <1>6

\* One direction of a channel: the messages A, the packets P on their way, what
\* the receiver has (D, R), and, unless the writer has failed, the sender (S, Q).
Linked(A, P, ch, D, R, failed, S, Q) ==
    \E at : /\ Chain(A, P, ch, at)
            /\ RecvAt(A, D, R, at[0])
            /\ ~failed => SendAt(A, S, Q, at[Len(P)])

\* The ends of a chain are positions.
LEMMA ChainEnds ==
  ASSUME NEW A, NEW P \in Seq(Packet), NEW ch, NEW at, Chain(A, P, ch, at)
  PROVE  at[0] \in Pos /\ at[Len(P)] \in Pos
<1>1. at \in [0 .. Len(P) -> Pos] BY DEF Chain
<1>2. 0 \in 0 .. Len(P) /\ Len(P) \in 0 .. Len(P) OBVIOUS
<1> QED BY <1>1, <1>2

\* Send or TrySend queues one more message.
LEMMA LinkedAccept ==
  ASSUME NEW A \in Seq(Msgs), NEW P \in Seq(Packet), NEW ch, NEW D, NEW R, NEW failed,
         NEW S \in Seq(Byte), NEW Q \in Seq(Msgs), NEW msg \in Msgs,
         Linked(A, P, ch, D, R, failed, S, Q)
  PROVE  Linked(Append(A, msg), P, ch, D, R, failed, S, Append(Q, msg))
<1>1. PICK at : /\ Chain(A, P, ch, at) /\ RecvAt(A, D, R, at[0])
                /\ ~failed => SendAt(A, S, Q, at[Len(P)])
  BY DEF Linked
<1>2. at[0] \in Pos /\ at[Len(P)] \in Pos BY <1>1, ChainEnds
<1>3. Len(P) \in Nat OBVIOUS
<1>4. Chain(Append(A, msg), P, ch, at) BY <1>1, <1>3, AcceptChain
<1>5. RecvAt(Append(A, msg), D, R, at[0]) BY <1>1, <1>2, AcceptRecvAt
<1>6. ~failed => SendAt(Append(A, msg), S, Append(Q, msg), at[Len(P)])
  BY <1>1, <1>2, AcceptSendAt
<1> QED BY <1>4, <1>5, <1>6 DEF Linked

\* isSendPending takes the next queued message into its hand.
LEMMA LinkedPull ==
  ASSUME NEW A \in Seq(Msgs), NEW P \in Seq(Packet), NEW ch, NEW D, NEW R, NEW failed,
         NEW Q \in Seq(Msgs), Q # <<>>,
         Linked(A, P, ch, D, R, failed, <<>>, Q)
  PROVE  Linked(A, P, ch, D, R, failed, Head(Q), Tail(Q))
<1>1. PICK at : /\ Chain(A, P, ch, at) /\ RecvAt(A, D, R, at[0])
                /\ ~failed => SendAt(A, <<>>, Q, at[Len(P)])
  BY DEF Linked
<1>2. at[Len(P)] \in Pos BY <1>1, ChainEnds
<1>3. ~failed => SendAt(A, Head(Q), Tail(Q), at[Len(P)]) BY <1>1, <1>2, PullSendAt
<1> QED BY <1>1, <1>3 DEF Linked

\* A packet of another channel, a ping or a pong is written.
LEMMA LinkedOther ==
  ASSUME NEW A, NEW P \in Seq(Packet), NEW ch, NEW D, NEW R, NEW S, NEW Q,
         NEW pkt \in Packet, ~(pkt.type = "msg" /\ pkt.ch = ch),
         Linked(A, P, ch, D, R, FALSE, S, Q)
  PROVE  Linked(A, Append(P, pkt), ch, D, R, FALSE, S, Q)
<1>1. PICK at : /\ Chain(A, P, ch, at) /\ RecvAt(A, D, R, at[0])
                /\ SendAt(A, S, Q, at[Len(P)])
  BY DEF Linked
<1>2. at[Len(P)] \in Pos BY <1>1, ChainEnds
<1>3. PICK up : /\ Chain(A, Append(P, pkt), ch, up)
                /\ up[0] = at[0] /\ up[Len(Append(P, pkt))] = at[Len(P)]
  BY <1>1, <1>2, PushChain
<1> QED BY <1>1, <1>3 DEF Linked

\* The next packet of this channel is.
LEMMA LinkedOwn ==
  ASSUME NEW A \in Seq(Msgs), NEW P \in Seq(Packet), NEW ch \in Channels, NEW D, NEW R,
         NEW S \in Seq(Byte), S # <<>>, NEW Q \in Seq(Msgs),
         NEW pkt, pkt = nextMsgPacket(ch, S),
         Linked(A, P, ch, D, R, FALSE, S, Q)
  PROVE  Linked(A, Append(P, pkt), ch, D, R, FALSE,
                Rest(S, pkt), Q)
<1>1. PICK at : /\ Chain(A, P, ch, at) /\ RecvAt(A, D, R, at[0])
                /\ SendAt(A, S, Q, at[Len(P)])
  BY DEF Linked
<1>2. at[Len(P)] \in Pos BY <1>1, ChainEnds
<1> DEFINE rest == Rest(S, pkt)
<1>3. /\ pkt \in Packet /\ pkt.type = "msg" /\ pkt.ch = ch
      /\ \E q \in Pos : Carries(A, at[Len(P)], pkt, q) /\ SendAt(A, rest, Q, q)
  BY <1>1, <1>2, PacketSendAt
<1> HIDE DEF rest
<1>4. PICK q \in Pos : Carries(A, at[Len(P)], pkt, q) /\ SendAt(A, rest, Q, q) BY <1>3
<1>5. PICK up : /\ Chain(A, Append(P, pkt), ch, up)
                /\ up[0] = at[0] /\ up[Len(Append(P, pkt))] = q
  BY <1>1, <1>3, <1>4, PushChain
<1>6. Linked(A, Append(P, pkt), ch, D, R, FALSE, rest, Q) BY <1>1, <1>4, <1>5 DEF Linked
<1> QED BY <1>6, Zenon DEF rest

\* The writer fails: what it had not handed to the socket is lost.
LEMMA LinkedCut ==
  ASSUME NEW A, NEW N \in Seq(Packet), NEW B \in Seq(Packet), NEW ch, NEW D, NEW R,
         NEW failed, NEW S, NEW Q, Linked(A, N \o B, ch, D, R, failed, S, Q),
         NEW T, NEW U
  PROVE  Linked(A, N, ch, D, R, TRUE, T, U)
<1>1. PICK at : Chain(A, N \o B, ch, at) /\ RecvAt(A, D, R, at[0])
  BY DEF Linked
<1> DEFINE P == N \o B
           up == [k \in 0 .. Len(N) |-> at[k]]
<1>2. /\ Len(N) \in Nat /\ Len(B) \in Nat /\ Len(P) = Len(N) + Len(B)
      /\ \A k \in 1 .. Len(N) : P[k] = N[k]
  <2>1. /\ Len(P) = Len(N) + Len(B)
        /\ \A k \in 1 .. Len(N) + Len(B) : P[k] = IF k <= Len(N) THEN N[k] ELSE B[k - Len(N)]
    BY ConcatProperties
  <2>2. Len(N) \in Nat /\ Len(B) \in Nat OBVIOUS
  <2> HIDE DEF P
  <2> QED BY <2>1, <2>2
<1>3. at \in [0 .. Len(P) -> Pos] BY <1>1 DEF Chain
<1> HIDE DEF P
<1>4. \A k \in 0 .. Len(N) : k \in 0 .. Len(P) BY <1>2
<1>5. up \in [0 .. Len(N) -> Pos] /\ \A k \in 0 .. Len(N) : up[k] = at[k] BY <1>3, <1>4
<1> HIDE DEF up
<1>6. ASSUME NEW k \in 1 .. Len(N)
      PROVE  IF N[k].type = "msg" /\ N[k].ch = ch THEN Carries(A, up[k - 1], N[k], up[k])
                                                  ELSE up[k] = up[k - 1]
  <2>1. k \in 1 .. Len(P) /\ k - 1 \in 0 .. Len(N) /\ k \in 0 .. Len(N) BY <1>2
  <2>2. IF P[k].type = "msg" /\ P[k].ch = ch THEN Carries(A, at[k - 1], P[k], at[k])
                                             ELSE at[k] = at[k - 1]
    BY <1>1, <2>1 DEF Chain, P
  <2>3. P[k] = N[k] /\ up[k] = at[k] /\ up[k - 1] = at[k - 1] BY <1>2, <1>5, <2>1
  <2> QED BY <2>2, <2>3
<1>7. Chain(A, N, ch, up) BY <1>5, <1>6 DEF Chain
<1>8. up[0] = at[0] BY <1>2, <1>5
<1> QED BY <1>1, <1>7, <1>8 DEF Linked

\* The receiver reads the first packet and does what recvMsgPacket does.
LEMMA LinkedRead ==
  ASSUME NEW A \in Seq(Msgs), NEW P \in Seq(Packet), P # <<>>, NEW ch,
         NEW D \in Seq(Seq(Byte)), NEW R \in Seq(Byte), NEW failed, NEW S, NEW Q,
         Linked(A, P, ch, D, R, failed, S, Q)
  PROVE  LET pkt == Head(P)
             ours == pkt.type = "msg" /\ pkt.ch = ch
             bytes == R \o pkt.bytes
         IN  /\ ~ours => Linked(A, Tail(P), ch, D, R, failed, S, Q)
             /\ ours /\ pkt.eof =>
                  Linked(A, Tail(P), ch, Append(D, bytes), <<>>, failed, S, Q)
             /\ ours /\ ~pkt.eof => Linked(A, Tail(P), ch, D, bytes, failed, S, Q)
<1>1. PICK at : /\ Chain(A, P, ch, at) /\ RecvAt(A, D, R, at[0])
                /\ ~failed => SendAt(A, S, Q, at[Len(P)])
  BY DEF Linked
<1> DEFINE pkt == Head(P)
           ours == pkt.type = "msg" /\ pkt.ch = ch
           bytes == R \o pkt.bytes
<1>2. /\ at[0] \in Pos /\ at[1] \in Pos
      /\ IF ours THEN Carries(A, at[0], pkt, at[1]) ELSE at[1] = at[0]
      /\ \E up : /\ Chain(A, Tail(P), ch, up)
                 /\ up[0] = at[1] /\ up[Len(Tail(P))] = at[Len(P)]
  BY <1>1, PopChain
<1>3. PICK up : /\ Chain(A, Tail(P), ch, up)
                /\ up[0] = at[1] /\ up[Len(Tail(P))] = at[Len(P)]
  BY <1>2
<1>4. pkt \in Packet OBVIOUS
<1> HIDE DEF pkt
<1>5. CASE ~ours
  <2>1. Linked(A, Tail(P), ch, D, R, failed, S, Q) BY <1>1, <1>2, <1>3, <1>5 DEF Linked
  <2> QED BY <1>5, <2>1 DEF pkt
<1>6. CASE ours
  <2>1. pkt.bytes \in Seq(Byte) /\ pkt.eof \in BOOLEAN BY <1>4, <1>6 DEF Packet
  <2>2. RecvAt(A, IF pkt.eof THEN Append(D, bytes) ELSE D, IF pkt.eof THEN <<>> ELSE bytes, at[1])
    BY <1>1, <1>2, <1>6, <2>1, TakeRecvAt
  <2> HIDE DEF bytes, ours
  <2>3. pkt.eof => Linked(A, Tail(P), ch, Append(D, bytes), <<>>, failed, S, Q)
    BY <1>1, <1>3, <2>2 DEF Linked
  <2>4. ~pkt.eof => Linked(A, Tail(P), ch, D, bytes, failed, S, Q)
    BY <1>1, <1>3, <2>2 DEF Linked
  <2> QED BY <1>6, <2>3, <2>4 DEF bytes, ours, pkt
<1> QED BY <1>5, <1>6

-----------------------------------------------------------------------------
(* The connection.                                                         *)

\* The types of the variables that the proofs speak of.
DataOK ==
    /\ calls \in [Ends -> [Channels -> Nat]]
    /\ waking \in [Ends -> [Channels -> BOOLEAN]]
    /\ queue \in [Ends -> [Channels -> Seq(Msgs)]]
    /\ queueSize \in [Ends -> [Channels -> Int]]
    /\ accepted \in [Ends -> [Channels -> Seq(Msgs)]]
    /\ sending \in [Ends -> [Channels -> Seq(Byte)]]
    /\ buf \in [Ends -> Seq(Packet)] /\ net \in [Ends -> Seq(Packet)]
    /\ bufErr \in [Ends -> BOOLEAN]
    /\ receiver \in [Ends -> {"read", "pong", "done", "panicked"}]
    /\ recving \in [Ends -> [Channels -> Seq(Byte)]]
    /\ delivered \in [Ends -> [Channels -> Seq(Seq(Byte))]]

\* A message of the callers is a non-empty sequence of bytes.
LEMMA MessageType ==
  ASSUME NEW e \in Ends, NEW ch \in Channels, NEW k \in Nat \ {0}, k <= Len(Lengths[e][ch])
  PROVE  Message(k, Lengths[e][ch][k]) \in Msgs
<1> DEFINE n == Lengths[e][ch][k]
<1>1. Lengths[e][ch] \in Seq(Nat \ {0}) BY MConnectionAssumption
<1>2. n \in Nat \ {0} BY <1>1
<1> HIDE DEF n
<1>3. Message(k, n) \in Seq(Byte) /\ Len(Message(k, n)) = n
  BY <1>2 DEF Message, Byte
<1>4. Message(k, n) # <<>> BY <1>2, <1>3
<1> QED BY <1>3, <1>4 DEF Msgs, n

\* The steps, up to what they do to these variables.
Quiet ==
    UNCHANGED <<waking, queue, queueSize, accepted, sending, buf, bufErr, net, recving, delivered>>

\* A flush, with a ping or a pong or without.
Written(e, pkts) ==
    /\ FlushOK(e, pkts) \/ FlushFails(e, pkts)
    /\ UNCHANGED <<calls, waking, queue, queueSize, accepted, sending, recving, delivered>>

\* What a flush adds to the buffer: nothing, a ping or a pong.
Control == {<<>>, <<[type |-> "ping"]>>, <<[type |-> "pong"]>>}

\* recvRoutine goes on after its pong, gives up, or is not touched.
ReceiverStep ==
    \/ receiver' = receiver
    \/ \E e \in Ends : \/ receiver[e] = "pong" /\ receiver' = [receiver EXCEPT ![e] = "read"]
                       \/ \E how \in {"done", "panicked"} :
                            receiver' = [receiver EXCEPT ![e] = how]

\* A caller is refused, or no caller moves.
CallsStep == calls' = calls \/ \E e \in Ends, ch \in Channels :
                                 calls' = [calls EXCEPT ![e][ch] = @ + 1]

\* Every step of Next is of one of these kinds.
LEMMA StepCases ==
  ASSUME [Next]_vars
  PROVE  \/ Quiet /\ ReceiverStep /\ CallsStep
         \/ \E e \in Ends, ch \in Channels : SendBytes(e, ch) \/ Wake(e, ch)
         \/ \E e \in Ends, pkts \in Control : Written(e, pkts) /\ ReceiverStep
         \/ \E e \in Ends : SendPacket(e) \/ RecvPacket(e)
<1>1. ASSUME NEW e \in Ends, Callers(e)
      PROVE  \/ Quiet /\ ReceiverStep /\ CallsStep
             \/ \E ch \in Channels : SendBytes(e, ch) \/ Wake(e, ch)
  BY <1>1 DEF Callers, SendFails, Quiet, ReceiverStep, CallsStep, connVars, sendVars, recvVars
<1>2. ASSUME NEW e \in Ends, SendFlush(e)
      PROVE  \E pkts \in Control : Written(e, pkts) /\ ReceiverStep
  BY <1>2 DEF SendFlush, Control, Written, ReceiverStep, chanVars, recvVars
<1>3. ASSUME NEW e \in Ends, SendPing(e) \/ SendPong(e)
      PROVE  \E pkts \in Control : Written(e, pkts) /\ ReceiverStep
  <2>1. CASE SendPing(e)
    BY <2>1 DEF SendPing, WriteAndFlush, Control, Written, ReceiverStep, chanVars, recvVars
  <2>2. CASE SendPong(e)
    BY <2>2, Zenon DEF SendPong, WriteAndFlush, Control, Written, ReceiverStep, chanVars
  <2> QED BY <1>3, <2>1, <2>2
<1>4. ASSUME NEW e \in Ends,
             SendStats(e) \/ SendQuit(e) \/ SendBatch(e) \/ SendExhausted(e) \/ Stop(e)
      PROVE  Quiet /\ ReceiverStep /\ CallsStep
  BY <1>4 DEF SendStats, SendQuit, SendBatch, SendExhausted, Stop, Quiet, ReceiverStep,
              CallsStep, chanVars, recvVars
<1>5. ASSUME NEW e \in Ends, RecvError(e) \/ RecvPanic(e)
      PROVE  Quiet /\ ReceiverStep /\ CallsStep
  BY <1>5 DEF RecvError, RecvPanic, RecvEnds, Quiet, ReceiverStep, CallsStep, chanVars
<1>6. CASE UNCHANGED vars
  BY <1>6 DEF vars, chanVars, sendVars, recvVars, Quiet, ReceiverStep, CallsStep
<1> QED BY <1>1, <1>2, <1>3, <1>4, <1>5, <1>6 DEF Next, sendRoutine, recvRoutine

\* What SendPacket(e) does with the channel ch of its packet.
Packs(e, ch, pkt) ==
    /\ ch \in Channels /\ Pulled(e)[ch] # <<>>
    /\ pkt = nextMsgPacket(ch, Pulled(e)[ch])
    /\ sending' = [sending EXCEPT ![e] =
                     [Pulled(e) EXCEPT ![ch] = Rest(Pulled(e)[ch], pkt)]]
    /\ queue' = [queue EXCEPT ![e] = LeftInQueue(e)]
    /\ queueSize' = IF pkt.eof THEN [queueSize EXCEPT ![e][ch] = @ - 1] ELSE queueSize
    /\ \/ FlushOK(e, <<pkt>>)
       \/ /\ ~bufErr[e] /\ buf' = [buf EXCEPT ![e] = Append(@, pkt)]
          /\ UNCHANGED <<bufErr, net>>
       \/ FlushFails(e, <<pkt>>)
    /\ UNCHANGED <<calls, waking, accepted, receiver, recving, delivered>>

\* SendPacket is such a step for some channel.
LEMMA SendPacketPacks ==
  ASSUME NEW e \in Ends, SendPacket(e)
  PROVE  \E ch \in Channels : Packs(e, ch, nextMsgPacket(ch, Pulled(e)[ch]))
<1>1. PICK ch \in LeastChannels(e) :
         LET bytes == Pulled(e)[ch]
             pkt == nextMsgPacket(ch, bytes)
         IN  /\ sending' = [sending EXCEPT ![e] = [Pulled(e) EXCEPT ![ch] =
                              SubSeq(bytes, Len(pkt.bytes) + 1, Len(bytes))]]
             /\ queue' = [queue EXCEPT ![e] = LeftInQueue(e)]
             /\ queueSize' = IF pkt.eof THEN [queueSize EXCEPT ![e][ch] = @ - 1]
                                        ELSE queueSize
             /\ \/ FlushOK(e, <<pkt>>)
                \/ /\ ~bufErr[e] /\ buf' = [buf EXCEPT ![e] = Append(@, pkt)]
                   /\ UNCHANGED <<bufErr, net>>
                \/ FlushFails(e, <<pkt>>)
  BY Zenon DEF SendPacket
<1>2. UNCHANGED <<calls, waking, accepted, receiver, recving, delivered>>
  BY DEF SendPacket, recvVars
<1>3. ch \in Channels /\ Pulled(e)[ch] # <<>> BY DEF LeastChannels, Pending
<1> QED BY <1>1, <1>2, <1>3, Zenon DEF Packs, Rest

\* Pulling, for one channel.
LEMMA PulledType ==
  ASSUME DataOK, NEW e \in Ends, NEW ch \in Channels
  PROVE  /\ Pulled(e)[ch] \in Seq(Byte) /\ LeftInQueue(e)[ch] \in Seq(Msgs)
         /\ \/ Pulled(e)[ch] = sending[e][ch] /\ LeftInQueue(e)[ch] = queue[e][ch]
            \/ /\ sending[e][ch] = <<>> /\ queue[e][ch] # <<>>
               /\ Pulled(e)[ch] = Head(queue[e][ch]) /\ LeftInQueue(e)[ch] = Tail(queue[e][ch])
<1>1. sending[e][ch] \in Seq(Byte) /\ queue[e][ch] \in Seq(Msgs) BY DEF DataOK
<1>2. Takes(e, ch) => /\ Head(queue[e][ch]) \in Msgs /\ Tail(queue[e][ch]) \in Seq(Msgs)
  BY <1>1 DEF Takes
<1>3. Msgs \subseteq Seq(Byte) BY DEF Msgs
<1>4. /\ Pulled(e)[ch] = IF Takes(e, ch) THEN Head(queue[e][ch]) ELSE sending[e][ch]
      /\ LeftInQueue(e)[ch] = IF Takes(e, ch) THEN Tail(queue[e][ch]) ELSE queue[e][ch]
  BY DEF Pulled, LeftInQueue
<1> QED BY <1>1, <1>2, <1>3, <1>4 DEF Takes

\* What RecvPacket(e) does with the packet it takes.
Reads(e, pkt) ==
    /\ receiver[e] = "read" /\ net[Other(e)] # <<>> /\ pkt = Head(net[Other(e)])
    /\ net' = [net EXCEPT ![Other(e)] = Tail(@)]
    /\ \/ /\ pkt.type # "msg"
          /\ \/ receiver' = receiver
             \/ receiver' = [receiver EXCEPT ![e] = "pong"]
          /\ UNCHANGED <<recving, delivered>>
       \/ /\ receiver' = [receiver EXCEPT ![e] = "done"]
          /\ UNCHANGED <<recving, delivered>>
       \/ /\ pkt.type = "msg"
          /\ LET bytes == recving[e][pkt.ch] \o pkt.bytes
             IN  /\ recving' = [recving EXCEPT ![e][pkt.ch] = IF pkt.eof THEN <<>> ELSE bytes]
                 /\ delivered' = IF pkt.eof
                                 THEN [delivered EXCEPT ![e][pkt.ch] = Append(@, bytes)]
                                 ELSE delivered
          /\ receiver' = receiver
    /\ UNCHANGED <<calls, waking, queue, queueSize, accepted, sending, buf, bufErr>>

\* RecvPacket is such a step.
LEMMA RecvPacketReads ==
  ASSUME NEW e \in Ends, RecvPacket(e)
  PROVE  Reads(e, Head(net[Other(e)]))
<1> DEFINE pkt == Head(net[Other(e)])
<1>1. /\ receiver[e] = "read" /\ net[Other(e)] # <<>>
      /\ net' = [net EXCEPT ![Other(e)] = Tail(@)]
      /\ UNCHANGED <<calls, waking, queue, queueSize, accepted, sending, buf, bufErr>>
      /\ \/ /\ pkt.type = "ping"
            /\ receiver' = [receiver EXCEPT ![e] = "pong"] /\ UNCHANGED <<recving, delivered>>
         \/ pkt.type = "pong" /\ UNCHANGED <<receiver, recving, delivered>>
         \/ pkt.type = "msg" /\ RecvMsg(e, pkt)
  BY DEF RecvPacket, chanVars, recvVars
<1> HIDE DEF pkt
<1>2. RecvMsg(e, pkt) =>
        \/ receiver' = [receiver EXCEPT ![e] = "done"] /\ UNCHANGED <<recving, delivered>>
        \/ LET bytes == recving[e][pkt.ch] \o pkt.bytes
           IN  /\ recving' = [recving EXCEPT ![e][pkt.ch] = IF pkt.eof THEN <<>> ELSE bytes]
               /\ delivered' = IF pkt.eof
                               THEN [delivered EXCEPT ![e][pkt.ch] = Append(@, bytes)]
                               ELSE delivered
               /\ receiver' = receiver
  BY Zenon DEF RecvMsg, RecvEnds
<1> QED BY <1>1, <1>2, Zenon DEF Reads, pkt

\* A connection has two ends.
LEMMA OtherEnd == \A e \in Ends : Other(e) \in Ends /\ Other(e) # e /\ Other(Other(e)) = e
  BY DEF Ends, Other

\* A new connection is well typed.
LEMMA DataInit == Init => DataOK
<1>1. <<>> \in Seq(Msgs) /\ <<>> \in Seq(Byte) /\ <<>> \in Seq(Packet) /\ <<>> \in Seq(Seq(Byte))
  OBVIOUS
<1> QED BY <1>1 DEF Init, DataOK, PerChannel, PerEnd

\* The types that the writer changes.
LEMMA FlushType ==
  ASSUME DataOK, NEW e \in Ends, NEW pkts \in Seq(Packet),
         FlushOK(e, pkts) \/ FlushFails(e, pkts)
  PROVE  /\ buf' \in [Ends -> Seq(Packet)] /\ net' \in [Ends -> Seq(Packet)]
         /\ bufErr' \in [Ends -> BOOLEAN]
<1>1. /\ buf \in [Ends -> Seq(Packet)] /\ net \in [Ends -> Seq(Packet)]
      /\ bufErr \in [Ends -> BOOLEAN]
      /\ buf[e] \in Seq(Packet) /\ net[e] \in Seq(Packet)
  BY DEF DataOK
<1>2. /\ net[e] \o buf[e] \o pkts \in Seq(Packet) /\ <<>> \in Seq(Packet)
      /\ buf[e] \o pkts \in Seq(Packet)
  BY <1>1
<1>3. CASE FlushOK(e, pkts) BY <1>1, <1>2, <1>3 DEF FlushOK
<1>4. CASE FlushFails(e, pkts) BY <1>1, <1>2, <1>4 DEF FlushFails
<1> QED BY <1>3, <1>4

\* What a flush may add is a sequence of packets.
LEMMA ControlPackets == \A pkts \in Control : pkts \in Seq(Packet)
<1>1. [type |-> "ping"] \in Packet /\ [type |-> "pong"] \in Packet BY DEF Packet
<1>2. \A r \in Packet : <<r>> \in Seq(Packet) OBVIOUS
<1>3. <<>> \in Seq(Packet) OBVIOUS
<1> QED BY <1>1, <1>2, <1>3, Zenon DEF Control

\* Every step keeps the types.
LEMMA DataStep == DataOK /\ [Next]_vars => DataOK'
<1> SUFFICES ASSUME DataOK, [Next]_vars PROVE DataOK' OBVIOUS
<1>1. CASE Quiet /\ ReceiverStep /\ CallsStep
  <2>1. receiver' \in [Ends -> {"read", "pong", "done", "panicked"}]
    BY <1>1, Zenon DEF DataOK, ReceiverStep
  <2>2. calls' \in [Ends -> [Channels -> Nat]]
    <3>1. calls \in [Ends -> [Channels -> Nat]] BY DEF DataOK
    <3>2. ASSUME NEW e \in Ends, NEW ch \in Channels, calls' = [calls EXCEPT ![e][ch] = @ + 1]
          PROVE  calls' \in [Ends -> [Channels -> Nat]]
      <4>1. calls[e][ch] + 1 \in Nat BY <3>1
      <4> QED BY <3>1, <3>2, <4>1
    <3> QED BY <1>1, <3>1, <3>2 DEF CallsStep
  <2> QED BY <1>1, <2>1, <2>2 DEF DataOK, Quiet
<1>2. ASSUME NEW e \in Ends, NEW ch \in Channels, SendBytes(e, ch) PROVE DataOK'
  <2> DEFINE k == calls[e][ch] + 1
             msg == Message(k, Lengths[e][ch][k])
  <2>1. k \in Nat \ {0} BY DEF DataOK
  <2>2. /\ k <= Len(Lengths[e][ch])
        /\ calls' = [calls EXCEPT ![e][ch] = k]
        /\ queue' = [queue EXCEPT ![e][ch] = Append(@, msg)]
        /\ accepted' = [accepted EXCEPT ![e][ch] = Append(@, msg)]
        /\ waking' = [waking EXCEPT ![e][ch] = TRUE]
        /\ UNCHANGED <<queueSize, sending, buf, bufErr, net, receiver, recving, delivered>>
    BY <1>2 DEF SendBytes, sendVars, recvVars
  <2>3. msg \in Msgs BY <2>1, <2>2, MessageType
  <2> HIDE DEF k, msg
  <2>4. Append(queue[e][ch], msg) \in Seq(Msgs) /\ Append(accepted[e][ch], msg) \in Seq(Msgs)
    BY <2>3 DEF DataOK
  <2>5. calls' \in [Ends -> [Channels -> Nat]] /\ waking' \in [Ends -> [Channels -> BOOLEAN]]
    BY <2>1, <2>2 DEF DataOK
  <2>6. /\ queue' \in [Ends -> [Channels -> Seq(Msgs)]]
        /\ accepted' \in [Ends -> [Channels -> Seq(Msgs)]]
    BY <2>2, <2>4 DEF DataOK
  <2> QED BY <2>2, <2>5, <2>6, Zenon DEF DataOK
<1>3. ASSUME NEW e \in Ends, NEW ch \in Channels, Wake(e, ch) PROVE DataOK'
  BY <1>3 DEF Wake, DataOK, recvVars
<1>4. ASSUME NEW e \in Ends, NEW pkts \in Control, Written(e, pkts), ReceiverStep PROVE DataOK'
  <2>1. receiver' \in [Ends -> {"read", "pong", "done", "panicked"}]
    BY <1>4, Zenon DEF DataOK, ReceiverStep
  <2>2. /\ buf' \in [Ends -> Seq(Packet)] /\ net' \in [Ends -> Seq(Packet)]
        /\ bufErr' \in [Ends -> BOOLEAN]
    BY <1>4, FlushType, ControlPackets DEF Written
  <2> QED BY <1>4, <2>1, <2>2 DEF DataOK, Written
<1>5. ASSUME NEW e \in Ends, SendPacket(e) PROVE DataOK'
  <2>1. PICK ch \in Channels : Packs(e, ch, nextMsgPacket(ch, Pulled(e)[ch]))
    BY <1>5, SendPacketPacks
  <2> DEFINE S == Pulled(e)[ch]
             pkt == nextMsgPacket(ch, S)
  <2>2. S \in Seq(Byte) /\ S # <<>> BY <2>1, PulledType DEF Packs
  <2>3. pkt \in Packet /\ Rest(S, pkt) \in Seq(Byte) BY <2>2, PacketFields
  <2>4. Pulled(e) \in [Channels -> Seq(Byte)] /\ LeftInQueue(e) \in [Channels -> Seq(Msgs)]
    <3>1. \A d \in Channels : Pulled(e)[d] \in Seq(Byte) /\ LeftInQueue(e)[d] \in Seq(Msgs)
      BY PulledType
    <3>2. Pulled(e) = [d \in Channels |-> Pulled(e)[d]] BY DEF Pulled
    <3>3. LeftInQueue(e) = [d \in Channels |-> LeftInQueue(e)[d]] BY DEF LeftInQueue
    <3> QED BY <3>1, <3>2, <3>3
  <2>5. /\ sending' = [sending EXCEPT ![e] = [Pulled(e) EXCEPT ![ch] = Rest(S, pkt)]]
        /\ queue' = [queue EXCEPT ![e] = LeftInQueue(e)]
        /\ queueSize' = IF pkt.eof THEN [queueSize EXCEPT ![e][ch] = @ - 1] ELSE queueSize
        /\ \/ FlushOK(e, <<pkt>>)
           \/ /\ ~bufErr[e] /\ buf' = [buf EXCEPT ![e] = Append(@, pkt)]
              /\ UNCHANGED <<bufErr, net>>
           \/ FlushFails(e, <<pkt>>)
        /\ UNCHANGED <<calls, waking, accepted, receiver, recving, delivered>>
    BY <2>1 DEF Packs
  <2> HIDE DEF S, pkt
  <2>6. sending' \in [Ends -> [Channels -> Seq(Byte)]] BY <2>3, <2>4, <2>5 DEF DataOK
  <2>7. queue' \in [Ends -> [Channels -> Seq(Msgs)]] BY <2>4, <2>5 DEF DataOK
  <2>8. queueSize' \in [Ends -> [Channels -> Int]] BY <2>5 DEF DataOK
  <2>9. /\ buf' \in [Ends -> Seq(Packet)] /\ net' \in [Ends -> Seq(Packet)]
        /\ bufErr' \in [Ends -> BOOLEAN]
    <3>1. <<pkt>> \in Seq(Packet) BY <2>3
    <3>2. buf[e] \in Seq(Packet) BY DEF DataOK
    <3>3. Append(buf[e], pkt) \in Seq(Packet) BY <2>3, <3>2
    <3>4. CASE buf' = [buf EXCEPT ![e] = Append(@, pkt)] /\ UNCHANGED <<bufErr, net>>
      BY <3>3, <3>4 DEF DataOK
    <3> QED BY <2>5, <3>1, <3>4, FlushType, Zenon
  <2> QED BY <2>5, <2>6, <2>7, <2>8, <2>9, Zenon DEF DataOK
<1>6. ASSUME NEW e \in Ends, RecvPacket(e) PROVE DataOK'
  <2> DEFINE f == Other(e)
             pkt == Head(net[f])
  <2>1. Reads(e, pkt) BY <1>6, RecvPacketReads
  <2>2. f \in Ends /\ net[f] \in Seq(Packet) /\ net[f] # <<>>
    BY <2>1, OtherEnd, Zenon DEF DataOK, Reads
  <2>3. pkt \in Packet /\ Tail(net[f]) \in Seq(Packet) BY <2>2
  <2> HIDE DEF pkt, f
  <2>4. net' \in [Ends -> Seq(Packet)]
    <3>1. net' = [net EXCEPT ![f] = Tail(@)] BY <2>1, Zenon DEF Reads, f
    <3>2. net \in [Ends -> Seq(Packet)] BY DEF DataOK
    <3> QED BY <2>2, <2>3, <3>1, <3>2
  <2>5. receiver' \in [Ends -> {"read", "pong", "done", "panicked"}] BY <2>1, Zenon DEF Reads, DataOK
  <2>6. /\ recving' \in [Ends -> [Channels -> Seq(Byte)]]
        /\ delivered' \in [Ends -> [Channels -> Seq(Seq(Byte))]]
    <3>1. CASE UNCHANGED <<recving, delivered>> BY <3>1 DEF DataOK
    <3>2. CASE ~UNCHANGED <<recving, delivered>>
      <4> DEFINE bytes == recving[e][pkt.ch] \o pkt.bytes
      <4>1. /\ pkt.type = "msg"
            /\ recving' = [recving EXCEPT ![e][pkt.ch] = IF pkt.eof THEN <<>> ELSE bytes]
            /\ delivered' = IF pkt.eof
                            THEN [delivered EXCEPT ![e][pkt.ch] = Append(@, bytes)]
                            ELSE delivered
        BY <2>1, <3>2, Zenon DEF Reads
      <4>2. pkt.ch \in Channels /\ pkt.bytes \in Seq(Byte) BY <2>3, <4>1 DEF Packet
      <4>3. recving[e][pkt.ch] \in Seq(Byte) /\ delivered[e][pkt.ch] \in Seq(Seq(Byte))
        BY <4>2 DEF DataOK
      <4>4. bytes \in Seq(Byte) /\ <<>> \in Seq(Byte) BY <4>2, <4>3
      <4> HIDE DEF bytes
      <4>5. Append(delivered[e][pkt.ch], bytes) \in Seq(Seq(Byte)) BY <4>3, <4>4
      <4>6. recving' \in [Ends -> [Channels -> Seq(Byte)]] BY <4>1, <4>2, <4>4 DEF DataOK
      <4>7. delivered' \in [Ends -> [Channels -> Seq(Seq(Byte))]] BY <4>1, <4>2, <4>5 DEF DataOK
      <4> QED BY <4>6, <4>7
    <3> QED BY <3>1, <3>2
  <2> QED BY <2>1, <2>4, <2>5, <2>6, Zenon DEF Reads, DataOK
<1> QED BY <1>1, <1>2, <1>3, <1>4, <1>5, <1>6, StepCases

-----------------------------------------------------------------------------
(* sendQueueSize.                                                          *)

\* QueueSizeExact for one channel.
Exact(size, Q, S, w) ==
    size = Len(Q) + (IF S # <<>> THEN 1 ELSE 0) - (IF w THEN 1 ELSE 0)

\* QueueSizeExact is Exact of every channel.
LEMMA ExactAll ==
  QueueSizeExact <=> \A e \in Ends, ch \in Channels :
                       Exact(queueSize[e][ch], queue[e][ch], sending[e][ch], waking[e][ch])
  BY DEF QueueSizeExact, Exact

\* Send or TrySend queues a message before it counts it.
LEMMA ExactQueued ==
  ASSUME NEW size \in Int, NEW Q, Len(Q) \in Nat, NEW U, Len(U) = Len(Q) + 1, NEW S,
         Exact(size, Q, S, FALSE)
  PROVE  Exact(size, U, S, TRUE)
<1>1. CASE S = <<>> BY <1>1 DEF Exact
<1>2. CASE S # <<>> BY <1>2 DEF Exact
<1> QED BY <1>1, <1>2, Zenon

\* atomic.AddInt32(&ch.sendQueueSize, 1).
LEMMA ExactCounted ==
  ASSUME NEW size \in Int, NEW Q, Len(Q) \in Nat, NEW S, Exact(size, Q, S, TRUE)
  PROVE  Exact(size + 1, Q, S, FALSE)
<1>1. CASE S = <<>> BY <1>1 DEF Exact
<1>2. CASE S # <<>> BY <1>2 DEF Exact
<1> QED BY <1>1, <1>2, Zenon

\* isSendPending moves a message from the queue to the hand.
LEMMA ExactTaken ==
  ASSUME NEW size \in Int, NEW Q, Len(Q) \in Nat, NEW U, Len(U) = Len(Q) - 1,
         NEW S, S # <<>>, NEW w \in BOOLEAN, Exact(size, Q, <<>>, w)
  PROVE  Exact(size, U, S, w)
<1>1. CASE w = TRUE BY <1>1 DEF Exact
<1>2. CASE w = FALSE BY <1>2 DEF Exact
<1> QED BY <1>1, <1>2, Zenon

\* The last packet of the message in hand is made: the count is lowered.
LEMMA ExactSent ==
  ASSUME NEW size \in Int, NEW Q, Len(Q) \in Nat, NEW S, S # <<>>, NEW w \in BOOLEAN,
         Exact(size, Q, S, w)
  PROVE  Exact(size - 1, Q, <<>>, w)
<1>1. CASE w = TRUE BY <1>1 DEF Exact
<1>2. CASE w = FALSE BY <1>2 DEF Exact
<1> QED BY <1>1, <1>2, Zenon

\* A packet that is not the last one leaves the count.
LEMMA ExactOn ==
  ASSUME NEW size, NEW Q, NEW S, S # <<>>, NEW T, T # <<>>, NEW w, Exact(size, Q, S, w)
  PROVE  Exact(size, Q, T, w)
  BY DEF Exact

\* Every step keeps the count exact.
LEMMA SizeStep == DataOK /\ QueueSizeExact /\ [Next]_vars => QueueSizeExact'
<1> SUFFICES ASSUME DataOK, QueueSizeExact, [Next]_vars,
                    NEW e \in Ends, NEW ch \in Channels
             PROVE  Exact(queueSize'[e][ch], queue'[e][ch], sending'[e][ch], waking'[e][ch])
  BY ExactAll, Zenon DEF QueueSizeExact, Exact
<1> DEFINE New == Exact(queueSize'[e][ch], queue'[e][ch], sending'[e][ch], waking'[e][ch])
<1>0. Exact(queueSize[e][ch], queue[e][ch], sending[e][ch], waking[e][ch])
  BY ExactAll
<1>1. /\ queue[e][ch] \in Seq(Msgs) /\ waking[e][ch] \in BOOLEAN
      /\ queueSize[e][ch] \in Int
  BY DEF DataOK
<1>2. Len(queue[e][ch]) \in Nat BY <1>1, LenProperties, Zenon
<1>3. CASE Quiet \/ UNCHANGED <<waking, queue, queueSize, sending>>
  BY <1>0, <1>3 DEF Quiet
<1>4. ASSUME NEW f \in Ends, NEW d \in Channels, SendBytes(f, d) PROVE New
  <2> DEFINE msg == Message(calls[f][d] + 1, Lengths[f][d][calls[f][d] + 1])
  <2>1. /\ queueSize' = queueSize /\ sending' = sending /\ ~waking[f][d]
        /\ queue' = [queue EXCEPT ![f][d] = Append(@, msg)]
        /\ waking' = [waking EXCEPT ![f][d] = TRUE]
    BY <1>4 DEF SendBytes, sendVars
  <2> HIDE DEF msg
  <2>2. CASE f = e /\ d = ch
    <3>1. queue'[e][ch] = Append(queue[e][ch], msg) BY <2>1, <2>2 DEF DataOK
    <3>2. Len(queue'[e][ch]) = Len(queue[e][ch]) + 1 BY <1>1, <3>1
    <3>3. waking[e][ch] = FALSE /\ waking'[e][ch] = TRUE BY <1>1, <2>1, <2>2 DEF DataOK
    <3>4. Exact(queueSize[e][ch], queue'[e][ch], sending[e][ch], TRUE)
      BY <1>0, <1>1, <1>2, <3>2, <3>3, ExactQueued, Zenon
    <3> QED BY <2>1, <3>3, <3>4, Zenon
  <2>3. CASE ~(f = e /\ d = ch)
    <3>1. queue'[e][ch] = queue[e][ch] /\ waking'[e][ch] = waking[e][ch]
      BY <2>1, <2>3, Zenon DEF DataOK
    <3> QED BY <1>0, <2>1, <3>1, Zenon
  <2> QED BY <2>2, <2>3
<1>5. ASSUME NEW f \in Ends, NEW d \in Channels, Wake(f, d) PROVE New
  <2>1. /\ queue' = queue /\ sending' = sending /\ waking[f][d]
        /\ waking' = [waking EXCEPT ![f][d] = FALSE]
        /\ queueSize' = [queueSize EXCEPT ![f][d] = @ + 1]
    BY <1>5 DEF Wake
  <2>2. CASE f = e /\ d = ch
    <3>1. queueSize'[e][ch] = queueSize[e][ch] + 1 BY <2>1, <2>2 DEF DataOK
    <3>2. waking[e][ch] = TRUE /\ waking'[e][ch] = FALSE BY <1>1, <2>1, <2>2 DEF DataOK
    <3>3. Exact(queueSize[e][ch] + 1, queue[e][ch], sending[e][ch], FALSE)
      BY <1>0, <1>1, <1>2, <3>2, ExactCounted, Zenon
    <3> QED BY <2>1, <3>1, <3>2, <3>3, Zenon
  <2>3. CASE ~(f = e /\ d = ch)
    <3>1. queueSize'[e][ch] = queueSize[e][ch] /\ waking'[e][ch] = waking[e][ch]
      BY <2>1, <2>3, Zenon DEF DataOK
    <3> QED BY <1>0, <2>1, <3>1, Zenon
  <2> QED BY <2>2, <2>3
<1>6. ASSUME NEW f \in Ends, SendPacket(f) PROVE New
  <2>1. PICK d \in Channels : Packs(f, d, nextMsgPacket(d, Pulled(f)[d]))
    BY <1>6, SendPacketPacks
  <2> DEFINE S == Pulled(f)[d]
             pkt == nextMsgPacket(d, S)
             T == Pulled(e)[ch]
             L == LeftInQueue(e)[ch]
  <2>2. S \in Seq(Byte) /\ S # <<>> BY <2>1, PulledType DEF Packs
  <2>3. pkt.eof <=> Rest(S, pkt) = <<>> BY <2>2, PacketFields
  <2>4. /\ sending' = [sending EXCEPT ![f] = [Pulled(f) EXCEPT ![d] = Rest(S, pkt)]]
        /\ queue' = [queue EXCEPT ![f] = LeftInQueue(f)]
        /\ queueSize' = IF pkt.eof THEN [queueSize EXCEPT ![f][d] = @ - 1] ELSE queueSize
        /\ waking' = waking
    BY <2>1 DEF Packs
  <2>5. Exact(queueSize[e][ch], L, T, waking[e][ch]) /\ Len(L) \in Nat
    <3>1. CASE T = sending[e][ch] /\ L = queue[e][ch] BY <1>0, <1>2, <3>1
    <3>2. CASE /\ sending[e][ch] = <<>> /\ queue[e][ch] # <<>>
               /\ T = Head(queue[e][ch]) /\ L = Tail(queue[e][ch])
      <4>1. /\ Head(queue[e][ch]) \in Msgs /\ Tail(queue[e][ch]) \in Seq(Msgs)
            /\ Len(Tail(queue[e][ch])) = Len(queue[e][ch]) - 1
        BY <1>1, <3>2
      <4>2. T # <<>> BY <3>2, <4>1 DEF Msgs
      <4>3. Len(L) \in Nat BY <3>2, <4>1
      <4>4. Len(L) = Len(queue[e][ch]) - 1 BY <3>2, <4>1
      <4>5. Exact(queueSize[e][ch], queue[e][ch], <<>>, waking[e][ch]) BY <1>0, <3>2
      <4> HIDE DEF L, T
      <4> QED BY <1>1, <1>2, <4>2, <4>3, <4>4, <4>5, ExactTaken
    <3> QED BY <3>1, <3>2, PulledType
  <2>6. CASE f # e
    <3>1. /\ sending'[e] = sending[e] /\ queue'[e] = queue[e]
          /\ queueSize'[e][ch] = queueSize[e][ch]
      BY <2>4, <2>6 DEF DataOK
    <3> QED BY <1>0, <2>4, <3>1, Zenon
  <2>7. CASE f = e /\ d # ch
    <3>1. sending'[e][ch] = T
      <4>1. sending'[e] = [Pulled(e) EXCEPT ![d] = Rest(S, pkt)] BY <2>4, <2>7 DEF DataOK
      <4> QED BY <2>7, <4>1 DEF Pulled
    <3>2. queue'[e][ch] = L BY <2>4, <2>7 DEF DataOK
    <3>3. queueSize'[e][ch] = queueSize[e][ch] BY <2>4, <2>7 DEF DataOK
    <3> HIDE DEF T, L
    <3> QED BY <2>4, <2>5, <3>1, <3>2, <3>3
  <2>8. CASE f = e /\ d = ch
    <3>1. sending'[e][ch] = Rest(S, pkt)
      <4>1. sending'[e] = [Pulled(e) EXCEPT ![ch] = Rest(S, pkt)] BY <2>4, <2>8 DEF DataOK
      <4> QED BY <4>1 DEF Pulled
    <3>2. queue'[e][ch] = L BY <2>4, <2>8 DEF DataOK
    <3>3. queueSize'[e][ch] = IF pkt.eof THEN queueSize[e][ch] - 1 ELSE queueSize[e][ch]
      BY <2>4, <2>8 DEF DataOK
    <3>4. T # <<>> BY <2>2, <2>8
    <3>5. waking'[e][ch] = waking[e][ch] BY <2>4
    <3> HIDE DEF T, L, pkt, S
    <3>6. CASE pkt.eof
      <4>1. Exact(queueSize[e][ch] - 1, L, <<>>, waking[e][ch])
        BY <1>1, <2>5, <3>4, ExactSent
      <4> QED BY <2>3, <3>1, <3>2, <3>3, <3>5, <3>6, <4>1
    <3>7. CASE ~pkt.eof
      <4>1. sending'[e][ch] # <<>> BY <2>3, <3>1, <3>7
      <4>2. Exact(queueSize[e][ch], L, sending'[e][ch], waking[e][ch])
        BY <2>5, <3>4, <4>1, ExactOn
      <4> QED BY <3>2, <3>3, <3>5, <3>7, <4>2
    <3> QED BY <3>6, <3>7
  <2> QED BY <2>6, <2>7, <2>8
<1>7. ASSUME NEW f \in Ends, RecvPacket(f) PROVE UNCHANGED <<waking, queue, queueSize, sending>>
  BY <1>7 DEF RecvPacket, chanVars
<1>8. ASSUME NEW f \in Ends, NEW pkts, Written(f, pkts)
      PROVE  UNCHANGED <<waking, queue, queueSize, sending>>
  BY <1>8 DEF Written
<1> QED BY <1>3, <1>4, <1>5, <1>6, <1>7, <1>8, StepCases

\* sendQueueSize is exact up to the callers between queueing and counting, with
\* any number of channels, callers and messages; CanSend and Status read it.
THEOREM QueueSizeAlwaysExact == Spec => []QueueSizeExact
<1>1. Init => QueueSizeExact
  <2>1. Exact(0, <<>>, <<>>, FALSE) BY DEF Exact
  <2>2. Init => \A e \in Ends, ch \in Channels :
                  /\ queueSize[e][ch] = 0 /\ queue[e][ch] = <<>>
                  /\ sending[e][ch] = <<>> /\ waking[e][ch] = FALSE
    BY DEF Init, PerChannel
  <2> QED BY <2>1, <2>2, ExactAll, Zenon
<1> QED BY <1>1, DataInit, DataStep, SizeStep, PTL DEF Spec

-----------------------------------------------------------------------------
(* Delivery.  While the receiver reads, the packets on their way connect   *)
(* its position to that of the sender, or to nothing once the writer has   *)
(* failed; when it has given up, what it delivered is still a prefix.      *)

\* recvRoutine of end e has not given up.
Reading(e) == receiver[e] \in {"read", "pong"}

\* The packets on their way from end e: on the socket and in its writer.
Pipe(e) == IF bufErr[e] THEN net[e] ELSE net[e] \o buf[e]

\* The packets on their way connect sender and receiver.
Joined(e, ch) ==
    Linked(accepted[e][ch], Pipe(e), ch, delivered[Other(e)][ch], recving[Other(e)][ch],
           bufErr[e], sending[e][ch], queue[e][ch])

\* What the other end delivered is a prefix of what end e accepted.
Prefixed(e, ch) ==
    /\ Len(delivered[Other(e)][ch]) <= Len(accepted[e][ch])
    /\ \A j \in 1 .. Len(delivered[Other(e)][ch]) :
         delivered[Other(e)][ch][j] = accepted[e][ch][j]

DeliveryInv ==
    \A e \in Ends, ch \in Channels :
        Prefixed(e, ch) /\ (Reading(Other(e)) => Joined(e, ch))

\* What a linked receiver delivered is a prefix of what was accepted.
LEMMA LinkedPrefix ==
  ASSUME NEW A, NEW P \in Seq(Packet), NEW ch, NEW D, NEW R, NEW failed, NEW S, NEW Q,
         Linked(A, P, ch, D, R, failed, S, Q)
  PROVE  Len(D) <= Len(A) /\ \A j \in 1 .. Len(D) : D[j] = A[j]
<1>1. PICK at : Chain(A, P, ch, at) /\ RecvAt(A, D, R, at[0]) BY DEF Linked
<1> QED BY <1>1 DEF RecvAt

\* The packets on their way are packets.
LEMMA PipeType ==
  ASSUME DataOK, NEW e \in Ends PROVE Pipe(e) \in Seq(Packet)
<1>1. net[e] \in Seq(Packet) /\ buf[e] \in Seq(Packet) BY DEF DataOK
<1> QED BY <1>1 DEF Pipe

\* On a new connection both positions are the start of the stream.
LEMMA DeliveryInit == Init => DeliveryInv
<1> SUFFICES ASSUME Init, NEW e \in Ends, NEW ch \in Channels
             PROVE  Prefixed(e, ch) /\ Joined(e, ch)
  BY DEF DeliveryInv
<1>1. Other(e) \in Ends BY OtherEnd
<1>2. /\ accepted[e][ch] = <<>> /\ delivered[Other(e)][ch] = <<>>
      /\ recving[Other(e)][ch] = <<>> /\ sending[e][ch] = <<>> /\ queue[e][ch] = <<>>
      /\ bufErr[e] = FALSE /\ net[e] = <<>> /\ buf[e] = <<>>
  BY <1>1 DEF Init, PerChannel, PerEnd
<1>3. <<>> \o <<>> = <<>> OBVIOUS
<1>4. Pipe(e) = <<>> BY <1>2, <1>3 DEF Pipe
<1> DEFINE p == [m |-> 0, o |-> 0]
           at == [k \in 0 .. 0 |-> p]
<1>5. p \in Pos /\ p.m = 0 /\ p.o = 0 BY DEF Pos
<1>6. at[0] = p OBVIOUS
<1>7. Chain(<<>>, <<>>, ch, at) BY <1>5 DEF Chain
<1> HIDE DEF p, at
<1>8. RecvAt(<<>>, <<>>, <<>>, at[0]) BY <1>5, <1>6 DEF RecvAt
<1>9. SendAt(<<>>, <<>>, <<>>, at[0]) BY <1>5, <1>6 DEF SendAt
<1>10. Linked(<<>>, <<>>, ch, <<>>, <<>>, FALSE, <<>>, <<>>)
  <2>1. Len(<<>>) = 0 OBVIOUS
  <2> QED BY <1>7, <1>8, <1>9, <2>1 DEF Linked
<1>11. Joined(e, ch) BY <1>2, <1>4, <1>10, Zenon DEF Joined
<1> QED BY <1>2, <1>11 DEF Prefixed

\* A step that touches nothing of one direction of a channel.
LEMMA DeliveryKeeps ==
  ASSUME NEW e \in Ends, NEW ch \in Channels,
         Prefixed(e, ch), Reading(Other(e)) => Joined(e, ch),
         accepted'[e][ch] = accepted[e][ch], net'[e] = net[e], buf'[e] = buf[e],
         bufErr'[e] = bufErr[e], sending'[e][ch] = sending[e][ch],
         queue'[e][ch] = queue[e][ch],
         delivered'[Other(e)][ch] = delivered[Other(e)][ch],
         recving'[Other(e)][ch] = recving[Other(e)][ch],
         Reading(Other(e))' => Reading(Other(e))
  PROVE  Prefixed(e, ch)' /\ (Reading(Other(e))' => Joined(e, ch)')
<1>1. Pipe(e)' = Pipe(e) BY DEF Pipe
<1> QED BY <1>1 DEF Prefixed, Joined

\* A step that leaves what was accepted and delivered.
LEMMA DeliverySends ==
  ASSUME NEW e \in Ends, NEW ch \in Channels,
         Prefixed(e, ch), Reading(Other(e)) => Joined(e, ch),
         accepted'[e][ch] = accepted[e][ch],
         delivered'[Other(e)][ch] = delivered[Other(e)][ch],
         Reading(Other(e))' => Reading(Other(e)),
         Joined(e, ch) => Joined(e, ch)'
  PROVE  Prefixed(e, ch)' /\ (Reading(Other(e))' => Joined(e, ch)')
  BY DEF Prefixed

\* recvRoutine never reads again once it has given up.
LEMMA ReceiverReading ==
  ASSUME DataOK, ReceiverStep, NEW e \in Ends, Reading(e)'
  PROVE  Reading(e)
  BY DEF DataOK, ReceiverStep, Reading

\* Appending to the second of two sequences appends to their concatenation.
LEMMA AppendConcat ==
  ASSUME NEW X, NEW x \in X
  PROVE  \A s, t \in Seq(X) : /\ Append(s \o t, x) = s \o t \o <<x>>
                              /\ Append(s \o t, x) = s \o Append(t, x)
<1> TAKE s, t \in Seq(X)
<1>1. \A u \in Seq(X) : Append(u, x) = u \o <<x>> BY AppendIsConcat
<1>2. s \o t \in Seq(X) /\ <<x>> \in Seq(X) OBVIOUS
<1>3. (s \o t) \o <<x>> = s \o (t \o <<x>>) BY <1>2, ConcatAssociative
<1> QED BY <1>1, <1>2, <1>3, Zenon

\* The three outcomes of writing the packet pkt or nothing.
LEMMA PipeAppend ==
  ASSUME DataOK, NEW e \in Ends, NEW pkt \in Packet, ~bufErr[e],
         \/ FlushOK(e, <<pkt>>)
         \/ buf' = [buf EXCEPT ![e] = Append(@, pkt)] /\ UNCHANGED <<bufErr, net>>
  PROVE  Pipe(e)' = Append(Pipe(e), pkt) /\ bufErr' = bufErr
<1>1. net[e] \in Seq(Packet) /\ buf[e] \in Seq(Packet) /\ <<pkt>> \in Seq(Packet) BY DEF DataOK
<1>2. Pipe(e) = net[e] \o buf[e] BY Zenon DEF Pipe
<1> HIDE DEF Packet
<1>3. \A s, t \in Seq(Packet) : /\ Append(s \o t, pkt) = s \o t \o <<pkt>>
                                /\ Append(s \o t, pkt) = s \o Append(t, pkt)
  BY AppendConcat, Zenon
<1>4. Append(net[e] \o buf[e], pkt) = net[e] \o buf[e] \o <<pkt>> BY <1>1, <1>3, Zenon
<1>5. Append(net[e] \o buf[e], pkt) = net[e] \o Append(buf[e], pkt) BY <1>1, <1>3, Zenon
<1>6. CASE FlushOK(e, <<pkt>>)
  <2>1. net'[e] = net[e] \o buf[e] \o <<pkt>> /\ buf'[e] = <<>> /\ bufErr' = bufErr
    BY <1>6 DEF FlushOK, DataOK
  <2>2. net'[e] \in Seq(Packet) BY <1>1, <2>1
  <2>3. net'[e] \o <<>> = net'[e] BY <2>2, ConcatEmptySeq, Zenon
  <2> QED BY <1>2, <1>4, <2>1, <2>3, Zenon DEF Pipe
<1>7. CASE buf' = [buf EXCEPT ![e] = Append(@, pkt)] /\ UNCHANGED <<bufErr, net>>
  <2>1. net'[e] = net[e] /\ buf'[e] = Append(buf[e], pkt) /\ bufErr' = bufErr
    BY <1>7 DEF DataOK
  <2> QED BY <1>2, <1>5, <2>1, Zenon DEF Pipe
<1> QED BY <1>6, <1>7

\* A flush alone moves the buffered packets to the socket.
LEMMA PipeFlush ==
  ASSUME DataOK, NEW e \in Ends, FlushOK(e, <<>>)
  PROVE  Pipe(e)' = Pipe(e) /\ bufErr' = bufErr
<1>1. net[e] \in Seq(Packet) /\ buf[e] \in Seq(Packet) BY DEF DataOK
<1>2. /\ ~bufErr[e] /\ net'[e] = net[e] \o buf[e] \o <<>> /\ buf'[e] = <<>> /\ bufErr' = bufErr
  BY DEF FlushOK, DataOK
<1>3. net[e] \o buf[e] \in Seq(Packet) BY <1>1, ConcatProperties, Zenon
<1>4. net[e] \o buf[e] \o <<>> = net[e] \o buf[e] BY <1>3, ConcatEmptySeq, Zenon
<1>5. net'[e] \o <<>> = net[e] \o buf[e] BY <1>2, <1>4, Zenon
<1> QED BY <1>2, <1>5, Zenon DEF Pipe

\* A failed write drops the buffered packets.
LEMMA PipeFails ==
  ASSUME DataOK, NEW e \in Ends, NEW pkts, FlushFails(e, pkts), NEW ch \in Channels,
         Joined(e, ch), NEW T, NEW U
  PROVE  /\ bufErr'[e] /\ Pipe(e)' = net[e]
         /\ Linked(accepted[e][ch], net[e], ch, delivered[Other(e)][ch],
                   recving[Other(e)][ch], TRUE, T, U)
<1>1. net[e] \in Seq(Packet) /\ buf[e] \in Seq(Packet) BY DEF DataOK
<1>2. bufErr'[e] = TRUE /\ net' = net BY DEF FlushFails, DataOK
<1>3. \E B \in Seq(Packet) : Pipe(e) = net[e] \o B
  <2>1. <<>> \in Seq(Packet) /\ net[e] \o <<>> = net[e] BY <1>1
  <2> QED BY <1>1, <2>1, Zenon DEF Pipe
<1>4. PICK B \in Seq(Packet) : Pipe(e) = net[e] \o B BY <1>3
<1>5. Linked(accepted[e][ch], net[e], ch, delivered[Other(e)][ch], recving[Other(e)][ch], TRUE, T, U)
  <2>1. Linked(accepted[e][ch], net[e] \o B, ch, delivered[Other(e)][ch],
               recving[Other(e)][ch], bufErr[e], sending[e][ch], queue[e][ch])
    BY <1>4 DEF Joined
  <2> QED BY <1>1, <2>1, LinkedCut, Zenon
<1> QED BY <1>2, <1>5, Zenon DEF Pipe

\* Send and TrySend keep the invariant ...
LEMMA AcceptDelivery ==
  ASSUME DataOK, DataOK', DeliveryInv, NEW f \in Ends, NEW d \in Channels, SendBytes(f, d),
         NEW e \in Ends, NEW ch \in Channels
  PROVE  Prefixed(e, ch)' /\ (Reading(Other(e))' => Joined(e, ch)')
<1> DEFINE k == calls[f][d] + 1
           msg == Message(k, Lengths[f][d][k])
<1>1. /\ k <= Len(Lengths[f][d])
      /\ queue' = [queue EXCEPT ![f][d] = Append(@, msg)]
      /\ accepted' = [accepted EXCEPT ![f][d] = Append(@, msg)]
      /\ UNCHANGED <<sending, buf, bufErr, net, receiver, recving, delivered>>
  <2>1. k <= Len(Lengths[f][d]) BY DEF SendBytes
  <2>2. /\ queue' = [queue EXCEPT ![f][d] = Append(@, msg)]
        /\ accepted' = [accepted EXCEPT ![f][d] = Append(@, msg)]
    BY Zenon DEF SendBytes
  <2>3. UNCHANGED <<sending, buf, bufErr, net, receiver, recving, delivered>>
    BY DEF SendBytes, sendVars, recvVars
  <2> QED BY <2>1, <2>2, <2>3
<1>2. k \in Nat \ {0}
  <2>1. calls[f][d] \in Nat BY DEF DataOK
  <2> QED BY <2>1
<1>3. msg \in Msgs BY <1>1, <1>2, MessageType
<1>4. Prefixed(e, ch) /\ (Reading(Other(e)) => Joined(e, ch)) BY DEF DeliveryInv
<1> HIDE DEF k, msg
<1>5. CASE ~(f = e /\ d = ch)
  <2>1. accepted'[e][ch] = accepted[e][ch] /\ queue'[e][ch] = queue[e][ch]
    <3>1. /\ accepted \in [Ends -> [Channels -> Seq(Msgs)]]
          /\ queue \in [Ends -> [Channels -> Seq(Msgs)]]
      BY Zenon DEF DataOK
    <3>2. accepted'[e][ch] = accepted[e][ch] BY <1>1, <1>5, <3>1
    <3>3. queue'[e][ch] = queue[e][ch] BY <1>1, <1>5, <3>1
    <3> QED BY <3>2, <3>3
  <2>2. Reading(Other(e))' => Reading(Other(e)) BY <1>1 DEF Reading
  <2> QED BY <1>1, <1>4, <2>1, <2>2, DeliveryKeeps
<1>6. CASE f = e /\ d = ch
  <2> DEFINE A == accepted[e][ch]
             D == delivered[Other(e)][ch]
             R == recving[Other(e)][ch]
             S == sending[e][ch]
             Q == queue[e][ch]
  <2>1. accepted'[e][ch] = Append(A, msg) /\ queue'[e][ch] = Append(Q, msg)
    BY <1>1, <1>6 DEF DataOK
  <2>2. A \in Seq(Msgs) /\ S \in Seq(Byte) /\ Q \in Seq(Msgs) /\ Pipe(e) \in Seq(Packet)
    BY PipeType, Zenon DEF DataOK
  <2>3. D \in Seq(Seq(Byte)) BY OtherEnd DEF DataOK
  <2>4. Pipe(e)' = Pipe(e) /\ bufErr' = bufErr /\ delivered' = delivered /\ recving' = recving
        /\ sending' = sending
    BY <1>1 DEF Pipe
  <2>5. Reading(Other(e))' => Joined(e, ch)'
    <3> SUFFICES ASSUME Reading(Other(e))' PROVE Joined(e, ch)' OBVIOUS
    <3>1. Linked(A, Pipe(e), ch, D, R, bufErr[e], S, Q) BY <1>1, <1>4 DEF Reading, Joined
    <3> HIDE DEF A, D, R, S, Q
    <3>2. Linked(Append(A, msg), Pipe(e), ch, D, R, bufErr[e], S, Append(Q, msg))
      BY <1>3, <2>2, <3>1, LinkedAccept
    <3> QED BY <2>1, <2>4, <3>2 DEF Joined, D, R, S
  <2>6. Prefixed(e, ch)'
    <3>1. Len(D) <= Len(A) /\ \A j \in 1 .. Len(D) : D[j] = A[j] BY <1>4 DEF Prefixed
    <3> HIDE DEF A, D
    <3>2. /\ Len(D) \in Nat /\ Len(A) \in Nat /\ Len(Append(A, msg)) = Len(A) + 1
          /\ \A j \in 1 .. Len(A) : Append(A, msg)[j] = A[j]
      BY <1>3, <2>2, <2>3, AppendProperties
    <3>3. Len(D) <= Len(Append(A, msg)) BY <3>1, <3>2
    <3>4. \A j \in 1 .. Len(D) : D[j] = Append(A, msg)[j] BY <3>1, <3>2
    <3> QED BY <2>1, <2>4, <3>3, <3>4 DEF Prefixed, D
  <2> QED BY <2>5, <2>6
<1> QED BY <1>5, <1>6

\* ... and so do the flush timer, the pings and the pongs ...
LEMMA WrittenDelivery ==
  ASSUME DataOK, DeliveryInv, NEW f \in Ends, NEW pkts \in Control, Written(f, pkts), ReceiverStep,
         NEW e \in Ends, NEW ch \in Channels
  PROVE  Prefixed(e, ch)' /\ (Reading(Other(e))' => Joined(e, ch)')
<1>1. Prefixed(e, ch) /\ (Reading(Other(e)) => Joined(e, ch)) BY DEF DeliveryInv
<1>2. Reading(Other(e))' => Reading(Other(e)) BY OtherEnd, ReceiverReading
<1>3. UNCHANGED <<queue, accepted, sending, recving, delivered>> BY DEF Written
<1>4. CASE f # e
  <2>1. net'[e] = net[e] /\ buf'[e] = buf[e] /\ bufErr'[e] = bufErr[e]
    BY <1>4 DEF Written, FlushOK, FlushFails, DataOK
  <2> QED BY <1>1, <1>2, <1>3, <2>1, DeliveryKeeps
<1>5. CASE f = e
  <2> SUFFICES ASSUME Joined(e, ch) PROVE Joined(e, ch)'
    BY <1>1, <1>2, <1>3, DeliverySends
  <2>1. CASE FlushFails(e, pkts)
    <3>1. /\ bufErr'[e] /\ Pipe(e)' = net[e]
          /\ Linked(accepted[e][ch], net[e], ch, delivered[Other(e)][ch],
                    recving[Other(e)][ch], TRUE, sending[e][ch], queue[e][ch])
      BY <2>1, PipeFails, Zenon
    <3>2. bufErr'[e] = TRUE BY <2>1 DEF FlushFails, DataOK
    <3> QED BY <1>3, <3>1, <3>2, Zenon DEF Joined
  <2>2. CASE FlushOK(e, pkts) /\ pkts = <<>>
    <3>1. Pipe(e)' = Pipe(e) /\ bufErr' = bufErr BY <2>2, PipeFlush
    <3> QED BY <1>3, <3>1 DEF Joined
  <2>3. ASSUME NEW t \in {"ping", "pong"}, FlushOK(e, pkts), pkts = <<[type |-> t]>>
        PROVE  Joined(e, ch)'
    <3> DEFINE pkt == [type |-> t]
    <3>1. pkt \in Packet /\ pkt.type # "msg" BY DEF Packet
    <3>2. bufErr[e] = FALSE BY <2>3 DEF FlushOK, DataOK
    <3>3. FlushOK(e, <<pkt>>) BY <2>3
    <3> HIDE DEF pkt
    <3>4. Pipe(e)' = Append(Pipe(e), pkt) /\ bufErr' = bufErr
      BY <3>1, <3>2, <3>3, PipeAppend
    <3>5. Pipe(e) \in Seq(Packet) BY PipeType
    <3>6. Linked(accepted[e][ch], Pipe(e), ch, delivered[Other(e)][ch],
                 recving[Other(e)][ch], FALSE, sending[e][ch], queue[e][ch])
      BY <3>2, Zenon DEF Joined
    <3>7. Linked(accepted[e][ch], Append(Pipe(e), pkt), ch, delivered[Other(e)][ch],
                 recving[Other(e)][ch], FALSE, sending[e][ch], queue[e][ch])
      BY <3>1, <3>5, <3>6, LinkedOther, Zenon
    <3> QED BY <1>3, <3>2, <3>4, <3>7, Zenon DEF Joined
  <2>4. pkts = <<>> \/ \E t \in {"ping", "pong"} : pkts = <<[type |-> t]>> BY DEF Control
  <2> QED BY <1>5, <2>1, <2>2, <2>3, <2>4 DEF Written
<1> QED BY <1>4, <1>5

\* ... sendMsgPacket, which writes the next packet of the chosen channel ...
LEMMA PacksDelivery ==
  ASSUME DataOK, DeliveryInv, NEW f \in Ends, SendPacket(f),
         NEW e \in Ends, NEW ch \in Channels
  PROVE  Prefixed(e, ch)' /\ (Reading(Other(e))' => Joined(e, ch)')
<1>1. Prefixed(e, ch) /\ (Reading(Other(e)) => Joined(e, ch)) BY DEF DeliveryInv
<1>2. PICK d \in Channels : Packs(f, d, nextMsgPacket(d, Pulled(f)[d]))
  BY SendPacketPacks
<1> DEFINE W == Pulled(f)[d]
           pkt == nextMsgPacket(d, W)
<1>3. W \in Seq(Byte) /\ W # <<>> BY <1>2, PulledType DEF Packs
<1>4. pkt \in Packet /\ pkt.type = "msg" /\ pkt.ch = d BY <1>3, PacketFields
<1>5. /\ sending' = [sending EXCEPT ![f] = [Pulled(f) EXCEPT ![d] = Rest(W, pkt)]]
      /\ queue' = [queue EXCEPT ![f] = LeftInQueue(f)]
      /\ \/ FlushOK(f, <<pkt>>)
         \/ /\ ~bufErr[f] /\ buf' = [buf EXCEPT ![f] = Append(@, pkt)]
            /\ UNCHANGED <<bufErr, net>>
         \/ FlushFails(f, <<pkt>>)
      /\ UNCHANGED <<accepted, receiver, recving, delivered>>
  BY <1>2 DEF Packs
<1>6. pkt = nextMsgPacket(d, W) OBVIOUS
<1> HIDE DEF pkt
<1>7. Reading(Other(e))' => Reading(Other(e)) BY <1>5 DEF Reading
<1>8. CASE f # e
  <2>1. sending'[e][ch] = sending[e][ch] /\ queue'[e][ch] = queue[e][ch]
    BY <1>5, <1>8, Zenon DEF DataOK
  <2>2. net'[e] = net[e] /\ buf'[e] = buf[e] /\ bufErr'[e] = bufErr[e]
    BY <1>5, <1>8, Zenon DEF FlushOK, FlushFails, DataOK
  <2> QED BY <1>1, <1>5, <1>7, <2>1, <2>2, DeliveryKeeps
<1>9. CASE f = e
  <2> SUFFICES ASSUME Joined(e, ch) PROVE Joined(e, ch)'
    BY <1>1, <1>5, <1>7, DeliverySends
  <2> DEFINE A == accepted[e][ch]
             D == delivered[Other(e)][ch]
             R == recving[Other(e)][ch]
             T == Pulled(e)[ch]
             L == LeftInQueue(e)[ch]
             P == Pipe(e)
  <2>1. A \in Seq(Msgs) /\ P \in Seq(Packet) /\ T \in Seq(Byte) /\ L \in Seq(Msgs)
    BY PipeType, PulledType, Zenon DEF DataOK
  <2>2. queue'[e][ch] = L BY <1>5, <1>9 DEF DataOK
  <2>3. sending'[e][ch] = IF d = ch THEN Rest(W, pkt) ELSE T
    <3>1. sending'[e] = [Pulled(e) EXCEPT ![d] = Rest(W, pkt)] BY <1>5, <1>9 DEF DataOK
    <3> QED BY <3>1 DEF Pulled
  <2>4. CASE FlushFails(e, <<pkt>>)
    <3>1. /\ Pipe(e)' = net[e]
          /\ Linked(A, net[e], ch, D, R, TRUE, sending'[e][ch], queue'[e][ch])
      BY <2>4, PipeFails, Zenon
    <3>2. bufErr'[e] = TRUE BY <2>4 DEF FlushFails, DataOK
    <3> QED BY <1>5, <3>1, <3>2, Zenon DEF Joined
  <2>5. CASE ~FlushFails(e, <<pkt>>)
    <3>1. bufErr[e] = FALSE BY <1>5, <1>9, <2>5 DEF FlushOK, DataOK
    <3>2. Pipe(e)' = Append(P, pkt) /\ bufErr' = bufErr
      BY <1>4, <1>5, <1>9, <2>5, <3>1, PipeAppend
    <3>3. Linked(A, P, ch, D, R, FALSE, sending[e][ch], queue[e][ch]) BY <3>1, Zenon DEF Joined
    <3>4. Linked(A, P, ch, D, R, FALSE, T, L)
      <4>1. CASE T = sending[e][ch] /\ L = queue[e][ch] BY <3>3, <4>1, Zenon
      <4>2. CASE /\ sending[e][ch] = <<>> /\ queue[e][ch] # <<>>
                 /\ T = Head(queue[e][ch]) /\ L = Tail(queue[e][ch])
        <5>1. Linked(A, P, ch, D, R, FALSE, <<>>, queue[e][ch]) BY <3>3, <4>2, Zenon
        <5>2. queue[e][ch] \in Seq(Msgs) BY DEF DataOK
        <5>3. Linked(A, P, ch, D, R, FALSE, Head(queue[e][ch]), Tail(queue[e][ch]))
          BY <2>1, <4>2, <5>1, <5>2, LinkedPull, Zenon
        <5> QED BY <4>2, <5>3, Zenon
      <4> QED BY <4>1, <4>2, PulledType, Zenon
    <3>5. Linked(A, Append(P, pkt), ch, D, R, FALSE, sending'[e][ch], L)
      <4>1. CASE d # ch
        <5>1. ~(pkt.type = "msg" /\ pkt.ch = ch) BY <1>4, <4>1
        <5> HIDE DEF A, D, R, T, L, P
        <5>2. Linked(A, Append(P, pkt), ch, D, R, FALSE, T, L)
          BY <1>4, <2>1, <3>4, <5>1, LinkedOther, Zenon
        <5> QED BY <2>3, <4>1, <5>2, Zenon
      <4>2. CASE d = ch
        <5>1. W = T BY <1>9, <4>2
        <5> HIDE DEF A, D, R, T, L, P, W
        <5>2. Linked(A, Append(P, pkt), ch, D, R, FALSE, Rest(T, pkt), L)
          BY <1>3, <1>6, <2>1, <3>4, <4>2, <5>1, LinkedOwn, Zenon
        <5> QED BY <2>3, <4>2, <5>1, <5>2, Zenon
      <4> QED BY <4>1, <4>2, Zenon
    <3> QED BY <1>5, <2>2, <3>1, <3>2, <3>5, Zenon DEF Joined
  <2> QED BY <2>4, <2>5
<1> QED BY <1>8, <1>9

\* Taking the first of a concatenation takes the first of its first part.
LEMMA HeadTailConcat ==
  ASSUME NEW X
  PROVE  \A s, t \in Seq(X) : s # <<>> => /\ s \o t \in Seq(X) /\ s \o t # <<>>
                                          /\ Head(s \o t) = Head(s)
                                          /\ Tail(s \o t) = Tail(s) \o t
<1> SUFFICES ASSUME NEW s \in Seq(X), NEW t \in Seq(X), s # <<>>
             PROVE  /\ s \o t \in Seq(X) /\ s \o t # <<>>
                    /\ Head(s \o t) = Head(s)
                    /\ Tail(s \o t) = Tail(s) \o t
  OBVIOUS
<1>1. s \o t \in Seq(X) /\ s \o t # <<>> /\ Head(s \o t) = Head(s) OBVIOUS
<1>2. Tail(s \o t) = Tail(s) \o t OBVIOUS
<1> QED BY <1>1, <1>2

\* ... and recvRoutine, which takes the first packet and may deliver a message.
LEMMA ReadsDelivery ==
  ASSUME DataOK, DataOK', DeliveryInv, NEW f \in Ends, RecvPacket(f),
         NEW e \in Ends, NEW ch \in Channels
  PROVE  Prefixed(e, ch)' /\ (Reading(Other(e))' => Joined(e, ch)')
<1> DEFINE pkt == Head(net[Other(f)])
<1>1. Prefixed(e, ch) /\ (Reading(Other(e)) => Joined(e, ch)) BY DEF DeliveryInv
<1>2. Reads(f, pkt) BY RecvPacketReads
<1>3. CASE e = f
  <2>1. net'[e] = net[e] BY <1>2, <1>3, OtherEnd, Zenon DEF Reads, DataOK
  <2>2. /\ delivered'[Other(e)] = delivered[Other(e)] /\ recving'[Other(e)] = recving[Other(e)]
        /\ receiver'[Other(e)] = receiver[Other(e)]
    <3>1. /\ \/ recving' = recving
             \/ \E d, b : recving' = [recving EXCEPT ![f][d] = b]
          /\ \/ delivered' = delivered
             \/ \E d, b : delivered' = [delivered EXCEPT ![f][d] = b]
          /\ \/ receiver' = receiver
             \/ \E b : receiver' = [receiver EXCEPT ![f] = b]
      BY <1>2, Zenon DEF Reads
    <3>2. Other(e) # f /\ Other(e) \in Ends BY <1>3, OtherEnd
    <3>3. recving'[Other(e)] = recving[Other(e)]
      <4>1. recving \in [Ends -> [Channels -> Seq(Byte)]] BY DEF DataOK
      <4> QED BY <3>1, <3>2, <4>1
    <3>4. delivered'[Other(e)] = delivered[Other(e)]
      <4>1. delivered \in [Ends -> [Channels -> Seq(Seq(Byte))]] BY DEF DataOK
      <4> QED BY <3>1, <3>2, <4>1
    <3>5. receiver'[Other(e)] = receiver[Other(e)]
      <4>1. receiver \in [Ends -> {"read", "pong", "done", "panicked"}] BY DEF DataOK
      <4> QED BY <3>1, <3>2, <4>1
    <3> QED BY <3>3, <3>4, <3>5
  <2>3. UNCHANGED <<queue, accepted, sending, buf, bufErr>> BY <1>2, Zenon DEF Reads
  <2>4. Reading(Other(e))' => Reading(Other(e)) BY <2>2 DEF Reading
  <2> QED BY <1>1, <2>1, <2>2, <2>3, <2>4, DeliveryKeeps
<1>4. CASE e = Other(f)
  <2> DEFINE A == accepted[e][ch]
             D == delivered[f][ch]
             R == recving[f][ch]
             S == sending[e][ch]
             Q == queue[e][ch]
             P == Pipe(e)
             ours == pkt.type = "msg" /\ pkt.ch = ch
             bytes == R \o pkt.bytes
  <2>1. Other(e) = f /\ Other(f) = e BY <1>4, OtherEnd
  <2>2. net[e] # <<>> /\ receiver[f] = "read" /\ pkt = Head(net[e]) BY <1>2, <2>1, Zenon DEF Reads
  <2>3. net[e] \in Seq(Packet) /\ buf[e] \in Seq(Packet) BY DEF DataOK
  <2>4. net'[e] = Tail(net[e]) /\ buf' = buf /\ bufErr' = bufErr
    BY <1>2, <2>1, Zenon DEF Reads, DataOK
  <2>5. P \in Seq(Packet) /\ P # <<>> /\ Head(P) = pkt /\ Pipe(e)' = Tail(P)
    <3>0. \A s, t \in Seq(Packet) :
            s # <<>> => /\ s \o t \in Seq(Packet) /\ s \o t # <<>>
                        /\ Head(s \o t) = Head(s) /\ Tail(s \o t) = Tail(s) \o t
      BY HeadTailConcat, Zenon
    <3>1. /\ net[e] \o buf[e] \in Seq(Packet) /\ net[e] \o buf[e] # <<>>
          /\ Head(net[e] \o buf[e]) = Head(net[e])
          /\ Tail(net[e] \o buf[e]) = Tail(net[e]) \o buf[e]
      BY <2>2, <2>3, <3>0, Zenon
    <3>2. CASE bufErr[e] BY <2>2, <2>3, <2>4, <3>2 DEF Pipe
    <3>3. CASE ~bufErr[e] BY <2>2, <2>4, <3>1, <3>3, Zenon DEF Pipe
    <3> QED BY <3>2, <3>3
  <2>6. A \in Seq(Msgs) /\ D \in Seq(Seq(Byte)) /\ R \in Seq(Byte) BY DEF DataOK
  <2>7. UNCHANGED <<queue, accepted, sending>> BY <1>2, Zenon DEF Reads
  <2>8. Joined(e, ch) BY <1>1, <2>1, <2>2 DEF Reading
  <2>9. Linked(A, P, ch, D, R, bufErr[e], S, Q) BY <2>1, <2>8 DEF Joined
  <2>10. /\ ~ours => Linked(A, Tail(P), ch, D, R, bufErr[e], S, Q)
         /\ ours /\ pkt.eof => Linked(A, Tail(P), ch, Append(D, bytes), <<>>, bufErr[e], S, Q)
         /\ ours /\ ~pkt.eof => Linked(A, Tail(P), ch, D, bytes, bufErr[e], S, Q)
    <3> HIDE DEF A, D, R, S, Q, P, pkt
    <3> QED BY <2>5, <2>6, <2>9, LinkedRead
  <2>11. CASE receiver' = [receiver EXCEPT ![f] = "done"] /\ UNCHANGED <<recving, delivered>>
    <3>1. ~Reading(f)' BY <2>11 DEF Reading, DataOK
    <3>2. Prefixed(e, ch)' BY <1>1, <2>7, <2>11 DEF Prefixed
    <3> QED BY <2>1, <3>1, <3>2
  <2>12. CASE ~(receiver' = [receiver EXCEPT ![f] = "done"] /\ UNCHANGED <<recving, delivered>>)
    <3> DEFINE D2 == delivered'[f][ch]
               R2 == recving'[f][ch]
    <3>1. \/ ~ours /\ D2 = D /\ R2 = R
          \/ ours /\ pkt.eof /\ D2 = Append(D, bytes) /\ R2 = <<>>
          \/ ours /\ ~pkt.eof /\ D2 = D /\ R2 = bytes
      <4>1. CASE pkt.type # "msg" /\ UNCHANGED <<recving, delivered>>
        <5>1. D2 = D /\ R2 = R BY <4>1, Zenon
        <5> HIDE DEF pkt, D, R, D2, R2
        <5>2. ~ours BY <4>1, Zenon
        <5> QED BY <5>1, <5>2, Zenon
      <4>2. CASE /\ pkt.type = "msg"
                 /\ LET b == recving[f][pkt.ch] \o pkt.bytes
                    IN  /\ recving' = [recving EXCEPT ![f][pkt.ch] = IF pkt.eof THEN <<>> ELSE b]
                        /\ delivered' = IF pkt.eof
                                        THEN [delivered EXCEPT ![f][pkt.ch] = Append(@, b)]
                                        ELSE delivered
        <5> HIDE DEF pkt
        <5>1. CASE pkt.ch # ch
          <6> DEFINE d == pkt.ch
          <6>1. \E b : recving' = [recving EXCEPT ![f][d] = b] BY <4>2, Zenon
          <6>2. delivered' = delivered \/ \E b : delivered' = [delivered EXCEPT ![f][d] = b]
            BY <4>2, Zenon
          <6>3. d # ch BY <5>1
          <6> HIDE DEF d
          <6>4. R2 = R
            <7>1. recving \in [Ends -> [Channels -> Seq(Byte)]] BY DEF DataOK
            <7> QED BY <6>1, <6>3, <7>1
          <6>5. D2 = D
            <7>1. delivered \in [Ends -> [Channels -> Seq(Seq(Byte))]] BY DEF DataOK
            <7> QED BY <6>2, <6>3, <7>1
          <6> QED BY <5>1, <6>4, <6>5, Zenon
        <5>2. CASE pkt.ch = ch /\ pkt.eof
          <6>1. recving' = [recving EXCEPT ![f][ch] = <<>>] BY <4>2, <5>2
          <6>2. delivered' = [delivered EXCEPT ![f][ch] = Append(@, R \o pkt.bytes)]
            BY <4>2, <5>2, Zenon
          <6>3. R2 = <<>> BY <6>1 DEF DataOK
          <6>4. D2 = Append(D, bytes) BY <6>2, Zenon DEF DataOK
          <6> QED BY <4>2, <5>2, <6>3, <6>4, Zenon
        <5>3. CASE pkt.ch = ch /\ ~pkt.eof BY <4>2, <5>3, Zenon DEF DataOK
        <5> QED BY <5>1, <5>2, <5>3, Zenon
      <4> QED BY <1>2, <2>12, <4>1, <4>2, Zenon DEF Reads
    <3> HIDE DEF ours, bytes, D, R, A, S, Q, P
    <3>2. Linked(A, Tail(P), ch, D2, R2, bufErr[e], S, Q) BY <2>10, <3>1, Zenon
    <3>3. Joined(e, ch)' BY <2>1, <2>4, <2>5, <2>7, <3>2 DEF Joined, A, S, Q
    <3>4. Tail(P) \in Seq(Packet) BY <2>5
    <3>5. Len(D2) <= Len(A) /\ \A j \in 1 .. Len(D2) : D2[j] = A[j]
      <4> DEFINE T == Tail(P)
                 failed == bufErr[e]
      <4>1. T \in Seq(Packet) /\ Linked(A, T, ch, D2, R2, failed, S, Q) BY <3>2, <3>4
      <4> HIDE DEF D2, R2, T, failed
      <4> QED BY <4>1, LinkedPrefix
    <3>6. Prefixed(e, ch)' BY <2>1, <2>7, <3>5 DEF Prefixed, A
    <3> QED BY <3>3, <3>6
  <2> QED BY <2>11, <2>12
<1>5. e = f \/ e = Other(f) BY DEF Ends, Other
<1> QED BY <1>3, <1>4, <1>5

\* Every step keeps the delivery invariant.
LEMMA DeliveryStep == DataOK /\ DataOK' /\ DeliveryInv /\ [Next]_vars => DeliveryInv'
<1> SUFFICES ASSUME DataOK, DataOK', DeliveryInv, [Next]_vars, NEW e \in Ends, NEW ch \in Channels
             PROVE  Prefixed(e, ch)' /\ (Reading(Other(e))' => Joined(e, ch)')
  BY DEF DeliveryInv
<1>1. Prefixed(e, ch) /\ (Reading(Other(e)) => Joined(e, ch)) BY DEF DeliveryInv
<1>2. CASE Quiet /\ ReceiverStep
  <2>1. Reading(Other(e))' => Reading(Other(e)) BY <1>2, OtherEnd, ReceiverReading
  <2> QED BY <1>1, <1>2, <2>1, DeliveryKeeps DEF Quiet
<1>3. ASSUME NEW f \in Ends, NEW d \in Channels, Wake(f, d)
      PROVE  Prefixed(e, ch)' /\ (Reading(Other(e))' => Joined(e, ch)')
  <2>1. UNCHANGED <<queue, accepted, sending, buf, bufErr, net, receiver, recving, delivered>>
    BY <1>3 DEF Wake, sendVars, recvVars
  <2>2. Reading(Other(e))' => Reading(Other(e)) BY <2>1 DEF Reading
  <2> QED BY <1>1, <2>1, <2>2, DeliveryKeeps
<1> QED BY <1>2, <1>3, StepCases, AcceptDelivery, WrittenDelivery, PacksDelivery, ReadsDelivery

\* A sequence that agrees with a longer one is its beginning.
LEMMA PrefixFromElements ==
  ASSUME NEW X, NEW s \in Seq(X), NEW t \in Seq(X), Len(s) <= Len(t),
         \A i \in 1 .. Len(s) : s[i] = t[i]
  PROVE  s = SubSeq(t, 1, Len(s))
  OBVIOUS

\* On every channel the messages handed to the reactor are the first messages
\* that Send and TrySend accepted at the other end.
THEOREM DeliveryAlwaysInOrder == Spec => []InOrderDelivery
<1>1. Init => DataOK /\ DeliveryInv BY DataInit, DeliveryInit
<1>2. DataOK /\ DeliveryInv /\ [Next]_vars => (DataOK /\ DeliveryInv)' BY DataStep, DeliveryStep
<1>3. DataOK /\ DeliveryInv => InOrderDelivery
  <2> SUFFICES ASSUME DataOK, DeliveryInv, NEW e \in Ends, NEW ch \in Channels
               PROVE  LET n == Len(delivered[Other(e)][ch])
                      IN  /\ n <= Len(accepted[e][ch])
                          /\ delivered[Other(e)][ch] = SubSeq(accepted[e][ch], 1, n)
    BY DEF InOrderDelivery
  <2>1. delivered[Other(e)][ch] \in Seq(Seq(Byte)) BY OtherEnd DEF DataOK
  <2>2. accepted[e][ch] \in Seq(Msgs) BY DEF DataOK
  <2>3. accepted[e][ch] \in Seq(Seq(Byte)) BY <2>2 DEF Msgs
  <2>4. Prefixed(e, ch) BY DEF DeliveryInv
  <2> QED BY <2>1, <2>3, <2>4, PrefixFromElements, Zenon DEF Prefixed
<1> QED BY <1>1, <1>2, <1>3, PTL DEF Spec
=============================================================================
