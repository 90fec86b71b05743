---------------------- MODULE SecretConnectionProofs ------------------------
(***************************************************************************)
(* Between two correct ends the nonces stay fresh and in step, and what is *)
(* read is what was written, for every frame size, number of nonces,       *)
(* capacity of the transport and sequence of writes.                       *)
(***************************************************************************)
EXTENDS SecretConnection, TLAPS

\* A leaf is tried with SMT and Zenon, and then again with more time.
USE SMT, Zenon, SMTT(40), ZenonT(40), Z3T(40)

(* Differences and remainders.                                             *)

LEMMA Before ==
  ASSUME NEW x, NEW n \in Nat, x = n + 1
  PROVE  n = x - 1 /\ 1 <= x
  OBVIOUS

LEMMA Further ==
  ASSUME NEW x \in Nat, NEW n \in Nat, NEW y, y = x + n
  PROVE  y - x = n /\ x <= y
  OBVIOUS

LEMMA Remainder ==
  ASSUME NEW m \in Nat \ {0}, NEW q \in Int, NEW r \in 0 .. m - 1
  PROVE  (q * m + r) % m = r
  OBVIOUS

LEMMA Quotient ==
  ASSUME NEW m \in Nat \ {0}, NEW a \in Nat
  PROVE  \E q \in Int, r \in 0 .. m - 1 : a = q * m + r /\ a % m = r
<1> DEFINE q == a \div m
           r == a % m
<1>1. r \in 0 .. m - 1 /\ q \in Int /\ r = a - m * q OBVIOUS
<1>2. a % m = r OBVIOUS
<1> HIDE DEF q, r
<1>3. a = q * m + r BY <1>1
<1> QED BY <1>1, <1>2, <1>3

LEMMA AddRemainder ==
  ASSUME NEW m \in Nat \ {0}, NEW a \in Nat, NEW b \in Nat
  PROVE  ((a % m) + b) % m = (a + b) % m
<1>1. PICK q \in Int, r \in 0 .. m - 1 : a = q * m + r /\ a % m = r BY Quotient
<1>2. r + b \in Nat OBVIOUS
<1>3. PICK p \in Int, t \in 0 .. m - 1 : r + b = p * m + t /\ (r + b) % m = t
  BY <1>2, Quotient
<1>4. a + b = (q + p) * m + t BY <1>1, <1>3
<1>5. q + p \in Int OBVIOUS
<1>6. ((q + p) * m + t) % m = t BY <1>5, Remainder
<1> QED BY <1>1, <1>3, <1>4, <1>6

LEMMA ShiftOne ==
  \A n, m, k \in Nat, l \in Int : n = m + k /\ l = m - 1 => n = l + (k + 1)
  OBVIOUS

LEMMA Fits ==
  ASSUME NEW n \in Nat, NEW l \in Nat, NEW k \in Nat, NEW s \in Nat, l <= k, k = s - n
  PROVE  n + l <= s
  OBVIOUS

LEMMA CapPositive == PipeCap \in Nat /\ PipeCap >= 1
  BY SizeAssumption

LEMMA Half == \E h \in Nat \ {0} : NonceMod = 2 * h /\ NonceMod \div 2 = h
  BY NonceAssumption

-----------------------------------------------------------------------------
(* Nonces.                                                                 *)

LEMMA FlipInRange ==
  ASSUME NEW n \in 0 .. NonceMod - 1
  PROVE  Flip(n) \in 0 .. NonceMod - 1 /\ (n + Flip(n)) % 2 = 1
<1>1. PICK h \in Nat \ {0} : NonceMod = 2 * h BY Half
<1> QED BY <1>1 DEF Flip

\* The nonce with which d seals its first frame, and its i-th one.
Start(d) == IF eph[d] < eph[Other(d)] THEN Flip(hash) ELSE hash
Nonce(d, i) == (Start(d) + 2 * (i - 1)) % NonceMod

LEMMA NonceIncr ==
  ASSUME NEW d, Start(d) \in Nat, NEW i \in Nat \ {0}
  PROVE  Nonce(d, i) \in 0 .. NonceMod - 1 /\ incr2Nonce(Nonce(d, i)) = Nonce(d, i + 1)
<1> DEFINE a == Start(d) + 2 * (i - 1)
<1>1. a \in Nat /\ NonceMod \in Nat \ {0} BY NonceAssumption
<1>2. Start(d) + 2 * ((i + 1) - 1) = a + 2 OBVIOUS
<1> HIDE DEF a
<1>3. a % NonceMod \in 0 .. NonceMod - 1 BY <1>1, Quotient
<1>4. ((a % NonceMod) + 1) % NonceMod = (a + 1) % NonceMod BY <1>1, AddRemainder
<1> DEFINE b == a + 1
<1>5. b \in Nat /\ b + 1 = a + 2 BY <1>1
<1>6. ((b % NonceMod) + 1) % NonceMod = (b + 1) % NonceMod
  <2> HIDE DEF b
  <2> QED BY <1>1, <1>5, AddRemainder
<1> QED BY <1>2, <1>3, <1>4, <1>5, <1>6 DEF incr2Nonce, incrNonce, Nonce, a

-----------------------------------------------------------------------------
(* The nonces stay in step.                                                *)

Items == [nonce : Nat, data : Seq(Nat)]

Types ==
    /\ TypeOK
    /\ eph \in [Ends -> Ephs] /\ eph["a"] # eph["b"] /\ hash \in Hashes
    /\ pipe \in [Ends -> Seq(Items)] /\ sealed \in [Ends -> Seq(Nat)]
    /\ remote \in [Ends -> SUBSET Ephs] /\ todo = [e \in Ends |-> todo[e]]
    /\ short \subseteq Ends
    /\ \A e \in Ends : phase[e] = "open" => todo[e] \in Seq(Nat \ {0})

\* What an end knows of itself.
Local(d) ==
    /\ phase[d] = "eph" => out[d] = <<>> /\ next[d] = 1 /\ sealed[d] = <<>>
    /\ phase[d] \in {"auth", "open"} =>
        sendNonce[d] = Nonce(d, Len(sealed[d]) + 1) /\ remote[d] # {}
    /\ phase[d] \in {"eph", "auth"} => Len(got[d]) <= AuthSize
    /\ phase[d] = "closed" => ~up
    /\ remote[d] \subseteq {eph[Other(d)]}
    /\ \A i \in 1 .. Len(sealed[d]) : sealed[d][i] = Nonce(d, i)

\* The direction from d before the other end has read d's ephemeral key: the key,
\* once written, is in front of the frames.
KeyOnItsWay(d) ==
    /\ phase[d] = "eph" /\ todo[d] # <<>> => pipe[d] = <<>> /\ remote[Other(d)] = {}
    /\ remote[Other(d)] = {} /\ pipe[d] = <<>> =>
        sealed[d] = <<>> /\ (up => phase[d] = "eph" /\ todo[d] # <<>>)
    /\ remote[Other(d)] = {} /\ pipe[d] # <<>> =>
        /\ Len(pipe[d]) = Len(sealed[d]) + 1
        /\ pipe[d][1] = [nonce |-> eph[d], data |-> <<>>]
        /\ \A i \in 2 .. Len(pipe[d]) : pipe[d][i].nonce = Nonce(d, i - 1)

\* And after that: the pipe holds the last of the frames that were sealed, and
\* the other end has counted the rest.
FramesOnTheirWay(d) ==
    remote[Other(d)] # {} => \E seen \in Nat :
        /\ Len(sealed[d]) = Len(pipe[d]) + seen
        /\ phase[Other(d)] = "eph" => seen = 0
        /\ \A i \in 1 .. Len(pipe[d]) : pipe[d][i].nonce = Nonce(d, seen + i)
        /\ phase[Other(d)] \in {"auth", "open"} => recvNonce[Other(d)] = Nonce(d, seen + 1)

NonceInv == Types /\ \A d \in Ends : Local(d) /\ KeyOnItsWay(d) /\ FramesOnTheirWay(d)

LEMMA TailOf ==
  ASSUME NEW S, NEW s \in Seq(S), s # <<>>
  PROVE  /\ Tail(s) \in Seq(S) /\ Len(Tail(s)) = Len(s) - 1
         /\ Len(s) \in Nat /\ Len(s) > 0 /\ Head(s) = s[1] /\ Head(s) \in S
         /\ \A i \in 1 .. Len(s) - 1 : Tail(s)[i] = s[i + 1]
  OBVIOUS

LEMMA AppendOf ==
  ASSUME NEW S, NEW s \in Seq(S), NEW x \in S
  PROVE  /\ Append(s, x) \in Seq(S) /\ Len(Append(s, x)) = Len(s) + 1 /\ Len(s) \in Nat
         /\ Append(s, x)[Len(s) + 1] = x
         /\ \A i \in 1 .. Len(s) : Append(s, x)[i] = s[i]
  OBVIOUS

LEMMA OtherEnd ==
  ASSUME NEW e \in Ends
  PROVE  /\ Other(e) \in Ends /\ Other(e) # e /\ Other(Other(e)) = e
         /\ \A d \in Ends : d = e \/ d = Other(e)
  BY DEF Ends, Other

LEMMA StartInRange ==
  ASSUME Types, NEW d \in Ends
  PROVE  Start(d) \in 0 .. NonceMod - 1 /\ Nonce(d, 1) = Start(d)
<1>1. hash \in 0 .. NonceMod - 1 BY NonceAssumption DEF Types
<1>2. Start(d) \in 0 .. NonceMod - 1 BY <1>1, FlipInRange DEF Start
<1>3. Start(d) + 2 * (1 - 1) = Start(d) BY <1>2
<1>4. Start(d) % NonceMod = Start(d) BY <1>2, NonceAssumption
<1> QED BY <1>2, <1>3, <1>4 DEF Nonce

LEMMA NonceKept ==
  ASSUME UNCHANGED <<eph, hash>>
  PROVE  \A d, i : Nonce(d, i)' = Nonce(d, i)
  BY DEF Nonce, Start

LEMMA FramesKept ==
  ASSUME NEW d, FramesOnTheirWay(d), pipe'[d] = pipe[d], sealed'[d] = sealed[d],
         UNCHANGED <<eph, hash, remote, phase, recvNonce>>
  PROVE  FramesOnTheirWay(d)'
<1>1. \A i : Nonce(d, i)' = Nonce(d, i) BY NonceKept
<1> QED BY <1>1 DEF FramesOnTheirWay

LEMMA NonceInit == Init => NonceInv
<1> SUFFICES ASSUME Init PROVE NonceInv OBVIOUS
<1>1. <<>> \in Seq(Nat) /\ <<>> \in Seq(Items) OBVIOUS
<1>2. Types
  <2>1. TypeOK BY <1>1, NonceAssumption, SizeAssumption DEF Init, TypeOK
  <2>2. eph["a"] # eph["b"] BY DEF Init
  <2> QED BY <1>1, <2>1, <2>2 DEF Init, Types
<1>3. ASSUME NEW d \in Ends PROVE Local(d) /\ KeyOnItsWay(d) /\ FramesOnTheirWay(d)
  <2>1. Other(d) \in Ends /\ AuthSize >= 0 BY OtherEnd, SizeAssumption
  <2> QED BY <2>1 DEF Init, Local, KeyOnItsWay, FramesOnTheirWay
<1> QED BY <1>2, <1>3 DEF NonceInv

LEMMA WriteEphNonces ==
  ASSUME NonceInv, NEW e \in Ends, WriteEph(e)
  PROVE  NonceInv'
<1> DEFINE o == Other(e)
           item == [nonce |-> eph[e], data |-> <<>>]
<1>0. o \in Ends /\ o # e /\ Other(o) = e /\ \A d \in Ends : d = e \/ d = o BY OtherEnd
<1>1. Types /\ Local(e) /\ KeyOnItsWay(e) /\ Local(o) /\ KeyOnItsWay(o) /\ FramesOnTheirWay(o)
  BY <1>0 DEF NonceInv
<1>2. /\ phase[e] = "eph" /\ todo[e] # <<>> /\ Len(pipe[e]) < PipeCap
      /\ pipe' = [pipe EXCEPT ![e] = Append(@, item)]
      /\ todo' = [todo EXCEPT ![e] = <<>>]
      /\ UNCHANGED <<eph, hash, phase, remote, out, next, sendNonce, recvNonce, recvBuffer,
                     got, up, sealed, short>>
  BY DEF WriteEph
<1> HIDE DEF o
<1>3. \A d, i : Nonce(d, i)' = Nonce(d, i) BY <1>2, NonceKept
<1>4. item \in Items
  <2>1. eph[e] \in Nat /\ <<>> \in Seq(Nat) BY <1>1, NonceAssumption DEF Types
  <2> QED BY <2>1 DEF Items
<1>5. pipe[e] = <<>> /\ remote[o] = {} /\ sealed[e] = <<>>
  BY <1>0, <1>1, <1>2 DEF KeyOnItsWay, Local, o
<1>6. pipe'[e] = <<item>> /\ pipe'[o] = pipe[o] /\ todo'[o] = todo[o] /\ todo'[e] = <<>>
  BY <1>0, <1>1, <1>2, <1>5 DEF Types
<1> HIDE DEF item
<1>7. Types'
  <2>1. pipe' \in [Ends -> Seq(Items)] BY <1>1, <1>2, <1>4 DEF Types
  <2>2. TypeOK'
    <3>1. Len(pipe'[e]) = 1 /\ Len(pipe[o]) <= PipeCap BY <1>0, <1>1, <1>6 DEF Types, TypeOK
    <3>2. \A d \in Ends : Len(pipe'[d]) <= PipeCap BY <1>0, <1>6, <3>1, CapPositive
    <3> QED BY <1>1, <1>2, <3>2 DEF Types, TypeOK
  <2>3. \A d \in Ends : phase'[d] = "open" => todo'[d] \in Seq(Nat \ {0})
    BY <1>0, <1>1, <1>2, <1>6 DEF Types
  <2>4. todo' = [d \in Ends |-> todo'[d]] BY <1>1, <1>2 DEF Types
  <2> QED BY <1>1, <1>2, <2>1, <2>2, <2>3, <2>4 DEF Types
<1>8. Local(e)' /\ Local(o)' BY <1>1, <1>2, <1>3 DEF Local
<1>9. KeyOnItsWay(e)' /\ FramesOnTheirWay(e)'
  BY <1>0, <1>2, <1>5, <1>6 DEF KeyOnItsWay, FramesOnTheirWay, item, o
<1>10. KeyOnItsWay(o)' /\ FramesOnTheirWay(o)'
  BY <1>0, <1>1, <1>2, <1>3, <1>6 DEF KeyOnItsWay, FramesOnTheirWay
<1> QED BY <1>0, <1>7, <1>8, <1>9, <1>10 DEF NonceInv

LEMMA ReadEphNonces ==
  ASSUME NonceInv, NEW e \in Ends, ReadEph(e)
  PROVE  NonceInv'
<1> DEFINE o == Other(e)
<1>0. o \in Ends /\ o # e /\ Other(o) = e /\ \A d \in Ends : d = e \/ d = o BY OtherEnd
<1>1. /\ Types /\ Local(e) /\ KeyOnItsWay(e) /\ FramesOnTheirWay(e)
      /\ Local(o) /\ KeyOnItsWay(o) /\ FramesOnTheirWay(o)
  BY <1>0 DEF NonceInv
<1>2. /\ phase[e] = "eph" /\ remote[e] = {} /\ pipe[o] # <<>>
      /\ remote' = [remote EXCEPT ![e] = {Head(pipe[o]).nonce}]
      /\ pipe' = [pipe EXCEPT ![o] = Tail(@)]
      /\ UNCHANGED <<eph, hash, phase, out, todo, next, sendNonce, recvNonce, recvBuffer,
                     got, up, sealed, short>>
  BY DEF ReadEph
<1> HIDE DEF o
<1>3. \A d, i : Nonce(d, i)' = Nonce(d, i) BY <1>2, NonceKept
<1>4. pipe[o] \in Seq(Items) /\ sealed[o] \in Seq(Nat) BY <1>0, <1>1 DEF Types
<1>5. /\ Len(pipe[o]) = Len(sealed[o]) + 1 /\ Head(pipe[o]).nonce = eph[o]
      /\ \A i \in 2 .. Len(pipe[o]) : pipe[o][i].nonce = Nonce(o, i - 1)
      /\ ~(phase[o] = "eph" /\ todo[o] # <<>>)
  BY <1>0, <1>1, <1>2, <1>4 DEF KeyOnItsWay
<1>6. remote'[e] = {eph[o]} /\ remote'[o] = remote[o] /\ pipe'[o] = Tail(pipe[o]) /\ pipe'[e] = pipe[e]
  BY <1>0, <1>1, <1>2, <1>5 DEF Types
<1> DEFINE rest == Tail(pipe[o])
<1>t. /\ rest \in Seq(Items) /\ Len(rest) = Len(pipe[o]) - 1
      /\ Len(pipe[o]) \in Nat /\ Len(pipe[o]) > 0 /\ Len(sealed[o]) \in Nat
      /\ \A i \in 1 .. Len(pipe[o]) - 1 : rest[i] = pipe[o][i + 1]
  <2>1. Len(sealed[o]) \in Nat BY <1>4
  <2> QED BY <1>2, <1>4, <2>1, TailOf
<1> HIDE DEF rest
<1>u. pipe' = [pipe EXCEPT ![o] = rest] /\ pipe'[o] = rest BY <1>2, <1>6 DEF rest
<1>7. Types'
  <2>1. pipe' \in [Ends -> Seq(Items)] BY <1>1, <1>u, <1>t DEF Types
  <2>2. remote' \in [Ends -> SUBSET Ephs] BY <1>0, <1>1, <1>2, <1>5 DEF Types
  <2>3. TypeOK'
    <3>1. Len(pipe[e]) <= PipeCap /\ Len(pipe[o]) <= PipeCap BY <1>0, <1>1 DEF Types, TypeOK
    <3>2. \A d \in Ends : Len(pipe'[d]) <= PipeCap
      BY <1>0, <1>6, <1>u, <1>t, <3>1, SizeAssumption
    <3> QED BY <1>1, <1>2, <2>2, <3>2 DEF Types, TypeOK
  <2> QED BY <1>1, <1>2, <2>1, <2>2, <2>3 DEF Types
<1>8. Local(e)' /\ Local(o)' BY <1>0, <1>1, <1>2, <1>3, <1>6 DEF Local, o
<1>9. KeyOnItsWay(e)' /\ FramesOnTheirWay(e)'
  BY <1>0, <1>1, <1>2, <1>3, <1>6 DEF KeyOnItsWay, FramesOnTheirWay, o
<1>10. KeyOnItsWay(o)' BY <1>0, <1>2, <1>5, <1>6 DEF KeyOnItsWay
<1>11. FramesOnTheirWay(o)'
  <2>1. Len(pipe'[o]) = Len(sealed[o]) /\ Len(sealed[o]) \in Nat BY <1>5, <1>u, <1>t
  <2>2. ASSUME NEW i \in 1 .. Len(pipe'[o]) PROVE pipe'[o][i].nonce = Nonce(o, i)
    <3>1. pipe'[o][i] = pipe[o][i + 1] BY <1>5, <1>u, <1>t, <2>1
    <3>2. i + 1 \in 2 .. Len(pipe[o]) /\ (i + 1) - 1 = i BY <1>5, <2>1
    <3> QED BY <1>5, <3>1, <3>2
  <2>3. Len(sealed'[o]) = Len(pipe'[o]) + 0 BY <1>2, <2>1
  <2>4. \A i \in 1 .. Len(pipe'[o]) : pipe'[o][i].nonce = Nonce(o, 0 + i)' BY <1>3, <2>1, <2>2
  <2>5. phase'[e] = "eph" BY <1>2
  <2> QED BY <1>0, <2>3, <2>4, <2>5 DEF FramesOnTheirWay
<1> QED BY <1>0, <1>7, <1>8, <1>9, <1>10, <1>11 DEF NonceInv

LEMMA PositionsType ==
  ASSUME NEW from \in Nat, NEW n \in Nat, from > 0
  PROVE  Positions(from, n) \in Seq(Nat) /\ Len(Positions(from, n)) = n
<1>1. \A i \in 1 .. n : from + i - 1 \in Nat OBVIOUS
<1> QED BY <1>1 DEF Positions

\* Each end derives from its own view of the two keys the nonce that the other
\* one starts with.
LEMMA NoncesMatch ==
  ASSUME Types, NEW e \in Ends
  PROVE  LET n == genNonces(hash, eph[e] = sort32(eph[e], eph[Other(e)]).lo)
         IN  n.send = Start(e) /\ n.recv = Start(Other(e))
<1>1. Other(e) \in Ends /\ Other(Other(e)) = e BY OtherEnd
<1>2. eph[e] \in Nat /\ eph[Other(e)] \in Nat BY <1>1, NonceAssumption DEF Types
<1>3. eph[e] # eph[Other(e)] BY DEF Types, Ends, Other
<1>4. CASE eph[e] < eph[Other(e)]
  <2>1. eph[e] = sort32(eph[e], eph[Other(e)]).lo /\ ~(eph[Other(e)] < eph[e])
    BY <1>2, <1>4 DEF sort32
  <2> QED BY <1>1, <1>4, <2>1 DEF genNonces, Start
<1>5. CASE eph[Other(e)] < eph[e]
  <2>1. eph[e] # sort32(eph[e], eph[Other(e)]).lo /\ ~(eph[e] < eph[Other(e)])
    BY <1>2, <1>3, <1>5 DEF sort32
  <2> QED BY <1>1, <1>5, <2>1 DEF genNonces, Start
<1> QED BY <1>2, <1>3, <1>4, <1>5

LEMMA StartAuthNonces ==
  ASSUME NonceInv, NEW e \in Ends, StartAuth(e)
  PROVE  NonceInv'
<1> DEFINE o == Other(e)
<1>0. o \in Ends /\ o # e /\ Other(o) = e /\ \A d \in Ends : d = e \/ d = o BY OtherEnd
<1>1. /\ Types /\ Local(e) /\ KeyOnItsWay(e) /\ FramesOnTheirWay(e)
      /\ Local(o) /\ KeyOnItsWay(o) /\ FramesOnTheirWay(o)
  BY <1>0 DEF NonceInv
<1>2. /\ phase[e] = "eph" /\ todo[e] = <<>>
      /\ phase' = [phase EXCEPT ![e] = "auth"]
      /\ out' = [out EXCEPT ![e] = Positions(1, AuthSize)]
      /\ next' = [next EXCEPT ![e] = AuthSize + 1]
      /\ UNCHANGED <<eph, hash, remote, todo, recvBuffer, pipe, got, up, sealed, short>>
  BY DEF StartAuth
<1>3. remote[e] = {eph[o]} BY <1>1 DEF StartAuth, Local
<1>4. /\ sendNonce' = [sendNonce EXCEPT ![e] = Start(e)]
      /\ recvNonce' = [recvNonce EXCEPT ![e] = Start(o)]
  <2>1. PICK rem \in remote[e] :
          LET n == genNonces(hash, eph[e] = sort32(eph[e], rem).lo)
          IN  /\ sendNonce' = [sendNonce EXCEPT ![e] = n.send]
              /\ recvNonce' = [recvNonce EXCEPT ![e] = n.recv]
    BY DEF StartAuth
  <2>3. rem = eph[Other(e)] BY <1>3
  <2> QED BY <1>1, <2>1, <2>3, NoncesMatch
<1> HIDE DEF o
<1>5. \A d, i : Nonce(d, i)' = Nonce(d, i) BY <1>2, NonceKept
<1>6. Start(e) = Nonce(e, 1) /\ Start(o) = Nonce(o, 1)
      /\ Start(e) \in 0 .. NonceMod - 1 /\ Start(o) \in 0 .. NonceMod - 1
  BY <1>0, <1>1, StartInRange
<1>7. Types'
  <2>1. AuthSize \in Nat BY SizeAssumption
  <2>2. out' \in [Ends -> Seq(Nat)] /\ next' \in [Ends -> Nat \ {0}]
    <3>1. Positions(1, AuthSize) \in Seq(Nat) /\ AuthSize + 1 \in Nat \ {0}
      BY <2>1, PositionsType
    <3> QED BY <1>1, <1>2, <3>1 DEF Types, TypeOK
  <2>3. TypeOK' BY <1>1, <1>2, <1>4, <1>6, <2>2 DEF Types, TypeOK
  <2>4. \A d \in Ends : phase'[d] = "open" => todo'[d] \in Seq(Nat \ {0})
    BY <1>1, <1>2 DEF Types, TypeOK
  <2> QED BY <1>1, <1>2, <2>3, <2>4 DEF Types
<1>8. /\ phase'[e] = "auth" /\ phase'[o] = phase[o] /\ sealed[e] = <<>>
      /\ sendNonce'[e] = Start(e) /\ sendNonce'[o] = sendNonce[o]
      /\ recvNonce'[e] = Start(o) /\ recvNonce'[o] = recvNonce[o]
      /\ out'[o] = out[o] /\ next'[o] = next[o]
  BY <1>0, <1>1, <1>2, <1>4 DEF Types, TypeOK, Local
<1>9. Local(e)'
  <2>1. Len(sealed'[e]) + 1 = 1 BY <1>2, <1>8
  <2> QED BY <1>1, <1>2, <1>3, <1>5, <1>6, <1>8, <2>1 DEF Local
<1>10. Local(o)' BY <1>1, <1>2, <1>5, <1>8 DEF Local
<1>11. KeyOnItsWay(e)' /\ KeyOnItsWay(o)'
  BY <1>0, <1>1, <1>2, <1>5, <1>8 DEF KeyOnItsWay, o
<1>12. FramesOnTheirWay(e)' BY <1>0, <1>1, <1>2, <1>5, <1>8 DEF FramesOnTheirWay, o
<1>13. FramesOnTheirWay(o)'
  <2>1. PICK seen \in Nat :
          /\ Len(sealed[o]) = Len(pipe[o]) + seen /\ seen = 0
          /\ \A i \in 1 .. Len(pipe[o]) : pipe[o][i].nonce = Nonce(o, seen + i)
    BY <1>0, <1>1, <1>2, <1>3 DEF FramesOnTheirWay
  <2>2. recvNonce'[e] = Nonce(o, seen + 1) BY <1>6, <1>8, <2>1
  <2> QED BY <1>0, <1>2, <1>5, <1>8, <2>1, <2>2 DEF FramesOnTheirWay
<1> QED BY <1>0, <1>7, <1>9, <1>10, <1>11, <1>12, <1>13 DEF NonceInv

\* Steps that leave keys, nonces, pipes and the order of the phases alone.
LEMMA QuietNonces ==
  ASSUME NonceInv, Types', NEW e \in Ends,
         UNCHANGED <<eph, hash, remote, sendNonce, recvNonce, pipe, sealed, got>>,
         \A d \in Ends \ {e} : phase'[d] = phase[d] /\ todo'[d] = todo[d]
                                /\ out'[d] = out[d] /\ next'[d] = next[d],
         \/ phase[e] \in {"auth", "open"} /\ phase'[e] = "open" /\ up' = up
         \/ phase'[e] = phase[e] /\ out'[e] = out[e] /\ next'[e] = next[e] /\ todo'[e] = todo[e]
         \/ phase'[e] = "closed" /\ ~up',
         up' => up
  PROVE  NonceInv'
<1> DEFINE o == Other(e)
<1>0. o \in Ends /\ o # e /\ Other(o) = e /\ \A d \in Ends : d = e \/ d = o BY OtherEnd
<1>1. /\ Types /\ Local(e) /\ KeyOnItsWay(e) /\ FramesOnTheirWay(e)
      /\ Local(o) /\ KeyOnItsWay(o) /\ FramesOnTheirWay(o)
  BY <1>0 DEF NonceInv
<1> HIDE DEF o
<1>2. \A d, i : Nonce(d, i)' = Nonce(d, i) BY NonceKept
<1>3. phase'[o] = phase[o] /\ todo'[o] = todo[o] /\ out'[o] = out[o] /\ next'[o] = next[o]
  BY <1>0
<1>4. Local(e)' /\ Local(o)' BY <1>1, <1>2, <1>3 DEF Local
<1>5. KeyOnItsWay(e)' /\ KeyOnItsWay(o)' BY <1>0, <1>1, <1>2, <1>3 DEF KeyOnItsWay, o
<1>6. FramesOnTheirWay(e)' BY <1>0, <1>1, <1>2, <1>3 DEF FramesOnTheirWay, o
<1>7. FramesOnTheirWay(o)'
  <2>1. phase'[e] = "eph" => phase[e] = "eph" OBVIOUS
  <2>2. phase'[e] \in {"auth", "open"} => phase[e] \in {"auth", "open"} OBVIOUS
  <2>3. remote'[e] = remote[e] /\ recvNonce'[e] = recvNonce[e] OBVIOUS
  <2> QED BY <1>0, <1>1, <1>2, <2>1, <2>2, <2>3 DEF FramesOnTheirWay
<1> QED BY <1>0, <1>4, <1>5, <1>6, <1>7 DEF NonceInv

LEMMA LocalStepNonces ==
  ASSUME NonceInv, NEW e \in Ends, FinishAuth(e) \/ StartWrite(e) \/ CloseAfterError(e)
  PROVE  NonceInv'
<1>0. Types BY DEF NonceInv
<1>1. CASE FinishAuth(e)
  <2>1. /\ phase[e] = "auth"
        /\ UNCHANGED <<eph, hash, remote, out, next, sendNonce, recvNonce, recvBuffer, pipe,
                       got, sealed, short>>
        /\ \/ phase' = [phase EXCEPT ![e] = "open"] /\ todo' = [todo EXCEPT ![e] = Writes[e]] /\ up' = up
           \/ phase' = [phase EXCEPT ![e] = "closed"] /\ up' = FALSE /\ todo' = todo
    BY <1>1 DEF FinishAuth
  <2>2. Types'
    <3>1. phase' \in [Ends -> {"eph", "auth", "open", "closed"}] BY <1>0, <2>1 DEF Types, TypeOK
    <3>2. todo' = [d \in Ends |-> todo'[d]] BY <1>0, <2>1 DEF Types
    <3>3. ASSUME NEW d \in Ends, phase'[d] = "open" PROVE todo'[d] \in Seq(Nat \ {0})
      BY <1>0, <2>1, <3>3, SizeAssumption DEF Types, TypeOK
    <3>4. TypeOK' BY <1>0, <2>1, <3>1 DEF Types, TypeOK
    <3> QED BY <1>0, <2>1, <3>2, <3>3, <3>4 DEF Types
  <2>3. \A d \in Ends \ {e} : phase'[d] = phase[d] /\ todo'[d] = todo[d]
    BY <1>0, <2>1 DEF Types, TypeOK
  <2>4. \/ phase'[e] = "open" /\ up' = up
        \/ phase'[e] = "closed" /\ up' = FALSE
    BY <1>0, <2>1 DEF Types, TypeOK
  <2> QED BY <2>1, <2>2, <2>3, <2>4, QuietNonces
<1>2. CASE StartWrite(e)
  <2>1. /\ phase[e] = "open" /\ todo[e] # <<>>
        /\ out' = [out EXCEPT ![e] = Positions(next[e], Head(todo[e]))]
        /\ next' = [next EXCEPT ![e] = @ + Head(todo[e])]
        /\ todo' = [todo EXCEPT ![e] = Tail(@)]
        /\ UNCHANGED <<eph, hash, phase, remote, sendNonce, recvNonce, recvBuffer, pipe, got,
                       up, sealed, short>>
    BY <1>2 DEF StartWrite
  <2>2. todo[e] \in Seq(Nat \ {0}) BY <1>0, <2>1 DEF Types
  <2>3. Head(todo[e]) \in Nat \ {0} /\ Tail(todo[e]) \in Seq(Nat \ {0}) BY <2>1, <2>2, TailOf
  <2>4. next[e] \in Nat /\ next[e] > 0 BY <1>0 DEF Types, TypeOK
  <2>5. Positions(next[e], Head(todo[e])) \in Seq(Nat) BY <2>3, <2>4, PositionsType
  <2>6. next[e] + Head(todo[e]) \in Nat \ {0} BY <2>3, <2>4
  <2>7. Types'
    <3>1. out' \in [Ends -> Seq(Nat)] /\ next' \in [Ends -> Nat \ {0}]
      BY <1>0, <2>1, <2>5, <2>6 DEF Types, TypeOK
    <3>2. todo' = [d \in Ends |-> todo'[d]] BY <1>0, <2>1 DEF Types
    <3>3. \A d \in Ends : phase'[d] = "open" => todo'[d] \in Seq(Nat \ {0})
      BY <1>0, <2>1, <2>3 DEF Types
    <3>4. TypeOK' BY <1>0, <2>1, <3>1 DEF Types, TypeOK
    <3> QED BY <1>0, <2>1, <3>2, <3>3, <3>4 DEF Types
  <2>8. \A d \in Ends \ {e} : todo'[d] = todo[d] /\ out'[d] = out[d] /\ next'[d] = next[d]
    BY <1>0, <2>1 DEF Types, TypeOK
  <2> QED BY <2>1, <2>7, <2>8, QuietNonces
<1>3. CASE CloseAfterError(e)
  <2>1. /\ ~up /\ phase' = [phase EXCEPT ![e] = "closed"]
        /\ out' = [out EXCEPT ![e] = <<>>] /\ todo' = [todo EXCEPT ![e] = <<>>]
        /\ UNCHANGED <<eph, hash, remote, next, sendNonce, recvNonce, recvBuffer, pipe, got,
                       up, sealed, short>>
    BY <1>3 DEF CloseAfterError
  <2>2. <<>> \in Seq(Nat) OBVIOUS
  <2>3. Types'
    <3>1. out' \in [Ends -> Seq(Nat)] BY <1>0, <2>1, <2>2 DEF Types, TypeOK
    <3>2. todo' = [d \in Ends |-> todo'[d]] BY <1>0, <2>1 DEF Types
    <3>3. \A d \in Ends : phase'[d] = "open" => todo'[d] \in Seq(Nat \ {0})
      BY <1>0, <2>1 DEF Types, TypeOK
    <3>4. TypeOK' BY <1>0, <2>1, <3>1 DEF Types, TypeOK
    <3> QED BY <1>0, <2>1, <3>2, <3>3, <3>4 DEF Types
  <2>4. \A d \in Ends \ {e} : phase'[d] = phase[d] /\ todo'[d] = todo[d] /\ out'[d] = out[d]
    BY <1>0, <2>1 DEF Types, TypeOK
  <2>5. phase'[e] = "closed" BY <1>0, <2>1 DEF Types, TypeOK
  <2> QED BY <2>1, <2>3, <2>4, <2>5, QuietNonces
<1> QED BY <1>1, <1>2, <1>3

\* The chunk and what is left of the data.
LEMMA ChunkOf ==
  ASSUME NEW data \in Seq(Nat), data # <<>>
  PROVE  LET n == Len(Chunk(data)) IN
         /\ Chunk(data) = SubSeq(data, 1, n) /\ n \in 1 .. Len(data)
         /\ Chunk(data) \in Seq(Nat) /\ SubSeq(data, n + 1, Len(data)) \in Seq(Nat)
<1>1. DataMax \in Nat /\ DataMax >= 1 BY SizeAssumption
<1> DEFINE k == IF DataMax < Len(data) THEN DataMax ELSE Len(data)
<1>2. k \in 1 .. Len(data) BY <1>1
<1> HIDE DEF k
<1>3. SubSeq(data, 1, k) \in Seq(Nat) /\ Len(SubSeq(data, 1, k)) = k BY <1>2
<1>4. SubSeq(data, k + 1, Len(data)) \in Seq(Nat) BY <1>2
<1>5. Chunk(data) = SubSeq(data, 1, k) BY DEF Chunk, k
<1> QED BY <1>2, <1>3, <1>4, <1>5

LEMMA WriteNonces ==
  ASSUME NonceInv, NEW e \in Ends, Write(e)
  PROVE  NonceInv'
<1> DEFINE o == Other(e)
           chunk == Chunk(out[e])
           item == [nonce |-> sendNonce[e], data |-> chunk]
           left == SubSeq(out[e], Len(chunk) + 1, Len(out[e]))
<1>0. o \in Ends /\ o # e /\ Other(o) = e /\ \A d \in Ends : d = e \/ d = o BY OtherEnd
<1>1. /\ Types /\ Local(e) /\ KeyOnItsWay(e) /\ FramesOnTheirWay(e)
      /\ Local(o) /\ KeyOnItsWay(o) /\ FramesOnTheirWay(o)
  BY <1>0 DEF NonceInv
<1>2. /\ up /\ out[e] # <<>> /\ Len(pipe[e]) < PipeCap
      /\ pipe' = [pipe EXCEPT ![e] = Append(@, item)]
      /\ out' = [out EXCEPT ![e] = left]
      /\ sealed' = [sealed EXCEPT ![e] = Append(@, sendNonce[e])]
      /\ sendNonce' = [sendNonce EXCEPT ![e] = incr2Nonce(@)]
      /\ UNCHANGED <<eph, hash, phase, remote, todo, next, recvNonce, recvBuffer, got, up, short>>
  BY DEF Write
<1>3. out[e] \in Seq(Nat) /\ sendNonce[e] \in Nat BY <1>1 DEF Types, TypeOK
<1>4. chunk \in Seq(Nat) /\ left \in Seq(Nat) BY <1>2, <1>3, ChunkOf
<1>5. item \in Items /\ item.nonce = sendNonce[e] BY <1>3, <1>4 DEF Items
<1> HIDE DEF chunk, item, left, o
<1>6. \A d, i : Nonce(d, i)' = Nonce(d, i) BY <1>2, NonceKept
<1>7. phase[e] \in {"auth", "open"} BY <1>1, <1>2 DEF Local, Types, TypeOK
<1> DEFINE n == Len(sealed[e])
           m == Len(pipe[e])
<1>8. pipe[e] \in Seq(Items) /\ sealed[e] \in Seq(Nat) BY <1>1 DEF Types
<1>9. n \in Nat /\ m \in Nat BY <1>8
<1>10. sendNonce[e] = Nonce(e, n + 1) BY <1>1, <1>7 DEF Local
<1>11. Start(e) \in Nat BY <1>1, StartInRange
<1>12. incr2Nonce(sendNonce[e]) = Nonce(e, n + 2) /\ incr2Nonce(sendNonce[e]) \in 0 .. NonceMod - 1
  <2>1. n + 1 \in Nat \ {0} /\ n + 2 \in Nat \ {0} /\ (n + 1) + 1 = n + 2 BY <1>9
  <2>2. incr2Nonce(sendNonce[e]) = Nonce(e, (n + 1) + 1) BY <1>10, <1>11, <2>1, NonceIncr
  <2>3. Nonce(e, n + 2) \in 0 .. NonceMod - 1 BY <1>11, <2>1, NonceIncr
  <2> QED BY <2>1, <2>2, <2>3
<1>13. /\ pipe'[e] \in Seq(Items) /\ Len(pipe'[e]) = m + 1 /\ pipe'[e][m + 1] = item
       /\ \A i \in 1 .. m : pipe'[e][i] = pipe[e][i]
  <2>1. pipe'[e] = Append(pipe[e], item) BY <1>1, <1>2 DEF Types
  <2> QED BY <1>5, <1>8, <2>1, AppendOf
<1>14. /\ sealed'[e] \in Seq(Nat) /\ Len(sealed'[e]) = n + 1
       /\ sealed'[e][n + 1] = sendNonce[e] /\ \A i \in 1 .. n : sealed'[e][i] = sealed[e][i]
  <2>1. sealed'[e] = Append(sealed[e], sendNonce[e]) BY <1>1, <1>2 DEF Types
  <2> QED BY <1>3, <1>8, <2>1, AppendOf
<1>15. /\ pipe'[o] = pipe[o] /\ sealed'[o] = sealed[o] /\ sendNonce'[o] = sendNonce[o]
       /\ out'[o] = out[o] /\ sendNonce'[e] = Nonce(e, n + 2)
  BY <1>0, <1>1, <1>2, <1>12 DEF Types, TypeOK
<1>16. Types'
  <2>1. pipe' \in [Ends -> Seq(Items)] /\ sealed' \in [Ends -> Seq(Nat)]
    BY <1>0, <1>1, <1>2, <1>13, <1>14 DEF Types
  <2>2. \A d \in Ends : Len(pipe'[d]) <= PipeCap
    <3>1. m + 1 <= PipeCap BY <1>2, <1>9, CapPositive
    <3>2. Len(pipe[o]) <= PipeCap BY <1>0, <1>1 DEF Types, TypeOK
    <3> QED BY <1>0, <1>13, <1>15, <3>1, <3>2
  <2>3. sendNonce' \in [Ends -> 0 .. NonceMod - 1] /\ out' \in [Ends -> Seq(Nat)]
    BY <1>1, <1>2, <1>4, <1>12 DEF Types, TypeOK
  <2>4. TypeOK' BY <1>1, <1>2, <2>2, <2>3 DEF Types, TypeOK
  <2> QED BY <1>1, <1>2, <2>1, <2>4 DEF Types
<1> HIDE DEF n, m
<1>17. Local(e)'
  <2>1. Len(sealed'[e]) + 1 = n + 2 BY <1>9, <1>14
  <2>2. \A i \in 1 .. n : sealed[e][i] = Nonce(e, i) BY <1>1 DEF Local, n
  <2>3. \A i \in 1 .. Len(sealed'[e]) : sealed'[e][i] = Nonce(e, i)
    BY <1>9, <1>10, <1>14, <2>2
  <2>4. phase'[e] = phase[e] /\ remote' = remote /\ up' = up /\ eph' = eph BY <1>2
  <2>5. remote[e] # {} /\ remote[e] \subseteq {eph[Other(e)]} BY <1>1, <1>7 DEF Local
  <2>6. phase[e] = "auth" => Len(got'[e]) <= AuthSize BY <1>1, <1>2 DEF Local
  <2> QED BY <1>6, <1>7, <1>15, <2>1, <2>3, <2>4, <2>5, <2>6 DEF Local
<1>18. Local(o)' BY <1>1, <1>2, <1>6, <1>15 DEF Local
<1>19. KeyOnItsWay(o)' BY <1>0, <1>1, <1>2, <1>6, <1>15 DEF KeyOnItsWay
<1>19a. FramesOnTheirWay(o)' BY <1>1, <1>2, <1>15, FramesKept
<1>20. CASE remote[o] = {}
  <2>1. pipe[e] # <<>> BY <1>1, <1>2, <1>7, <1>20 DEF KeyOnItsWay, o
  <2>2. /\ m = n + 1 /\ pipe[e][1] = [nonce |-> eph[e], data |-> <<>>]
        /\ \A i \in 2 .. m : pipe[e][i].nonce = Nonce(e, i - 1)
    BY <1>1, <1>20, <2>1 DEF KeyOnItsWay, n, m, o
  <2>3. ASSUME NEW i \in 2 .. m + 1 PROVE pipe'[e][i].nonce = Nonce(e, i - 1)
    <3>1. CASE i = m + 1 BY <1>5, <1>9, <1>10, <1>13, <2>2, <3>1
    <3>2. CASE i # m + 1 BY <1>9, <1>13, <2>2, <3>2
    <3> QED BY <3>1, <3>2
  <2>4. pipe'[e][1] = pipe[e][1] /\ pipe'[e] # <<>> BY <1>9, <1>13, <2>2
  <2>5. KeyOnItsWay(e)'
    BY <1>2, <1>6, <1>7, <1>13, <1>14, <2>2, <2>3, <2>4 DEF KeyOnItsWay
  <2>6. FramesOnTheirWay(e)' BY <1>2, <1>20 DEF FramesOnTheirWay, o
  <2> QED BY <1>0, <1>16, <1>17, <1>18, <1>19, <1>19a, <2>5, <2>6 DEF NonceInv
<1>21. CASE remote[o] # {}
  <2>1. KeyOnItsWay(e)' BY <1>2, <1>7, <1>21 DEF KeyOnItsWay, o
  <2>2. PICK seen \in Nat :
          /\ n = m + seen
          /\ phase[o] = "eph" => seen = 0
          /\ \A i \in 1 .. m : pipe[e][i].nonce = Nonce(e, seen + i)
          /\ phase[o] \in {"auth", "open"} => recvNonce[o] = Nonce(e, seen + 1)
    BY <1>1, <1>21 DEF FramesOnTheirWay, n, m, o
  <2>3. n + 1 = (m + 1) + seen BY <1>9, <2>2
  <2>4. ASSUME NEW i \in 1 .. m + 1 PROVE pipe'[e][i].nonce = Nonce(e, seen + i)
    <3>1. CASE i = m + 1
      <4>1. seen + i = n + 1 BY <1>9, <2>2, <3>1
      <4> QED BY <1>5, <1>10, <1>13, <3>1, <4>1
    <3>2. CASE i # m + 1
      <4>1. i \in 1 .. m BY <1>9, <3>2
      <4> QED BY <1>13, <2>2, <4>1
    <3> QED BY <3>1, <3>2
  <2>5. FramesOnTheirWay(e)'
    BY <1>2, <1>6, <1>13, <1>14, <2>2, <2>3, <2>4 DEF FramesOnTheirWay, o
  <2> QED BY <1>0, <1>16, <1>17, <1>18, <1>19, <1>19a, <2>1, <2>5 DEF NonceInv
<1> QED BY <1>20, <1>21

LEMMA TakeDropType ==
  ASSUME NEW data \in Seq(Nat), NEW k \in Nat
  PROVE  /\ Take(data, k) \in Seq(Nat) /\ Drop(data, k) \in Seq(Nat)
         /\ Len(Take(data, k)) <= k
<1> DEFINE n == IF k < Len(data) THEN k ELSE Len(data)
<1>2. n \in 0 .. Len(data) OBVIOUS
<1> HIDE DEF n
<1>3. SubSeq(data, 1, n) \in Seq(Nat) /\ Len(SubSeq(data, 1, n)) = n BY <1>2
<1>5. n <= k BY DEF n
<1>4. SubSeq(data, k + 1, Len(data)) \in Seq(Nat) OBVIOUS
<1> QED BY <1>3, <1>4, <1>5 DEF Take, Drop, n

LEMMA ReadLeftNonces ==
  ASSUME NonceInv, NEW e \in Ends, NEW k \in Nat, ReadLeft(e, k),
         UNCHANGED <<eph, hash, remote, out, todo, next, sendNonce, sealed>>
  PROVE  NonceInv'
<1>0. Types BY DEF NonceInv
<1>1. /\ recvBuffer' = [recvBuffer EXCEPT ![e] = Drop(@, k)]
      /\ UNCHANGED <<recvNonce, pipe, got, phase, up, short>>
  BY DEF ReadLeft
<1>2. Drop(recvBuffer[e], k) \in Seq(Nat) BY <1>0, TakeDropType DEF Types, TypeOK
<1>3. Types'
  <2>1. recvBuffer' \in [Ends -> Seq(Nat)] BY <1>0, <1>1, <1>2 DEF Types, TypeOK
  <2>2. TypeOK' BY <1>0, <1>1, <2>1 DEF Types, TypeOK
  <2> QED BY <1>0, <1>1, <2>2 DEF Types
<1> QED BY <1>1, <1>3, QuietNonces

\* A frame opens under the nonce of the reader.
LEMMA FrameOpens ==
  ASSUME NonceInv, NEW e \in Ends, phase[e] \in {"auth", "open"}, pipe[Other(e)] # <<>>
  PROVE  Head(pipe[Other(e)]).nonce = recvNonce[e]
<1> DEFINE o == Other(e)
<1>0. o \in Ends /\ Other(o) = e BY OtherEnd
<1>1. Types /\ Local(e) /\ FramesOnTheirWay(o) BY <1>0 DEF NonceInv
<1> HIDE DEF o
<1>2. remote[e] # {} BY <1>1 DEF Local
<1>3. PICK seen \in Nat :
        /\ \A i \in 1 .. Len(pipe[o]) : pipe[o][i].nonce = Nonce(o, seen + i)
        /\ recvNonce[e] = Nonce(o, seen + 1)
  BY <1>0, <1>1, <1>2 DEF FramesOnTheirWay
<1>4. Len(pipe[o]) \in Nat /\ Len(pipe[o]) > 0 /\ Head(pipe[o]) = pipe[o][1]
  BY <1>0, <1>1, TailOf DEF Types, o
<1> QED BY <1>3, <1>4 DEF o

LEMMA ReadFrameNonces ==
  ASSUME NonceInv, NEW e \in Ends, NEW k \in Nat, ReadFrame(e, k), phase[e] \in {"auth", "open"},
         phase[e] = "auth" => k = AuthSize - Len(got[e]),
         UNCHANGED <<eph, hash, remote, out, todo, next, sendNonce, sealed>>
  PROVE  NonceInv'
<1> DEFINE o == Other(e)
           frame == Head(pipe[o])
           rest == Tail(pipe[o])
<1>0. o \in Ends /\ o # e /\ Other(o) = e /\ \A d \in Ends : d = e \/ d = o BY OtherEnd
<1>1. /\ Types /\ Local(e) /\ KeyOnItsWay(e) /\ FramesOnTheirWay(e)
      /\ Local(o) /\ KeyOnItsWay(o) /\ FramesOnTheirWay(o)
  BY <1>0 DEF NonceInv
<1>2. up /\ pipe[o] # <<>> /\ pipe' = [pipe EXCEPT ![o] = rest] BY DEF ReadFrame
<1>3. /\ recvNonce' = [recvNonce EXCEPT ![e] = incr2Nonce(@)]
      /\ got' = [got EXCEPT ![e] = @ \o Take(frame.data, k)]
      /\ recvBuffer' = [recvBuffer EXCEPT ![e] = Drop(frame.data, k)]
      /\ short' = IF k < Len(frame.data) THEN short \cup {e} ELSE short
      /\ UNCHANGED <<phase, up>>
  <2>1. frame.nonce = recvNonce[e] BY <1>2, FrameOpens
  <2> QED BY <2>1 DEF ReadFrame
<1>4. pipe[o] \in Seq(Items) /\ Len(sealed[o]) \in Nat
  <2>1. pipe[o] \in Seq(Items) /\ sealed[o] \in Seq(Nat) BY <1>0, <1>1 DEF Types
  <2> QED BY <2>1
<1>5. /\ rest \in Seq(Items) /\ Len(rest) = Len(pipe[o]) - 1
      /\ Len(pipe[o]) \in Nat /\ Len(pipe[o]) > 0 /\ frame \in Items
      /\ \A i \in 1 .. Len(pipe[o]) - 1 : rest[i] = pipe[o][i + 1]
  BY <1>2, <1>4, TailOf
<1> HIDE DEF o, rest, frame
<1>6. pipe'[o] = rest /\ pipe'[e] = pipe[e] BY <1>0, <1>1, <1>2 DEF Types
<1>7. \A d, i : Nonce(d, i)' = Nonce(d, i) BY NonceKept
<1>8. remote[e] # {} BY <1>1 DEF Local
<1>9. PICK seen \in Nat :
        /\ Len(sealed[o]) = Len(pipe[o]) + seen
        /\ \A i \in 1 .. Len(pipe[o]) : pipe[o][i].nonce = Nonce(o, seen + i)
        /\ recvNonce[e] = Nonce(o, seen + 1)
  BY <1>0, <1>1, <1>8 DEF FramesOnTheirWay
<1>10. /\ incr2Nonce(recvNonce[e]) = Nonce(o, (seen + 1) + 1)
       /\ incr2Nonce(recvNonce[e]) \in 0 .. NonceMod - 1
  <2>1. Start(o) \in Nat BY <1>0, <1>1, StartInRange
  <2>2. seen + 1 \in Nat \ {0} /\ (seen + 1) + 1 \in Nat \ {0} OBVIOUS
  <2> QED BY <1>9, <2>1, <2>2, NonceIncr
<1>11. Types'
  <2>1. pipe' \in [Ends -> Seq(Items)] BY <1>1, <1>2, <1>5 DEF Types
  <2>2. recvNonce' \in [Ends -> 0 .. NonceMod - 1] BY <1>1, <1>3, <1>10 DEF Types, TypeOK
  <2>3. frame.data \in Seq(Nat) BY <1>5 DEF Items
  <2>4. Take(frame.data, k) \in Seq(Nat) /\ Drop(frame.data, k) \in Seq(Nat) BY <2>3, TakeDropType
  <2>5. got[e] \o Take(frame.data, k) \in Seq(Nat)
    <3>1. got[e] \in Seq(Nat) BY <1>1 DEF Types, TypeOK
    <3> QED BY <2>4, <3>1
  <2>6. recvBuffer' \in [Ends -> Seq(Nat)] /\ got' \in [Ends -> Seq(Nat)]
    BY <1>1, <1>3, <2>4, <2>5 DEF Types, TypeOK
  <2>7. \A d \in Ends : Len(pipe'[d]) <= PipeCap
    <3>1. Len(pipe[e]) <= PipeCap /\ Len(pipe[o]) <= PipeCap BY <1>0, <1>1 DEF Types, TypeOK
    <3> QED BY <1>0, <1>5, <1>6, <3>1, CapPositive
  <2>8. TypeOK' BY <1>1, <1>3, <2>2, <2>6, <2>7 DEF Types, TypeOK
  <2>9. short' \subseteq Ends BY <1>1, <1>3 DEF Types
  <2> QED BY <1>1, <1>3, <2>1, <2>8, <2>9 DEF Types
<1>12. recvNonce'[e] = Nonce(o, (seen + 1) + 1) /\ recvNonce'[o] = recvNonce[o]
  BY <1>0, <1>1, <1>3, <1>10 DEF Types, TypeOK
<1>13. Local(o)' BY <1>0, <1>1, <1>3, <1>7 DEF Local, Types, TypeOK
<1>13a. Local(e)'
  <2>1. ASSUME phase[e] = "auth" PROVE Len(got'[e]) <= AuthSize
    <3>1. got[e] \in Seq(Nat) /\ got'[e] = got[e] \o Take(frame.data, k)
      BY <1>1, <1>3 DEF Types, TypeOK
    <3>2. frame.data \in Seq(Nat) BY <1>5 DEF Items
    <3>3. Take(frame.data, k) \in Seq(Nat) /\ Len(Take(frame.data, k)) <= k
      BY <3>2, TakeDropType
    <3>4. /\ Len(got'[e]) = Len(got[e]) + Len(Take(frame.data, k))
          /\ Len(got[e]) \in Nat /\ Len(Take(frame.data, k)) \in Nat
      BY <3>1, <3>3
    <3>5. AuthSize \in Nat /\ k = AuthSize - Len(got[e]) BY <2>1, SizeAssumption
    <3>6. Len(got[e]) + Len(Take(frame.data, k)) <= AuthSize BY <3>3, <3>4, <3>5, Fits
    <3> QED BY <3>4, <3>6
  <2> QED BY <1>1, <1>3, <1>7, <2>1 DEF Local
<1>14. KeyOnItsWay(e)' BY <1>0, <1>1, <1>3, <1>6, <1>7 DEF KeyOnItsWay
<1>15. KeyOnItsWay(o)' BY <1>0, <1>1, <1>2, <1>3, <1>8 DEF KeyOnItsWay
<1>16. FramesOnTheirWay(e)' BY <1>0, <1>1, <1>3, <1>6, <1>7, <1>12 DEF FramesOnTheirWay, o
<1>17. FramesOnTheirWay(o)'
  <2>1. Len(sealed'[o]) = Len(pipe'[o]) + (seen + 1)
    <3>1. Len(sealed'[o]) = Len(sealed[o]) OBVIOUS
    <3>2. Len(rest) = Len(pipe[o]) - 1 /\ Len(pipe[o]) \in Nat BY <1>5
    <3>4. Len(rest) \in Int BY <3>2
    <3>5. Len(sealed[o]) = Len(pipe[o]) + seen BY <1>9
    <3>6. Len(sealed[o]) \in Nat BY <1>4
    <3>7. Len(sealed[o]) = Len(rest) + (seen + 1) BY <3>2, <3>4, <3>5, <3>6, ShiftOne
    <3>3. Len(sealed[o]) = Len(pipe'[o]) + (seen + 1) BY <1>6, <3>7
    <3> QED BY <3>1, <3>3
  <2>2. ASSUME NEW i \in 1 .. Len(pipe'[o]) PROVE pipe'[o][i].nonce = Nonce(o, (seen + 1) + i)
    <3>1. i + 1 \in 1 .. Len(pipe[o]) /\ i \in 1 .. Len(pipe[o]) - 1 BY <1>5, <1>6
    <3>2. pipe'[o][i] = pipe[o][i + 1] BY <1>5, <1>6, <3>1
    <3>3. seen + (i + 1) = (seen + 1) + i OBVIOUS
    <3> QED BY <1>9, <3>1, <3>2, <3>3
  <2>3. phase'[e] # "eph" BY <1>3
  <2>4. seen + 1 \in Nat OBVIOUS
  <2> QED BY <1>0, <1>7, <1>12, <2>1, <2>2, <2>3, <2>4 DEF FramesOnTheirWay
<1> QED BY <1>0, <1>11, <1>13, <1>13a, <1>14, <1>15, <1>16, <1>17 DEF NonceInv

LEMMA NonceStep == NonceInv /\ [Next]_vars => NonceInv'
<1> SUFFICES ASSUME NonceInv, [Next]_vars PROVE NonceInv' OBVIOUS
<1>0. Types BY DEF NonceInv
<1>1. ASSUME NEW e \in Ends, Read(e) PROVE NonceInv'
  <2>1. UNCHANGED <<eph, hash, remote, out, todo, next, sendNonce, sealed>> BY <1>1 DEF Read
  <2>2. CASE phase[e] = "auth" /\ \E k \in {AuthSize - Len(got[e])} \ {0} :
               ReadLeft(e, k) \/ ReadFrame(e, k)
    <3>1. AuthSize - Len(got[e]) \in Nat
      <4>1. got[e] \in Seq(Nat) BY <1>0 DEF Types, TypeOK
      <4>2. Len(got[e]) \in Nat BY <4>1
      <4>3. Len(got[e]) <= AuthSize BY <2>2 DEF NonceInv, Local
      <4> QED BY <4>2, <4>3, SizeAssumption
    <3> QED BY <2>1, <2>2, <3>1, ReadLeftNonces, ReadFrameNonces
  <2>3. CASE phase[e] = "open" /\ \E k \in ReadSizes : ReadLeft(e, k) \/ ReadFrame(e, k)
    <3>1. ReadSizes \subseteq Nat BY SizeAssumption
    <3> QED BY <2>1, <2>3, <3>1, ReadLeftNonces, ReadFrameNonces
  <2> QED BY <1>1, <2>2, <2>3 DEF Read
<1>2. CASE Fail
  <2>1. up' = FALSE /\ UNCHANGED <<eph, hash, phase, remote, out, todo, next, sendNonce, recvNonce,
                                   recvBuffer, pipe, got, sealed, short>>
    BY <1>2 DEF Fail
  <2>2. Types' BY <1>0, <2>1 DEF Types, TypeOK
  <2>3. "a" \in Ends BY DEF Ends
  <2> QED BY <2>1, <2>2, <2>3, QuietNonces
<1>3. CASE UNCHANGED vars
  <2>1. Types' BY <1>0, <1>3 DEF vars, Types, TypeOK
  <2>2. "a" \in Ends BY DEF Ends
  <2> QED BY <1>3, <2>1, <2>2, QuietNonces DEF vars
<1> QED BY <1>1, <1>2, <1>3, WriteEphNonces, ReadEphNonces, StartAuthNonces, LocalStepNonces,
           WriteNonces DEF Next, Step

-----------------------------------------------------------------------------
(* The nonces are fresh.                                                   *)

\* The nonces of one end have the parity of its first, and come back after
\* NonceMod \div 2 frames.
LEMMA NonceOnce ==
  ASSUME Types, NEW d \in Ends, NEW f \in Ends, NEW i \in Nat \ {0}, NEW j \in Nat \ {0},
         Nonce(d, i) = Nonce(f, j)
  PROVE  d = f /\ (i - j) % (NonceMod \div 2) = 0
<1>1. PICK h \in Nat \ {0} : NonceMod = 2 * h /\ NonceMod \div 2 = h BY Half
<1>2. Start(d) \in Nat /\ Start(f) \in Nat BY StartInRange
<1> DEFINE a == Start(d) + 2 * (i - 1)
           b == Start(f) + 2 * (j - 1)
<1>3. a \in Nat /\ b \in Nat BY <1>2
<1>4. a % NonceMod = b % NonceMod BY DEF Nonce
<1> HIDE DEF a, b
<1>5. PICK q \in Int, r \in 0 .. NonceMod - 1 : a = q * NonceMod + r /\ a % NonceMod = r
  BY <1>3, Quotient, NonceAssumption
<1>6. PICK p \in Int, t \in 0 .. NonceMod - 1 : b = p * NonceMod + t /\ b % NonceMod = t
  BY <1>3, Quotient, NonceAssumption
<1>7. r = t BY <1>4, <1>5, <1>6
<1>8. a - b = 2 * ((q - p) * h) BY <1>1, <1>5, <1>6, <1>7
<1> DEFINE c == (q - p) * h
<1>9. c \in Int /\ a - b = 2 * c BY <1>1, <1>8
<1>10. d = f
  <2> SUFFICES ASSUME d # f PROVE FALSE OBVIOUS
  <2>1. f = Other(d) /\ d = Other(f) BY OtherEnd
  <2>2. hash \in 0 .. NonceMod - 1 BY NonceAssumption DEF Types
  <2>3. Flip(hash) \in Nat /\ (hash + Flip(hash)) % 2 = 1 BY <2>2, FlipInRange
  <2>4. eph[d] \in Nat /\ eph[f] \in Nat /\ eph[d] # eph[f]
    BY <2>1, NonceAssumption DEF Types, Ends, Other
  <2>5. Start(d) + Start(f) = hash + Flip(hash)
    BY <2>1, <2>2, <2>3, <2>4 DEF Start
  <2>6. a - b = (Start(d) - Start(f)) + 2 * (i - j) BY <1>2 DEF a, b
  <2> HIDE DEF c
  <2> QED BY <1>2, <1>9, <2>2, <2>3, <2>5, <2>6
<1>11. 2 * (i - j) = 2 * c BY <1>2, <1>9, <1>10 DEF a, b
<1>12. i - j = (q - p) * h + 0
  <2>1. i - j = c
    <3> HIDE DEF c
    <3> QED BY <1>9, <1>11
  <2> QED BY <2>1
<1>13. ((q - p) * h + 0) % h = 0
  <2>1. q - p \in Int /\ 0 \in 0 .. h - 1 OBVIOUS
  <2> QED BY <2>1, Remainder
<1> QED BY <1>1, <1>10, <1>12, <1>13

LEMMA NoncesFollow == NonceInv => NoncesAgree
<1> SUFFICES ASSUME NonceInv PROVE NoncesAgree OBVIOUS
<1>0. Types BY DEF NonceInv
<1>1. NoncesFresh
  <2> SUFFICES ASSUME NEW e \in Ends, NEW f \in Ends,
                      NEW i \in 1 .. Len(sealed[e]), NEW j \in 1 .. Len(sealed[f]),
                      sealed[e][i] = sealed[f][j]
               PROVE  e = f /\ (i - j) % (NonceMod \div 2) = 0
    BY DEF NoncesFresh
  <2>1. sealed[e][i] = Nonce(e, i) /\ sealed[f][j] = Nonce(f, j) BY DEF NonceInv, Local
  <2>2. i \in Nat \ {0} /\ j \in Nat \ {0} OBVIOUS
  <2>3. Nonce(e, i) = Nonce(f, j) BY <2>1
  <2> QED BY <1>0, <2>2, <2>3, NonceOnce
<1>2. NoncesInStep
  <2> SUFFICES ASSUME NEW e \in Ends, NEW i \in 1 .. Len(pipe[e]),
                      phase[Other(e)] \in {"auth", "open"}
               PROVE  pipe[e][i].nonce = (recvNonce[Other(e)] + 2 * (i - 1)) % NonceMod
    BY DEF NoncesInStep
  <2>1. Other(e) \in Ends /\ Other(Other(e)) = e BY OtherEnd
  <2>2. remote[Other(e)] # {} BY <2>1 DEF NonceInv, Local
  <2>3. PICK seen \in Nat : pipe[e][i].nonce = Nonce(e, seen + i)
                            /\ recvNonce[Other(e)] = Nonce(e, seen + 1)
    BY <2>2 DEF NonceInv, FramesOnTheirWay
  <2>4. Start(e) \in Nat BY <1>0, StartInRange
  <2> DEFINE a == Start(e) + 2 * ((seen + 1) - 1)
             b == 2 * (i - 1)
  <2>5. a \in Nat /\ b \in Nat /\ Start(e) + 2 * ((seen + i) - 1) = a + b BY <2>4
  <2> HIDE DEF a, b
  <2>6. ((a % NonceMod) + b) % NonceMod = (a + b) % NonceMod
    BY <2>5, AddRemainder, NonceAssumption
  <2> QED BY <2>3, <2>5, <2>6 DEF Nonce, a, b
<1> QED BY <1>1, <1>2 DEF NoncesAgree

\* Two correct ends derive matching nonces from their own views of the handshake,
\* move them in steps of two with incr2Nonce and never seal two frames with the
\* same one, except an end that has used up its half of them; every frame on its
\* way opens under the nonce that the reader will use.
THEOREM NoncesAlwaysAgree == Spec => []NoncesAgree
  BY NonceInit, NonceStep, NoncesFollow, PTL DEF Spec

-----------------------------------------------------------------------------
(* The stream.                                                             *)

\* The positions from one on, before another.
Upto(from, to) == Positions(from, to - from)

\* at[k] is the position of the first byte after the k-th item on the way from d:
\* the items and then the data of the current Write continue, without a gap, what
\* the other end has read.
Continues(d, at) ==
    /\ at[0] = Len(got[Other(d)]) + 1
    /\ \A k \in 1 .. Len(pipe[d]) :
        at[k - 1] <= at[k] /\ pipe[d][k].data = Upto(at[k - 1], at[k])
    /\ at[Len(pipe[d])] <= next[d]
    /\ out[d] = Upto(at[Len(pipe[d])], next[d])

StreamInv ==
    /\ StreamIntact
    /\ \A d \in Ends : up /\ Other(d) \notin short => \E at \in [Nat -> Nat] : Continues(d, at)

LEMMA UptoLen ==
  ASSUME NEW x \in Nat, NEW y \in Nat, x <= y
  PROVE  Len(Upto(x, y)) = y - x
<1>1. y - x \in Nat OBVIOUS
<1> QED BY <1>1 DEF Positions, Upto

LEMMA UptoEmpty ==
  ASSUME NEW x \in Nat
  PROVE  Upto(x, x) = <<>>
<1>1. x - x = 0 OBVIOUS
<1> QED BY <1>1 DEF Positions, Upto

LEMMA UptoCut ==
  ASSUME NEW x \in Nat, NEW y \in Nat, NEW z \in Nat, x <= y, y <= z
  PROVE  /\ SubSeq(Upto(x, z), 1, y - x) = Upto(x, y)
         /\ SubSeq(Upto(x, z), (y - x) + 1, z - x) = Upto(y, z)
  BY DEF Positions, Upto

LEMMA UptoJoin ==
  ASSUME NEW x \in Nat, NEW y \in Nat, 1 <= x, x <= y
  PROVE  Positions(1, x - 1) \o Upto(x, y) = Positions(1, y - 1)
  BY DEF Positions, Upto

LEMMA ContinuesKept ==
  ASSUME NEW d, NEW at, Continues(d, at), pipe'[d] = pipe[d], out'[d] = out[d],
         next'[d] = next[d], got'[Other(d)] = got[Other(d)]
  PROVE  Continues(d, at)'
  BY DEF Continues

LEMMA ContinuesEnd ==
  ASSUME NEW d \in Ends, NEW at \in [Nat -> Nat], Continues(d, at), Types
  PROVE  /\ Len(pipe[d]) \in Nat /\ next[d] \in Nat /\ at[Len(pipe[d])] \in Nat
         /\ out[d] = <<>> => at[Len(pipe[d])] = next[d]
<1> DEFINE m == Len(pipe[d])
<1>1. m \in Nat
  <2>1. pipe[d] \in Seq(Items) BY DEF Types
  <2> QED BY <2>1
<1>2. next[d] \in Nat BY DEF Types, TypeOK
<1>3. at[m] \in Nat BY <1>1
<1>4. at[m] <= next[d] /\ out[d] = Upto(at[m], next[d]) BY DEF Continues
<1> HIDE DEF m
<1>5. Len(out[d]) = next[d] - at[m] BY <1>2, <1>3, <1>4, UptoLen
<1>6. ASSUME out[d] = <<>> PROVE at[m] = next[d]
  <2>1. next[d] - at[m] = 0 BY <1>5, <1>6
  <2> QED BY <1>2, <1>3, <2>1
<1> QED BY <1>1, <1>2, <1>3, <1>6 DEF m

\* d begins a Write.
LEMMA ContinuesOut ==
  ASSUME NEW d \in Ends, NEW at \in [Nat -> Nat], Continues(d, at), Types,
         out[d] = <<>>, out'[d] = Upto(next[d], next'[d]), next[d] <= next'[d],
         pipe'[d] = pipe[d], got'[Other(d)] = got[Other(d)]
  PROVE  Continues(d, at)'
<1>1. at[Len(pipe[d])] = next[d] BY ContinuesEnd
<1> QED BY <1>1 DEF Continues

\* d sends the bytes before the position p in an item.
Sends(d, at, p, item) ==
    /\ at[Len(pipe[d])] <= p /\ p <= next[d] /\ item.data = Upto(at[Len(pipe[d])], p)
    /\ pipe'[d] = Append(pipe[d], item) /\ out'[d] = Upto(p, next[d])
    /\ next'[d] = next[d] /\ got'[Other(d)] = got[Other(d)]

LEMMA ContinuesAppend ==
  ASSUME NEW d \in Ends, NEW at \in [Nat -> Nat], Continues(d, at), Types,
         NEW p \in Nat, NEW item \in Items, Sends(d, at, p, item)
  PROVE  \E new \in [Nat -> Nat] : Continues(d, new)'
<1>1. pipe[d] \in Seq(Items) BY DEF Types
<1>0. PICK m \in Nat : m = Len(pipe[d]) BY <1>1
<1>2. /\ Len(pipe'[d]) = m + 1 /\ m \in Nat /\ pipe'[d][m + 1] = item
      /\ \A i \in 1 .. m : pipe'[d][i] = pipe[d][i]
  <2>1. pipe'[d] = Append(pipe[d], item) BY DEF Sends
  <2>2. /\ Len(Append(pipe[d], item)) = Len(pipe[d]) + 1
        /\ Append(pipe[d], item)[Len(pipe[d]) + 1] = item
        /\ \A i \in 1 .. Len(pipe[d]) : Append(pipe[d], item)[i] = pipe[d][i]
    BY <1>1, AppendOf
  <2> QED BY <1>0, <2>1, <2>2, Zenon
<1>3. at[m] <= p /\ item.data = Upto(at[m], p) BY <1>0 DEF Sends
<1>4. PICK new \in [Nat -> Nat] : new[m + 1] = p /\ \A k \in 0 .. m : new[k] = at[k]
  <2> DEFINE new == [at EXCEPT ![m + 1] = p]
  <2>1. new \in [Nat -> Nat] OBVIOUS
  <2>2. new[m + 1] = p OBVIOUS
  <2>3. \A k \in 0 .. m : new[k] = at[k] OBVIOUS
  <2> HIDE DEF new
  <2> QED BY <2>1, <2>2, <2>3
<1>5. new[0] = Len(got'[Other(d)]) + 1
  <2>0. 0 \in 0 .. m OBVIOUS
  <2>1. new[0] = at[0] BY <1>4, <2>0
  <2> QED BY <2>1 DEF Continues, Sends
<1>6. ASSUME NEW k \in 1 .. m + 1
      PROVE  new[k - 1] <= new[k] /\ pipe'[d][k].data = Upto(new[k - 1], new[k])
  <2>1. CASE k = m + 1
    <3>1. new[k - 1] = at[m] /\ new[k] = p BY <1>2, <1>4, <2>1
    <3> QED BY <1>2, <1>3, <2>1, <3>1
  <2>2. CASE k # m + 1
    <3>0. m \in Nat BY <1>2
    <3>1. k \in 1 .. m /\ k - 1 \in 0 .. m /\ k \in 0 .. m BY <2>2, <3>0
    <3>2. new[k - 1] = at[k - 1] /\ new[k] = at[k] /\ pipe'[d][k] = pipe[d][k]
      BY <1>2, <1>4, <3>1
    <3> QED BY <1>0, <3>1, <3>2 DEF Continues
  <2> QED BY <2>1, <2>2
<1>7. new[m + 1] <= next'[d] /\ out'[d] = Upto(new[m + 1], next'[d]) BY <1>4 DEF Sends
<1>8. Continues(d, new)'
  <2>1. Len(pipe'[d]) = m + 1 BY <1>2
  <2> QED BY <1>5, <1>6, <1>7, <2>1 DEF Continues
<1> QED BY <1>8

\* The other end takes the first item and has read what is in it.
LEMMA ContinuesTail ==
  ASSUME NEW d \in Ends, NEW at \in [Nat -> Nat], Continues(d, at), Types,
         pipe[d] # <<>>, pipe'[d] = Tail(pipe[d]), Len(got'[Other(d)]) + 1 = at[1],
         out'[d] = out[d], next'[d] = next[d]
  PROVE  \E new \in [Nat -> Nat] : Continues(d, new)'
<1> DEFINE m == Len(pipe[d])
           new == [k \in Nat |-> at[k + 1]]
<1>1. pipe[d] \in Seq(Items) BY DEF Types
<1>2. /\ Len(pipe'[d]) = m - 1 /\ m \in Nat /\ m > 0
      /\ \A i \in 1 .. m - 1 : pipe'[d][i] = pipe[d][i + 1]
  BY <1>1, TailOf
<1>3. new \in [Nat -> Nat] /\ \A k \in Nat : new[k] = at[k + 1] OBVIOUS
<1> HIDE DEF new, m
<1>4. new[0] = Len(got'[Other(d)]) + 1 BY <1>3
<1>5. ASSUME NEW k \in 1 .. m - 1
      PROVE  new[k - 1] <= new[k] /\ pipe'[d][k].data = Upto(new[k - 1], new[k])
  <2>1. k + 1 \in 1 .. m /\ k - 1 \in Nat /\ k \in Nat /\ (k - 1) + 1 = (k + 1) - 1 BY <1>2
  <2>2. new[k - 1] = at[(k + 1) - 1] /\ new[k] = at[k + 1] /\ pipe'[d][k] = pipe[d][k + 1]
    BY <1>2, <1>3, <2>1
  <2>3. at[(k + 1) - 1] <= at[k + 1] /\ pipe[d][k + 1].data = Upto(at[(k + 1) - 1], at[k + 1])
    BY <2>1 DEF Continues, m
  <2> QED BY <2>2, <2>3
<1>6. new[m - 1] = at[m]
  <2>1. m - 1 \in Nat /\ (m - 1) + 1 = m BY <1>2
  <2> QED BY <1>3, <2>1
<1>7. new[m - 1] <= next'[d] /\ out'[d] = Upto(new[m - 1], next'[d])
  BY <1>6 DEF Continues, m
<1>8. Continues(d, new)' BY <1>2, <1>4, <1>5, <1>7 DEF Continues
<1> QED BY <1>3, <1>8

LEMMA StreamInit == Init => StreamInv
<1> SUFFICES ASSUME Init PROVE StreamInv OBVIOUS
<1>1. \A e \in Ends : got[e] = <<>> /\ pipe[e] = <<>> /\ out[e] = <<>> /\ next[e] = 1
  BY DEF Init
<1>2. StreamIntact
  <2>1. Len(<<>>) = 0 /\ Positions(1, 0) = <<>> BY DEF Positions
  <2> QED BY <1>1, <2>1 DEF StreamIntact
<1>3. ASSUME NEW d \in Ends PROVE Continues(d, [k \in Nat |-> 1])
  <2>1. Upto(1, 1) = <<>> BY UptoEmpty
  <2>2. Other(d) \in Ends BY OtherEnd
  <2> QED BY <1>1, <2>1, <2>2 DEF Continues
<1>4. [k \in Nat |-> 1] \in [Nat -> Nat] OBVIOUS
<1> QED BY <1>2, <1>3, <1>4 DEF StreamInv

\* Steps that change neither what was read nor the way of the bytes, or after
\* which the transport is down.
LEMMA QuietStream ==
  ASSUME StreamInv, got' = got, short \subseteq short',
         up' => up, up' => UNCHANGED <<pipe, out, next>>
  PROVE  StreamInv'
<1>1. StreamIntact' BY DEF StreamInv, StreamIntact
<1>2. ASSUME NEW d \in Ends, up', Other(d) \notin short'
      PROVE  \E at \in [Nat -> Nat] : Continues(d, at)'
  <2>1. PICK at \in [Nat -> Nat] : Continues(d, at) BY <1>2 DEF StreamInv
  <2>2. Continues(d, at)' BY <1>2, <2>1, ContinuesKept
  <2> QED BY <2>2
<1> QED BY <1>1, <1>2 DEF StreamInv

\* A step of an end that writes leaves the other direction alone.
LEMMA WriterStream ==
  ASSUME StreamInv, NEW e \in Ends, UNCHANGED <<got, short, up>>,
         \A d \in Ends \ {e} : pipe'[d] = pipe[d] /\ out'[d] = out[d] /\ next'[d] = next[d],
         up => \A at \in [Nat -> Nat] :
                 Continues(e, at) => \E new \in [Nat -> Nat] : Continues(e, new)'
  PROVE  StreamInv'
<1>1. StreamIntact' BY DEF StreamInv, StreamIntact
<1>2. ASSUME NEW d \in Ends, up', Other(d) \notin short'
      PROVE  \E at \in [Nat -> Nat] : Continues(d, at)'
  <2>1. PICK at \in [Nat -> Nat] : Continues(d, at) BY <1>2 DEF StreamInv
  <2>2. CASE d = e BY <1>2, <2>1, <2>2
  <2>3. CASE d # e
    <3>1. Continues(d, at)' BY <2>1, <2>3, ContinuesKept
    <3> QED BY <3>1
  <2> QED BY <2>2, <2>3
<1> QED BY <1>1, <1>2 DEF StreamInv

LEMMA WriteEphStream ==
  ASSUME StreamInv, NonceInv, NEW e \in Ends, WriteEph(e)
  PROVE  StreamInv'
<1> DEFINE item == [nonce |-> eph[e], data |-> <<>>]
<1>0. Types BY DEF NonceInv
<1>1. /\ phase[e] = "eph" /\ pipe' = [pipe EXCEPT ![e] = Append(@, item)]
      /\ UNCHANGED <<out, next, got, short, up>>
  BY DEF WriteEph
<1>2. item \in Items
  <2>1. eph[e] \in Nat /\ <<>> \in Seq(Nat) BY <1>0, NonceAssumption DEF Types
  <2> QED BY <2>1 DEF Items
<1>3. pipe'[e] = Append(pipe[e], item) /\ \A d \in Ends \ {e} : pipe'[d] = pipe[d]
  BY <1>0, <1>1 DEF Types
<1>4. out[e] = <<>> BY <1>1 DEF NonceInv, Local
<1>5. item.data = <<>> OBVIOUS
<1> HIDE DEF item
<1>6. ASSUME NEW at \in [Nat -> Nat], Continues(e, at)
      PROVE  \E new \in [Nat -> Nat] : Continues(e, new)'
  <2>1. at[Len(pipe[e])] = next[e] /\ next[e] \in Nat BY <1>0, <1>4, <1>6, ContinuesEnd
  <2>2. Upto(next[e], next[e]) = <<>> BY <2>1, UptoEmpty
  <2>3. Sends(e, at, next[e], item) BY <1>1, <1>3, <1>4, <1>5, <2>1, <2>2 DEF Sends
  <2> QED BY <1>0, <1>2, <1>6, <2>1, <2>3, ContinuesAppend
<1> QED BY <1>1, <1>3, <1>6, WriterStream

LEMMA StartStream ==
  ASSUME StreamInv, NonceInv, NEW e \in Ends, StartAuth(e) \/ StartWrite(e)
  PROVE  StreamInv'
<1>0. Types BY DEF NonceInv
<1>1. UNCHANGED <<pipe, got, short, up>> BY DEF StartAuth, StartWrite
<1>2. PICK n \in Nat : /\ out[e] = <<>>
                       /\ out' = [out EXCEPT ![e] = Positions(next[e], n)]
                       /\ next' = [next EXCEPT ![e] = next[e] + n]
  <2>1. CASE StartAuth(e)
    <3>1. out[e] = <<>> /\ next[e] = 1 BY <2>1 DEF StartAuth, NonceInv, Local
    <3>2. AuthSize \in Nat /\ AuthSize + 1 = 1 + AuthSize BY SizeAssumption
    <3>3. /\ out' = [out EXCEPT ![e] = Positions(1, AuthSize)]
          /\ next' = [next EXCEPT ![e] = AuthSize + 1]
      BY <2>1 DEF StartAuth
    <3> QED BY <3>1, <3>2, <3>3
  <2>2. CASE StartWrite(e)
    <3>1. /\ out[e] = <<>> /\ phase[e] = "open" /\ todo[e] # <<>>
          /\ out' = [out EXCEPT ![e] = Positions(next[e], Head(todo[e]))]
          /\ next' = [next EXCEPT ![e] = next[e] + Head(todo[e])]
      BY <2>2 DEF StartWrite
    <3>2. todo[e] \in Seq(Nat \ {0}) BY <1>0, <3>1 DEF Types
    <3>3. Head(todo[e]) \in Nat BY <3>1, <3>2, TailOf
    <3> QED BY <3>1, <3>3
  <2> QED BY <2>1, <2>2
<1>3. next[e] \in Nat BY <1>0 DEF Types, TypeOK
<1>4. /\ out'[e] = Positions(next[e], n) /\ next'[e] = next[e] + n
      /\ \A d \in Ends \ {e} : out'[d] = out[d] /\ next'[d] = next[d]
  BY <1>0, <1>2 DEF Types, TypeOK
<1>5. next'[e] - next[e] = n /\ next[e] <= next'[e] BY <1>3, <1>4, Further, Zenon
<1>6. out'[e] = Upto(next[e], next'[e]) BY <1>4, <1>5 DEF Upto
<1>7. ASSUME NEW at \in [Nat -> Nat], Continues(e, at) PROVE Continues(e, at)'
  BY <1>0, <1>1, <1>2, <1>5, <1>6, <1>7, ContinuesOut
<1> QED BY <1>1, <1>4, <1>7, WriterStream

LEMMA WriteStream ==
  ASSUME StreamInv, NonceInv, NEW e \in Ends, Write(e)
  PROVE  StreamInv'
<1> DEFINE chunk == Chunk(out[e])
           n == Len(chunk)
           item == [nonce |-> sendNonce[e], data |-> chunk]
           left == SubSeq(out[e], n + 1, Len(out[e]))
<1>0. Types BY DEF NonceInv
<1>1. /\ out[e] # <<>>
      /\ pipe' = [pipe EXCEPT ![e] = Append(@, item)] /\ out' = [out EXCEPT ![e] = left]
      /\ UNCHANGED <<next, got, short, up>>
  BY DEF Write
<1>2. out[e] \in Seq(Nat) /\ sendNonce[e] \in Nat BY <1>0 DEF Types, TypeOK
<1>3. chunk = SubSeq(out[e], 1, n) /\ n \in 1 .. Len(out[e]) /\ chunk \in Seq(Nat)
  BY <1>1, <1>2, ChunkOf
<1>4. item \in Items /\ item.data = chunk BY <1>2, <1>3 DEF Items
<1>5. /\ pipe'[e] = Append(pipe[e], item) /\ out'[e] = left
      /\ \A d \in Ends \ {e} : pipe'[d] = pipe[d] /\ out'[d] = out[d]
  BY <1>0, <1>1 DEF Types, TypeOK
<1> HIDE DEF chunk, n, item
<1>6. ASSUME NEW at \in [Nat -> Nat], Continues(e, at)
      PROVE  \E new \in [Nat -> Nat] : Continues(e, new)'
  <2> DEFINE x == at[Len(pipe[e])]
             z == next[e]
             y == x + n
  <2>1. x \in Nat /\ z \in Nat BY <1>0, <1>6, ContinuesEnd
  <2>2. x <= z /\ out[e] = Upto(x, z) BY <1>6 DEF Continues
  <2> HIDE DEF x, z
  <2>3. Len(out[e]) = z - x BY <2>1, <2>2, UptoLen
  <2>4. n \in Nat /\ n <= z - x BY <1>3, <2>1, <2>3
  <2>5. y \in Nat /\ x <= y /\ y <= z /\ y - x = n BY <2>1, <2>4
  <2> HIDE DEF y
  <2>6. chunk = Upto(x, y) /\ left = Upto(y, z)
    <3>1. /\ SubSeq(Upto(x, z), 1, y - x) = Upto(x, y)
          /\ SubSeq(Upto(x, z), (y - x) + 1, z - x) = Upto(y, z)
      BY <2>1, <2>5, UptoCut
    <3>2. chunk = SubSeq(out[e], 1, n) BY <1>3
    <3> QED BY <2>2, <2>3, <2>5, <3>1, <3>2, Zenon
  <2> HIDE DEF left
  <2>7. Sends(e, at, y, item) BY <1>1, <1>4, <1>5, <2>5, <2>6 DEF Sends, x, z
  <2> QED BY <1>0, <1>4, <1>6, <2>5, <2>7, ContinuesAppend
<1> QED BY <1>1, <1>5, <1>6, WriterStream

\* Until a buffer is too short, an end that takes an item has read all of it.
LEMMA ReaderStream ==
  ASSUME StreamInv, NonceInv, NEW e \in Ends, pipe[Other(e)] # <<>>, up,
         pipe' = [pipe EXCEPT ![Other(e)] = Tail(@)],
         UNCHANGED <<out, next, up>>, short \subseteq short', short' \subseteq short \cup {e},
         \A d \in Ends \ {e} : got'[d] = got[d],
         e \notin short' => got'[e] = got[e] \o Head(pipe[Other(e)]).data
  PROVE  StreamInv'
<1> DEFINE o == Other(e)
<1>0. o \in Ends /\ o # e /\ Other(o) = e /\ \A d \in Ends : d = e \/ d = o BY OtherEnd
<1>1. Types BY DEF NonceInv
<1>2. pipe'[o] = Tail(pipe[o]) /\ pipe'[e] = pipe[e] BY <1>0, <1>1 DEF Types
<1> HIDE DEF o
<1>3. o \in short' <=> o \in short BY <1>0
<1>4. \/ o \in short
      \/ got[o] = Positions(1, Len(got[o]))
  BY <1>0 DEF StreamInv, StreamIntact
<1>5. ASSUME up', o \notin short' PROVE \E at \in [Nat -> Nat] : Continues(e, at)'
  <2>1. PICK at \in [Nat -> Nat] : Continues(e, at) BY <1>3, <1>5 DEF StreamInv, o
  <2>2. got'[Other(e)] = got[Other(e)] BY <1>0 DEF o
  <2>3. Continues(e, at)' BY <1>2, <2>1, <2>2, ContinuesKept
  <2> QED BY <2>3
<1>6. CASE e \in short'
  <2>1. StreamIntact' BY <1>0, <1>3, <1>4, <1>6 DEF StreamIntact
  <2> QED BY <1>0, <1>5, <1>6, <2>1 DEF StreamInv, o
<1>7. CASE e \notin short'
  <2>1. e \notin short /\ got'[e] = got[e] \o pipe[o][1].data
    <3>1. Head(pipe[o]) = pipe[o][1] BY <1>0, <1>1, TailOf DEF Types, o
    <3> QED BY <1>7, <3>1 DEF o
  <2>2. got[e] = Positions(1, Len(got[e])) BY <2>1 DEF StreamInv, StreamIntact
  <2>3. PICK at \in [Nat -> Nat] : Continues(o, at) BY <1>0, <2>1 DEF StreamInv
  <2> DEFINE x == at[0]
             y == at[1]
  <2>4. x \in Nat /\ y \in Nat OBVIOUS
  <2>5. x = Len(got[e]) + 1 /\ x <= y /\ pipe[o][1].data = Upto(x, y)
    <3>1. 1 \in 1 .. Len(pipe[o]) /\ 1 - 1 = 0
      <4>1. Len(pipe[o]) \in Nat /\ Len(pipe[o]) > 0 BY <1>0, <1>1, TailOf DEF Types, o
      <4> QED BY <4>1
    <3> QED BY <1>0, <2>3, <3>1 DEF Continues
  <2> HIDE DEF x, y
  <2>6. Len(got[e]) \in Nat
    <3>1. got[e] \in Seq(Nat) BY <1>1 DEF Types, TypeOK
    <3> QED BY <3>1
  <2>7. Len(got[e]) = x - 1 /\ 1 <= x BY <2>5, <2>6, Before, Zenon
  <2>8. got'[e] = Positions(1, x - 1) \o Upto(x, y) BY <2>1, <2>2, <2>5, <2>7
  <2>9. got'[e] = Positions(1, y - 1) BY <2>4, <2>5, <2>7, <2>8, UptoJoin
  <2>10. Len(got'[e]) = y - 1
    <3>1. y - 1 \in Nat BY <2>4, <2>5, <2>7
    <3> QED BY <2>9, <3>1 DEF Positions
  <2>11. StreamIntact' BY <1>0, <1>3, <1>4, <2>9, <2>10 DEF StreamIntact
  <2>12. \E new \in [Nat -> Nat] : Continues(o, new)'
    <3>1. Len(got'[Other(o)]) + 1 = at[1] BY <1>0, <2>4, <2>10 DEF y
    <3>2. pipe[o] # <<>> BY DEF o
    <3> QED BY <1>0, <1>1, <1>2, <2>3, <3>1, <3>2, ContinuesTail
  <2> QED BY <1>0, <1>5, <2>11, <2>12 DEF StreamInv, o
<1> QED BY <1>6, <1>7

LEMMA ReadStream ==
  ASSUME StreamInv, NonceInv, NEW e \in Ends, Read(e)
  PROVE  StreamInv'
<1>0. Types BY DEF NonceInv
<1>1. UNCHANGED <<out, next>> BY DEF Read
<1>2. PICK k : ReadLeft(e, k) \/ (ReadFrame(e, k) /\ phase[e] \in {"auth", "open"}) BY DEF Read
<1>3. CASE ReadLeft(e, k) BY <1>1, <1>3, QuietStream DEF ReadLeft
<1>4. CASE ReadFrame(e, k) /\ phase[e] \in {"auth", "open"}
  <2> DEFINE frame == Head(pipe[Other(e)])
  <2>1. up /\ pipe[Other(e)] # <<>> /\ pipe' = [pipe EXCEPT ![Other(e)] = Tail(@)]
    BY <1>4 DEF ReadFrame
  <2>2. frame.nonce = recvNonce[e] BY <1>4, <2>1, FrameOpens
  <2>3. /\ got' = [got EXCEPT ![e] = @ \o Take(frame.data, k)]
        /\ short' = IF k < Len(frame.data) THEN short \cup {e} ELSE short
        /\ up' = up
    BY <1>4, <2>2 DEF ReadFrame
  <2>4. frame.data \in Seq(Nat)
    <3>1. pipe[Other(e)] \in Seq(Items) BY <1>0, OtherEnd DEF Types
    <3>2. frame \in Items BY <2>1, <3>1, TailOf
    <3> QED BY <3>2 DEF Items
  <2> HIDE DEF frame
  <2>5. ASSUME e \notin short' PROVE got'[e] = got[e] \o frame.data
    <3>1. ~(k < Len(frame.data)) BY <2>3, <2>5
    <3>2. SubSeq(frame.data, 1, Len(frame.data)) = frame.data BY <2>4
    <3>3. Take(frame.data, k) = frame.data BY <3>1, <3>2 DEF Take
    <3> QED BY <1>0, <2>3, <3>3 DEF Types, TypeOK
  <2>6. \A d \in Ends \ {e} : got'[d] = got[d] BY <1>0, <2>3 DEF Types, TypeOK
  <2> QED BY <1>1, <2>1, <2>3, <2>5, <2>6, ReaderStream DEF frame
<1> QED BY <1>2, <1>3, <1>4

LEMMA ReadEphStream ==
  ASSUME StreamInv, NonceInv, NEW e \in Ends, ReadEph(e)
  PROVE  StreamInv'
<1> DEFINE o == Other(e)
<1>0. o \in Ends /\ Other(o) = e BY OtherEnd
<1>1. Types /\ KeyOnItsWay(o) BY <1>0 DEF NonceInv
<1>2. /\ up /\ remote[e] = {} /\ pipe[o] # <<>> /\ pipe' = [pipe EXCEPT ![o] = Tail(@)]
      /\ UNCHANGED <<out, next, up, short, got>>
  BY DEF ReadEph
<1>3. Head(pipe[o]).data = <<>>
  <2>1. pipe[o][1] = [nonce |-> eph[o], data |-> <<>>] BY <1>0, <1>1, <1>2 DEF KeyOnItsWay
  <2>2. Head(pipe[o]) = pipe[o][1] BY <1>0, <1>1, <1>2, TailOf DEF Types
  <2> QED BY <2>1, <2>2
<1>4. got[e] \o <<>> = got[e] BY <1>1 DEF Types, TypeOK
<1> QED BY <1>2, <1>3, <1>4, ReaderStream

LEMMA StreamStep == StreamInv /\ NonceInv /\ [Next]_vars => StreamInv'
<1> SUFFICES ASSUME StreamInv, NonceInv, [Next]_vars PROVE StreamInv' OBVIOUS
<1>1. ASSUME NEW e \in Ends, FinishAuth(e) \/ CloseAfterError(e) PROVE StreamInv'
  <2>1. CASE FinishAuth(e) BY <2>1, QuietStream DEF FinishAuth
  <2>2. CASE CloseAfterError(e) BY <2>2, QuietStream DEF CloseAfterError
  <2> QED BY <1>1, <2>1, <2>2, Zenon
<1>2. CASE Fail BY <1>2, QuietStream DEF Fail
<1>3. CASE UNCHANGED vars BY <1>3, QuietStream DEF vars
<1> QED BY <1>1, <1>2, <1>3, WriteEphStream, ReadEphStream, StartStream, WriteStream,
           ReadStream DEF Next, Step

\* What Read has returned is what the other end wrote, from its first byte on and
\* without gaps or repetitions, for every cutting into frames and every capacity
\* of the transport, up to a failure and before a read with too short a buffer.
THEOREM StreamAlwaysIntact == Spec => []StreamIntact
<1>1. StreamInv => StreamIntact BY DEF StreamInv
<1> QED BY <1>1, NonceInit, NonceStep, StreamInit, StreamStep, PTL DEF Spec
=============================================================================
