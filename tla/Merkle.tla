------------------------------- MODULE Merkle -------------------------------
(***************************************************************************)
(* The Merkle root of transactions and of their results                    *)
(* (src/protocol/bc/merkle.go).  SHA3 is taken to have no collisions: the  *)
(* hash of a sequence is a value that determines the sequence.             *)
(***************************************************************************)
EXTENDS Integers, Sequences

CONSTANTS MaxLeaves    \* bound on the number of nodes

VARIABLES nodes        \* the transactions of a block in the making

\* What is written into a hash: bytes and hashes, told apart by their tag.
byte(n) == <<"byte", n>>
sha3(content) == <<"hash", content>>

leafPrefix == byte(0)
interiorPrefix == byte(1)
EmptyStringHash == sha3(<<>>)

\* Mutant of prevPowerOfTwo: the nodes are split in the middle.
prevPowerOfTwoHalf(n) == n \div 2

\* n & (n-1) = 0 tells the powers of two; otherwise the logarithm is cut off.
prevPowerOfTwo(n) ==
    LET exponent == CHOOSE e \in 0 .. n : 2 ^ e <= n /\ n < 2 ^ (e + 1)
    IN  IF 2 ^ exponent = n THEN n \div 2 ELSE 2 ^ exponent

RECURSIVE merkleRoot(_)
merkleRoot(s) ==
    CASE Len(s) = 0 -> EmptyStringHash
      [] Len(s) = 1 -> sha3(<<leafPrefix, s[1]>>)
      [] OTHER ->
            LET k == prevPowerOfTwo(Len(s))
            IN  sha3(<<interiorPrefix, merkleRoot(SubSeq(s, 1, k)),
                                       merkleRoot(SubSeq(s, k + 1, Len(s)))>>)

-----------------------------------------------------------------------------
(* The reference: the tree built level by level from the leaves.           *)

Leaves(s) == [i \in DOMAIN s |-> sha3(<<leafPrefix, s[i]>>)]

\* Neighbours are joined; the last one of an odd number moves up as it is.
LevelAbove(l) ==
    [i \in 1 .. (Len(l) + 1) \div 2 |->
        IF 2 * i <= Len(l) THEN sha3(<<interiorPrefix, l[2 * i - 1], l[2 * i]>>) ELSE l[2 * i - 1]]

RECURSIVE TopLevel(_)
TopLevel(l) == IF Len(l) = 1 THEN l[1] ELSE TopLevel(LevelAbove(l))

-----------------------------------------------------------------------------
MerkleInit == nodes = <<>>

\* A block gets one more transaction.
AddNode == Len(nodes) < MaxLeaves /\ nodes' = Append(nodes, byte(Len(nodes)))

-----------------------------------------------------------------------------
(* Properties.                                                             *)

\* The recursion over prevPowerOfTwo gives the tree that is built level by
\* level, in which an odd node is neither doubled nor padded, whatever the
\* number of transactions.
RootByLevels ==
    merkleRoot(nodes) = IF nodes = <<>> THEN EmptyStringHash ELSE TopLevel(Leaves(nodes))
=============================================================================
