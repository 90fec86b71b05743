--------------------------- MODULE BlockSyncProofs ---------------------------
(***************************************************************************)
(* Proofs about the chain (protocol/block.go, protocol.go, state,          *)
(* database/leveldb) and about block synchronisation over it (netsync),    *)
(* for any tree of blocks, any peers and bounds, and any crashes.          *)
(***************************************************************************)
EXTENDS BlockSync, TLAPS, WellFoundedInduction

\* A leaf is tried with SMT and Zenon, and then again with more time.
USE SMT, Zenon, SMTT(40), ZenonT(40), Z3T(40)

-----------------------------------------------------------------------------
(* Induction over the natural numbers, with a set in place of a predicate. *)

LEMMA LeastNumber ==
  ASSUME NEW T, T \subseteq Nat, T # {}
  PROVE  \E x \in T : \A y \in T : x <= y
<1> DEFINE R == {n \in Nat \X Nat : n[1] < n[2]}
<1>1. IsWellFoundedOn(R, Nat)
  <2>1. OpToRel(<, Nat) = R BY DEF OpToRel
  <2> QED BY <2>1, NatLessThanWellFounded
<1> HIDE DEF R
<1>2. PICK x \in T : \A y \in T : ~(<<y, x>> \in R) BY <1>1, WFMin
<1>3. \A y \in T : ~(y < x)
  <2> SUFFICES ASSUME NEW y \in T, y < x PROVE FALSE OBVIOUS
  <2>1. <<y, x>> \in R BY <1>2 DEF R
  <2> QED BY <1>2, <2>1
<1>4. \A y \in T : x <= y BY <1>2, <1>3
<1> QED BY <1>2, <1>4

LEMMA InductionOnSet ==
  ASSUME NEW T, 0 \in T, \A n \in Nat : n \in T => n + 1 \in T
  PROVE  Nat \subseteq T
<1> SUFFICES ASSUME Nat \ T # {} PROVE FALSE OBVIOUS
<1>1. PICK x \in Nat \ T : \A y \in Nat \ T : x <= y BY LeastNumber
<1>2. x # 0 BY <1>1
<1>3. x - 1 \in Nat BY <1>2
<1>4. x - 1 \in T BY <1>1, <1>3
<1> QED BY <1>1, <1>3, <1>4

LEMMA MemberIsBoolean ==
  ASSUME NEW x, NEW S
  PROVE  (x \in S) \in BOOLEAN
  OBVIOUS

LEMMA NoIndex ==
  ASSUME NEW s, Len(s) = 0, NEW i \in 1 .. Len(s)
  PROVE  FALSE
  OBVIOUS

LEMMA HeadTail ==
  ASSUME NEW S, NEW s \in Seq(S), s # <<>>
  PROVE  /\ Head(s) \in S /\ Tail(s) \in Seq(S) /\ Len(s) > 0 /\ Head(s) = s[1]
         /\ Len(Tail(s)) = Len(s) - 1 /\ \A i \in 1 .. Len(Tail(s)) : Tail(s)[i] = s[i + 1]
OBVIOUS

-----------------------------------------------------------------------------
(* The walk along Parent.                                                  *)

\* up is the function that Path defines, for the first n steps.
Walk(par, b, n, up) ==
    up = [i \in 0 .. n |-> IF i = 0 THEN b
                           ELSE IF up[i - 1] \in DOMAIN par THEN par[up[i - 1]] ELSE Nil]

LEMMA WalkExists ==
  ASSUME NEW par, NEW b, NEW n \in Nat
  PROVE  \E up : Walk(par, b, n, up)
<1> DEFINE T == {k \in Nat : \E up : Walk(par, b, k, up)}
<1>1. 0 \in T
  <2>1. Walk(par, b, 0, [i \in 0 .. 0 |-> b]) BY DEF Walk
  <2> QED BY <2>1
<1>2. ASSUME NEW k \in Nat, k \in T PROVE k + 1 \in T
  <2>1. PICK up : Walk(par, b, k, up) BY <1>2
  <2> DEFINE longer == [i \in 0 .. k + 1 |->
                          IF i = k + 1
                          THEN IF up[k] \in DOMAIN par THEN par[up[k]] ELSE Nil
                          ELSE up[i]]
  <2>2. \A i \in 0 .. k : up[i] = IF i = 0 THEN b
                                  ELSE IF up[i - 1] \in DOMAIN par THEN par[up[i - 1]] ELSE Nil
    BY <2>1 DEF Walk
  <2>3. \A i \in 0 .. k : longer[i] = up[i] OBVIOUS
  <2>4. longer[k + 1] = IF up[k] \in DOMAIN par THEN par[up[k]] ELSE Nil OBVIOUS
  <2> HIDE DEF longer
  <2>5. \A i \in 0 .. k + 1 :
          longer[i] = IF i = 0 THEN b
                      ELSE IF longer[i - 1] \in DOMAIN par THEN par[longer[i - 1]] ELSE Nil
    <3> SUFFICES ASSUME NEW i \in 0 .. k + 1
                 PROVE  longer[i] = IF i = 0 THEN b
                          ELSE IF longer[i - 1] \in DOMAIN par THEN par[longer[i - 1]] ELSE Nil
      OBVIOUS
    <3>1. CASE i = k + 1
      <4>1. longer[i - 1] = up[k] /\ i # 0 BY <2>3, <3>1
      <4> QED BY <2>4, <3>1, <4>1
    <3>2. CASE i = 0 BY <2>2, <2>3, <3>2
    <3>3. CASE i \in 1 .. k
      <4>1. longer[i] = up[i] /\ longer[i - 1] = up[i - 1] /\ i # 0 BY <2>3, <3>3
      <4> QED BY <2>2, <3>3, <4>1
    <3> QED BY <3>1, <3>2, <3>3
  <2>6. longer = [i \in 0 .. k + 1 |-> longer[i]] BY DEF longer
  <2>7. Walk(par, b, k + 1, longer) BY <2>5, <2>6 DEF Walk
  <2> QED BY <2>7
<1> HIDE DEF T
<1>3. Nat \subseteq T BY <1>1, <1>2, InductionOnSet
<1> QED BY <1>3 DEF T

LEMMA PathSteps ==
  ASSUME NEW par, NEW b \in Blocks
  PROVE  /\ Path(par, b)[0] = b
         /\ \A i \in 1 .. HeightOf[b] :
              Path(par, b)[i] = IF Path(par, b)[i - 1] \in DOMAIN par
                                THEN par[Path(par, b)[i - 1]] ELSE Nil
<1>0. HeightOf[b] \in Nat BY TreeAssumption
<1>1. PICK up : Walk(par, b, HeightOf[b], up) BY <1>0, WalkExists
<1>2. Walk(par, b, HeightOf[b], Path(par, b)) BY <1>1 DEF Walk, Path
<1> DEFINE path == Path(par, b)
<1> HIDE DEF path
<1>3. \A i \in 0 .. HeightOf[b] :
         path[i] = IF i = 0 THEN b
                   ELSE IF path[i - 1] \in DOMAIN par THEN par[path[i - 1]] ELSE Nil
  BY <1>2 DEF Walk, path
<1>4. path[0] = b BY <1>0, <1>3
<1>5. \A i \in 1 .. HeightOf[b] :
         path[i] = IF path[i - 1] \in DOMAIN par THEN par[path[i - 1]] ELSE Nil
  BY <1>0, <1>3
<1> QED BY <1>4, <1>5 DEF path

\* The ancestors of a block are blocks, each one lower than the one before.
LEMMA Ancestors ==
  ASSUME NEW b \in Blocks
  PROVE  /\ Path(ParentOf, b)[0] = b
         /\ \A i \in 0 .. HeightOf[b] :
              /\ Path(ParentOf, b)[i] \in Blocks
              /\ HeightOf[Path(ParentOf, b)[i]] = HeightOf[b] - i
         /\ \A i \in 1 .. HeightOf[b] :
              /\ Path(ParentOf, b)[i - 1] \in Blocks \ {Genesis}
              /\ Path(ParentOf, b)[i] = ParentOf[Path(ParentOf, b)[i - 1]]
<1> DEFINE up == Path(ParentOf, b)
           h == HeightOf[b]
<1>0. h \in Nat BY TreeAssumption
<1>1. up[0] = b BY PathSteps
<1>2. \A i \in 1 .. h :
        up[i] = IF up[i - 1] \in DOMAIN ParentOf THEN ParentOf[up[i - 1]] ELSE Nil
  BY PathSteps
<1>3. DOMAIN ParentOf = Blocks \ {Genesis} BY TreeAssumption
<1> HIDE DEF up
<1> DEFINE T == {k \in Nat : k <= h => up[k] \in Blocks /\ HeightOf[up[k]] = h - k}
<1>4. ASSUME NEW k \in Nat, k + 1 <= h, up[k] \in Blocks, HeightOf[up[k]] = h - k
      PROVE  up[k] \in Blocks \ {Genesis} /\ up[k + 1] = ParentOf[up[k]]
  <2>1. up[k] # Genesis BY <1>0, <1>4, TreeAssumption
  <2>2. up[k + 1] = IF up[k] \in DOMAIN ParentOf THEN ParentOf[up[k]] ELSE Nil
    <3>1. k + 1 \in 1 .. h /\ (k + 1) - 1 = k BY <1>0, <1>4
    <3> QED BY <1>2, <3>1
  <2> QED BY <1>3, <1>4, <2>1, <2>2
<1>5. 0 \in T BY <1>0, <1>1
<1>6. ASSUME NEW k \in Nat, k \in T PROVE k + 1 \in T
  <2> SUFFICES ASSUME k + 1 <= h
               PROVE  up[k + 1] \in Blocks /\ HeightOf[up[k + 1]] = h - (k + 1)
    OBVIOUS
  <2>1. up[k] \in Blocks /\ HeightOf[up[k]] = h - k BY <1>0, <1>6
  <2>2. up[k] \in Blocks \ {Genesis} /\ up[k + 1] = ParentOf[up[k]] BY <1>4, <2>1
  <2>3. ParentOf[up[k]] \in Blocks /\ HeightOf[up[k]] = HeightOf[ParentOf[up[k]]] + 1
    BY <2>2, TreeAssumption
  <2>4. HeightOf[ParentOf[up[k]]] \in Nat BY <2>3, TreeAssumption
  <2> QED BY <1>0, <2>1, <2>2, <2>3, <2>4
<1> HIDE DEF T
<1>7. Nat \subseteq T BY <1>5, <1>6, InductionOnSet
<1>8. \A i \in 0 .. h : up[i] \in Blocks /\ HeightOf[up[i]] = h - i
  <2> TAKE i \in 0 .. h
  <2> QED BY <1>0, <1>7 DEF T
<1>9. \A i \in 1 .. h : up[i - 1] \in Blocks \ {Genesis} /\ up[i] = ParentOf[up[i - 1]]
  <2> TAKE i \in 1 .. h
  <2>1. i - 1 \in Nat /\ i - 1 \in 0 .. h /\ (i - 1) + 1 = i /\ (i - 1) + 1 <= h BY <1>0
  <2> QED BY <1>4, <1>8, <2>1
<1> QED BY <1>1, <1>8, <1>9 DEF up

\* Two walks that meet go on together.
LEMMA CommonAncestor ==
  ASSUME NEW a \in Blocks, NEW b \in Blocks, NEW m \in 0 .. HeightOf[a], NEW n \in 0 .. HeightOf[b],
         Path(ParentOf, a)[m] = Path(ParentOf, b)[n]
  PROVE  /\ HeightOf[a] - m = HeightOf[b] - n
         /\ \A d \in Nat : m + d <= HeightOf[a] =>
                             Path(ParentOf, a)[m + d] = Path(ParentOf, b)[n + d]
<1> DEFINE x == Path(ParentOf, a)
           y == Path(ParentOf, b)
<1>0. HeightOf[a] \in Nat /\ HeightOf[b] \in Nat BY TreeAssumption
<1>1. HeightOf[a] - m = HeightOf[b] - n BY Ancestors
<1>2. \A i \in 1 .. HeightOf[a] : x[i] = ParentOf[x[i - 1]] BY Ancestors
<1>3. \A i \in 1 .. HeightOf[b] : y[i] = ParentOf[y[i - 1]] BY Ancestors
<1>4. x[m] = y[n] OBVIOUS
<1> HIDE DEF x, y
<1> DEFINE T == {d \in Nat : m + d <= HeightOf[a] => x[m + d] = y[n + d]}
<1>5. 0 \in T BY <1>0, <1>4
<1>6. ASSUME NEW d \in Nat, d \in T PROVE d + 1 \in T
  <2> SUFFICES ASSUME m + (d + 1) <= HeightOf[a] PROVE x[m + (d + 1)] = y[n + (d + 1)]
    OBVIOUS
  <2>1. x[m + d] = y[n + d] BY <1>0, <1>6
  <2>2. /\ m + (d + 1) \in 1 .. HeightOf[a] /\ (m + (d + 1)) - 1 = m + d
        /\ n + (d + 1) \in 1 .. HeightOf[b] /\ (n + (d + 1)) - 1 = n + d
    BY <1>0, <1>1
  <2> QED BY <1>2, <1>3, <2>1, <2>2
<1> HIDE DEF T
<1>7. Nat \subseteq T BY <1>5, <1>6, InductionOnSet
<1>8. \A d \in Nat : m + d <= HeightOf[a] => x[m + d] = y[n + d] BY <1>7 DEF T
<1> QED BY <1>1, <1>8 DEF x, y

-----------------------------------------------------------------------------
(* The index and the main chain.                                           *)

\* Blocks on disk: a tree that hangs from the genesis block.
Tree(disk) ==
    /\ disk \subseteq Blocks /\ Genesis \in disk
    /\ \A b \in disk \ {Genesis} : ParentOf[b] \in disk

\* LoadBlockIndex finds the parent of every block of a tree.
LEMMA LoadTree ==
  ASSUME NEW disk, Tree(disk)
  PROVE  LoadBlockIndex(disk) = [b \in disk |-> IF b = Genesis THEN Nil ELSE ParentOf[b]]
<1>1. \A b \in disk : b # Genesis =>
        ParentOf[b] \in disk /\ HeightOf[ParentOf[b]] < HeightOf[b]
  <2> SUFFICES ASSUME NEW b \in disk, b # Genesis
               PROVE  ParentOf[b] \in disk /\ HeightOf[ParentOf[b]] < HeightOf[b]
    OBVIOUS
  <2>1. b \in Blocks \ {Genesis} /\ ParentOf[b] \in disk /\ ParentOf[b] \in Blocks BY DEF Tree
  <2>2. HeightOf[b] = HeightOf[ParentOf[b]] + 1 /\ HeightOf[ParentOf[b]] \in Nat
    BY <2>1, TreeAssumption
  <2> QED BY <2>1, <2>2
<1> QED BY <1>1 DEF LoadBlockIndex

\* In the index the walk from a saved block meets its ancestors, all saved.
LEMMA IndexedPath ==
  ASSUME NEW disk, Tree(disk), NEW b \in disk, NEW i \in 0 .. HeightOf[b]
  PROVE  /\ Path(LoadBlockIndex(disk), b)[i] = Path(ParentOf, b)[i]
         /\ Path(ParentOf, b)[i] \in disk
<1> DEFINE par == LoadBlockIndex(disk)
           x == Path(par, b)
           y == Path(ParentOf, b)
           h == HeightOf[b]
<1>0. b \in Blocks /\ h \in Nat BY TreeAssumption DEF Tree
<1>1. x[0] = b /\ y[0] = b BY <1>0, PathSteps
<1>2. \A k \in 1 .. h : x[k] = IF x[k - 1] \in DOMAIN par THEN par[x[k - 1]] ELSE Nil
  BY <1>0, PathSteps
<1>3. \A k \in 1 .. h : y[k - 1] # Genesis /\ y[k] = ParentOf[y[k - 1]] BY <1>0, Ancestors
<1>4. /\ DOMAIN par = disk
      /\ \A z \in disk : z # Genesis => par[z] = ParentOf[z] /\ ParentOf[z] \in disk
  BY LoadTree DEF Tree
<1> HIDE DEF x, y, par
<1> DEFINE T == {k \in Nat : k <= h => x[k] = y[k] /\ y[k] \in disk}
<1>5. 0 \in T BY <1>1
<1>6. ASSUME NEW k \in Nat, k \in T PROVE k + 1 \in T
  <2> SUFFICES ASSUME k + 1 <= h PROVE x[k + 1] = y[k + 1] /\ y[k + 1] \in disk OBVIOUS
  <2>1. x[k] = y[k] /\ y[k] \in disk BY <1>0, <1>6
  <2>2. k + 1 \in 1 .. h /\ (k + 1) - 1 = k BY <1>0
  <2>3. y[k] # Genesis /\ y[k + 1] = ParentOf[y[k]] BY <1>3, <2>2
  <2>4. x[k + 1] = par[y[k]] BY <1>2, <1>4, <2>1, <2>2
  <2> QED BY <1>4, <2>1, <2>3, <2>4
<1> HIDE DEF T
<1>7. Nat \subseteq T BY <1>5, <1>6, InductionOnSet
<1>8. i \in T /\ i <= h BY <1>0, <1>7
<1>9. x[i] = y[i] /\ y[i] \in disk BY <1>8 DEF T
<1> QED BY <1>9 DEF x, y, par

\* chain is the chain of b, as mainChain holds it.
Exact(chain, b) ==
    /\ Len(chain) = HeightOf[b] + 1
    /\ \A i \in 1 .. Len(chain) : chain[i] = Path(ParentOf, b)[Len(chain) - i]

\* SetMainChain makes the chain of a saved block of an empty array and of the
\* chain of any other block: where the walk stops the two chains have met.
LEMMA SetMainChainExact ==
  ASSUME NEW disk, Tree(disk), NEW b \in disk, NEW chain,
         chain = <<>> \/ \E c \in Blocks : Exact(chain, c)
  PROVE  /\ Exact(SetMainChain(chain, LoadBlockIndex(disk), b), b)
         /\ SetMainChain(chain, LoadBlockIndex(disk), b) \in Seq(Blocks)
<1> DEFINE h == HeightOf[b]
           up == Path(LoadBlockIndex(disk), b)
           y == Path(ParentOf, b)
           resized == [i \in 1 .. h + 1 |-> IF i <= Len(chain) THEN chain[i] ELSE Nil]
           new == SetMainChain(chain, LoadBlockIndex(disk), b)
<1>0. b \in Blocks /\ h \in Nat BY TreeAssumption DEF Tree
<1>1. \A i \in 1 .. h + 1 : up[h + 1 - i] = y[h + 1 - i] /\ y[h + 1 - i] \in Blocks
  <2> SUFFICES ASSUME NEW i \in 1 .. h + 1
               PROVE  up[h + 1 - i] = y[h + 1 - i] /\ y[h + 1 - i] \in Blocks
    OBVIOUS
  <2>1. h + 1 - i \in 0 .. h BY <1>0
  <2> QED BY <2>1, IndexedPath DEF Tree
<1>2. new = [i \in 1 .. h + 1 |->
               IF \A k \in i .. h + 1 : resized[k] # up[h + 1 - k]
               THEN up[h + 1 - i] ELSE resized[i]]
  BY DEF SetMainChain
<1> HIDE DEF up, new
<1>3. Len(chain) \in Nat
  <2>1. CASE chain = <<>> BY <2>1
  <2>2. ASSUME NEW c \in Blocks, Exact(chain, c) PROVE Len(chain) \in Nat
    BY <2>2, TreeAssumption DEF Exact
  <2> QED BY <2>1, <2>2
<1>4. ASSUME NEW i \in 1 .. h + 1, NEW k \in i .. h + 1, resized[k] = y[h + 1 - k]
      PROVE  resized[i] = y[h + 1 - i]
  <2>0. k \in 1 .. h + 1 /\ i <= k BY <1>0
  <2>1. y[h + 1 - k] \in Blocks BY <1>1, <2>0
  <2>2. k <= Len(chain) /\ chain[k] = y[h + 1 - k]
    BY <1>4, <2>0, <2>1, TreeAssumption
  <2>3. PICK c \in Blocks : Exact(chain, c)
    <3>1. chain # <<>> BY <2>0, <2>2
    <3> QED BY <3>1
  <2> DEFINE n == Len(chain)
             z == Path(ParentOf, c)
  <2>4. HeightOf[c] \in Nat /\ n = HeightOf[c] + 1 BY <2>3, TreeAssumption DEF Exact
  <2>5. chain[k] = z[n - k] /\ chain[i] = z[n - i] BY <2>0, <2>2, <2>3 DEF Exact
  <2>6. z[n - k] = y[h + 1 - k] BY <2>2, <2>5
  <2>7. n - k \in 0 .. HeightOf[c] /\ h + 1 - k \in 0 .. h BY <1>0, <2>0, <2>2, <2>4
  <2> HIDE DEF n
  <2>8. \A d \in Nat : (n - k) + d <= HeightOf[c] => z[(n - k) + d] = y[(h + 1 - k) + d]
    BY <1>0, <2>6, <2>7, CommonAncestor
  <2>9. /\ k - i \in Nat /\ (n - k) + (k - i) = n - i /\ n - i <= HeightOf[c]
        /\ (h + 1 - k) + (k - i) = h + 1 - i
    BY <1>0, <2>0, <2>4
  <2>10. z[n - i] = y[h + 1 - i] BY <2>8, <2>9
  <2>11. resized[i] = chain[i] BY <2>0, <2>2, <1>3
  <2> QED BY <2>5, <2>10, <2>11
<1>5. \A i \in 1 .. h + 1 : new[i] = y[h + 1 - i]
  <2> SUFFICES ASSUME NEW i \in 1 .. h + 1 PROVE new[i] = y[h + 1 - i] OBVIOUS
  <2> HIDE DEF resized
  <2>1. CASE \A k \in i .. h + 1 : resized[k] # up[h + 1 - k] BY <1>1, <1>2, <2>1
  <2>2. ASSUME NEW k \in i .. h + 1, resized[k] = up[h + 1 - k] PROVE new[i] = y[h + 1 - i]
    <3>1. k \in 1 .. h + 1 BY <1>0
    <3>2. resized[k] = y[h + 1 - k] BY <1>1, <2>2, <3>1
    <3>3. resized[i] = y[h + 1 - i] BY <1>4, <3>2
    <3>4. new[i] = resized[i] BY <1>2, <2>2
    <3> QED BY <3>3, <3>4
  <2> QED BY <2>1, <2>2
<1>6. Len(new) = h + 1 /\ new \in Seq(Blocks)
  <2> HIDE DEF resized
  <2>1. DOMAIN new = 1 .. h + 1 /\ new = [i \in 1 .. h + 1 |-> new[i]] BY <1>2
  <2>2. \A i \in 1 .. h + 1 : new[i] \in Blocks BY <1>1, <1>5
  <2>3. new \in [1 .. h + 1 -> Blocks] BY <2>1, <2>2
  <2>4. h + 1 \in Nat BY <1>0
  <2> HIDE DEF h
  <2>5. new \in Seq(Blocks) BY <2>3, <2>4
  <2>6. DOMAIN new = 1 .. Len(new) /\ Len(new) \in Nat BY <2>5
  <2> QED BY <2>1, <2>4, <2>5, <2>6
<1>7. Exact(new, b)
  <2> HIDE DEF resized, y
  <2>1. \A i \in 1 .. Len(new) : new[i] = y[Len(new) - i]
    <3> TAKE i \in 1 .. Len(new)
    <3>1. i \in 1 .. h + 1 /\ Len(new) - i = h + 1 - i BY <1>0, <1>6
    <3>2. new[i] = y[h + 1 - i] BY <1>5, <3>1
    <3> QED BY <3>1, <3>2
  <2> QED BY <1>6, <2>1 DEF Exact, y
<1> QED BY <1>6, <1>7 DEF new

-----------------------------------------------------------------------------
(* The chain.                                                              *)

\* b, or a saved block at least as high, has lost against the best block.
Settled(b) == \E c \in stored : HeightOf[c] >= HeightOf[b] /\ ~Better(c)

JobInv(j) ==
    /\ j \in [caller : Callers, tree : SUBSET stored, tip : Blocks]
    /\ j.tip \in j.tree
    /\ \A b \in j.tree : HeightOf[b] <= HeightOf[j.tip]
    /\ \A o \in orphans \ Invalid : ParentOf[o] \in stored => ParentOf[o] \in j.tree
    /\ ~cut => \A b \in stored \ j.tree : Settled(b)

ChainInv ==
    /\ Tree(stored) /\ parent = LoadBlockIndex(stored)
    /\ status \in stored /\ best = status
    /\ mainChain \in Seq(Blocks) /\ Exact(mainChain, best)
    /\ orphans \subseteq Blocks \ stored
    /\ \A o \in orphans : ParentOf[o] # Genesis
    /\ calls \in Seq([caller : Callers, block : Blocks])
    /\ replies \in [Callers -> SUBSET [isOrphan : BOOLEAN, err : BOOLEAN]]
    /\ cut \in BOOLEAN
    /\ \A j \in job : JobInv(j)
    /\ job = {} =>
        /\ \A o \in orphans \ Invalid : ParentOf[o] \notin stored
        /\ ~cut => \A b \in stored : Settled(b)

\* The index has the blocks on disk.
LEMMA IndexStored ==
  ASSUME ChainInv
  PROVE  /\ Index = stored
         /\ \A b \in stored \ {Genesis} : parent[b] = ParentOf[b]
<1>1. Tree(stored) /\ parent = LoadBlockIndex(stored) BY DEF ChainInv
<1> QED BY <1>1, LoadTree DEF Index

\* A block that extends a tree.
LEMMA TreeGrows ==
  ASSUME NEW disk, Tree(disk), NEW b \in Blocks \ disk, ParentOf[b] \in disk
  PROVE  /\ Tree(disk \cup {b})
         /\ LoadBlockIndex(disk \cup {b}) =
              [x \in disk \cup {b} |-> IF x = b THEN ParentOf[b] ELSE LoadBlockIndex(disk)[x]]
<1>1. b # Genesis BY DEF Tree
<1>2. Tree(disk \cup {b}) BY <1>1 DEF Tree
<1>3. LoadBlockIndex(disk \cup {b}) =
        [x \in disk \cup {b} |-> IF x = Genesis THEN Nil ELSE ParentOf[x]]
  BY <1>2, LoadTree
<1>4. LoadBlockIndex(disk) = [x \in disk |-> IF x = Genesis THEN Nil ELSE ParentOf[x]]
  BY LoadTree
<1> QED BY <1>1, <1>2, <1>3, <1>4

LEMMA ChainStarts ==
  ASSUME ChainInit
  PROVE  ChainInv
<1>1. Tree({Genesis}) BY TreeAssumption DEF Tree
<1>2. /\ Exact(mainChain, Genesis) /\ mainChain \in Seq(Blocks)
  BY <1>1, SetMainChainExact DEF ChainInit
<1>3. Settled(Genesis) BY TreeAssumption DEF ChainInit, Settled, Better
<1>4. calls \in Seq([caller : Callers, block : Blocks]) BY DEF ChainInit
<1>5. replies \in [Callers -> SUBSET [isOrphan : BOOLEAN, err : BOOLEAN]] BY DEF ChainInit
<1> QED BY <1>1, <1>2, <1>3, <1>4, <1>5 DEF ChainInit, ChainInv

LEMMA ChainRestarts ==
  ASSUME ChainInv, NewChain
  PROVE  ChainInv'
<1>1. Tree(stored) /\ status \in stored /\ best = status BY DEF ChainInv
<1>2. /\ stored' = stored /\ status' = status /\ best' = status /\ job' = {} /\ orphans' = {}
      /\ parent' = LoadBlockIndex(stored) /\ cut' = (cut \/ job # {})
  BY DEF NewChain
<1>3. Exact(mainChain', status) /\ mainChain' \in Seq(Blocks)
  BY <1>1, SetMainChainExact DEF NewChain
<1>4. ASSUME ~cut', NEW b \in stored PROVE Settled(b)'
  <2>1. job = {} /\ ~cut BY <1>2, <1>4
  <2>2. Settled(b) BY <2>1 DEF ChainInv
  <2> QED BY <1>1, <1>2, <2>2 DEF Settled, Better
<1>5. calls' \in Seq([caller : Callers, block : Blocks]) BY DEF NewChain
<1>6. replies' \in [Callers -> SUBSET [isOrphan : BOOLEAN, err : BOOLEAN]] BY DEF NewChain
<1>7. cut' \in BOOLEAN BY <1>2
<1> QED BY <1>1, <1>2, <1>3, <1>4, <1>5, <1>6, <1>7 DEF ChainInv

\* Calls come and replies go.
LEMMA ChainQuiet ==
  ASSUME ChainInv, UNCHANGED <<stored, status, parent, best, mainChain, orphans, job, cut>>,
         calls' \in Seq([caller : Callers, block : Blocks]),
         replies' \in [Callers -> SUBSET [isOrphan : BOOLEAN, err : BOOLEAN]]
  PROVE  ChainInv'
<1>1. \A b : Settled(b)' = Settled(b) BY DEF Settled, Better
<1>2. \A j : JobInv(j)' = JobInv(j) BY <1>1 DEF JobInv
<1> QED BY <1>1, <1>2 DEF ChainInv

LEMMA ReplyType ==
  ASSUME ChainInv, NEW c \in Callers, NEW isOrphan \in BOOLEAN, NEW err \in BOOLEAN,
         Reply(c, isOrphan, err)
  PROVE  replies' \in [Callers -> SUBSET [isOrphan : BOOLEAN, err : BOOLEAN]]
BY DEF ChainInv, Reply

\* A saved block that loses against the best one goes on losing when blocks are
\* saved, and when the chain gets higher and no lighter.
LEMMA SettledStays ==
  ASSUME NEW b \in Blocks, Settled(b), stored \subseteq stored', stored \subseteq Blocks,
         best \in Blocks, best' \in Blocks,
         HeightOf[best'] >= HeightOf[best], WorkOf[best'] >= WorkOf[best]
  PROVE  Settled(b)'
<1>1. PICK c \in stored : HeightOf[c] >= HeightOf[b] /\ ~Better(c) BY DEF Settled
<1>2. \A x \in Blocks : HeightOf[x] \in Nat /\ WorkOf[x] \in Nat BY TreeAssumption
<1>3. ~Better(c)' BY <1>1, <1>2 DEF Better
<1>4. c \in stored' BY <1>1
<1> QED BY <1>1, <1>3, <1>4 DEF Settled

\* What processBlock does with the block b of a call of c.
Handles(c, b) ==
    \/ /\ b \in stored \cup orphans /\ Reply(c, b \in orphans, FALSE)
       /\ UNCHANGED <<stored, parent, orphans, job>>
    \/ /\ b \notin stored \cup orphans /\ ParentOf[b] \notin stored
       /\ orphans' = orphans \cup {b} /\ Reply(c, TRUE, FALSE)
       /\ UNCHANGED <<stored, parent, job>>
    \/ /\ Reply(c, FALSE, TRUE)
       /\ UNCHANGED <<stored, parent, orphans, job>>
    \/ /\ b \notin stored \cup orphans /\ ParentOf[b] \in stored
       /\ saveBlock(b) /\ job' = {[caller |-> c, tree |-> {b}, tip |-> b]}
       /\ UNCHANGED <<orphans, replies>>

LEMMA FirstCall ==
  ASSUME ChainInv, processBlock
  PROVE  /\ job = {} /\ calls' \in Seq([caller : Callers, block : Blocks])
         /\ Len(calls) \in Nat /\ Len(calls) > 0 /\ Len(calls') = Len(calls) - 1
         /\ \A i \in 1 .. Len(calls') : calls'[i] = calls[i + 1]
         /\ \E c \in Callers, b \in Blocks :
              calls[1].caller = c /\ calls[1].block = b /\ Handles(c, b)
<1>1. job = {} /\ calls # <<>> /\ calls' = Tail(calls) BY DEF processBlock
<1>2. calls \in Seq([caller : Callers, block : Blocks]) BY DEF ChainInv
<1>3. /\ Head(calls) \in [caller : Callers, block : Blocks]
      /\ Tail(calls) \in Seq([caller : Callers, block : Blocks])
      /\ Len(calls) > 0 /\ Head(calls) = calls[1] /\ Len(Tail(calls)) = Len(calls) - 1
      /\ \A i \in 1 .. Len(Tail(calls)) : Tail(calls)[i] = calls[i + 1]
  BY <1>1, <1>2, HeadTail
<1>4. PICK c \in Callers, b \in Blocks : c = Head(calls).caller /\ b = Head(calls).block BY <1>3
<1>5. Index = stored BY IndexStored
<1>6. Handles(c, b) BY <1>4, <1>5 DEF processBlock, Handles
<1>7. Len(calls) \in Nat BY <1>2
<1>8. calls[1].caller = c /\ calls[1].block = b BY <1>3, <1>4
<1> QED BY <1>1, <1>3, <1>6, <1>7, <1>8

LEMMA ChainProcess ==
  ASSUME ChainInv, processBlock
  PROVE  ChainInv'
<1>1. job = {} /\ UNCHANGED <<status, best, mainChain, cut>> BY DEF processBlock
<1>3. calls' \in Seq([caller : Callers, block : Blocks]) BY FirstCall
<1>4. Tree(stored) BY DEF ChainInv
<1>5. PICK c \in Callers, b \in Blocks : Handles(c, b) BY FirstCall
<1>6. CASE UNCHANGED <<stored, parent, orphans, job>>
  <2>1. replies' \in [Callers -> SUBSET [isOrphan : BOOLEAN, err : BOOLEAN]]
    <3>1. CASE Reply(c, b \in orphans, FALSE)
      <4>1. (b \in orphans) \in BOOLEAN OBVIOUS
      <4> QED BY <1>3, <3>1, <4>1, ReplyType
    <3>2. CASE Reply(c, TRUE, FALSE) BY <1>3, <3>2, ReplyType
    <3>3. CASE Reply(c, FALSE, TRUE) BY <1>3, <3>3, ReplyType
    <3>4. CASE replies' = replies BY <3>4 DEF ChainInv
    <3> QED BY <1>5, <3>1, <3>2, <3>3, <3>4 DEF Handles
  <2> QED BY <1>1, <1>3, <1>6, <2>1, ChainQuiet
<1>7. CASE /\ b \notin stored \cup orphans /\ ParentOf[b] \notin stored
           /\ orphans' = orphans \cup {b} /\ Reply(c, TRUE, FALSE)
           /\ UNCHANGED <<stored, parent, job>>
  <2>1. replies' \in [Callers -> SUBSET [isOrphan : BOOLEAN, err : BOOLEAN]]
    BY <1>3, <1>7, ReplyType
  <2>2. \A x : Settled(x)' = Settled(x) BY <1>1, <1>7 DEF Settled, Better
  <2>3. orphans' \subseteq Blocks \ stored BY <1>3, <1>4, <1>7 DEF ChainInv
  <2>4. ParentOf[b] # Genesis BY <1>4, <1>7 DEF Tree
  <2>5. job' = {} BY <1>1, <1>7
  <2> QED BY <1>1, <1>3, <1>4, <1>7, <2>1, <2>2, <2>3, <2>4, <2>5 DEF ChainInv
<1>8. CASE /\ b \notin stored \cup orphans /\ ParentOf[b] \in stored
           /\ saveBlock(b) /\ job' = {[caller |-> c, tree |-> {b}, tip |-> b]}
           /\ UNCHANGED <<orphans, replies>>
  <2> DEFINE j == [caller |-> c, tree |-> {b}, tip |-> b]
  <2>1. stored' = stored \cup {b} BY <1>8 DEF saveBlock
  <2>2. b \in Blocks \ stored /\ ParentOf[b] \in stored BY <1>8
  <2>3. Tree(stored') /\ parent' = LoadBlockIndex(stored')
    <3>1. parent' = [x \in stored \cup {b} |-> IF x = b THEN ParentOf[b] ELSE parent[x]]
      BY <1>8, IndexStored DEF saveBlock
    <3>2. parent = LoadBlockIndex(stored) BY DEF ChainInv
    <3> QED BY <1>4, <2>1, <2>2, <3>1, <3>2, TreeGrows
  <2>4. JobInv(j)'
    <3>1. j \in [caller : Callers, tree : SUBSET stored', tip : Blocks] BY <1>3, <2>1
    <3>2. \A o \in orphans' \ Invalid : ParentOf[o] \in stored' => ParentOf[o] \in j.tree
      BY <1>1, <1>8, <2>1 DEF ChainInv
    <3>3. ASSUME ~cut', NEW x \in stored' \ j.tree PROVE Settled(x)'
      <4>1. x \in stored /\ x \in Blocks BY <1>4, <2>1, <3>3 DEF Tree
      <4>2. Settled(x) BY <1>1, <3>3, <4>1 DEF ChainInv
      <4>3. best \in Blocks /\ best' = best BY <1>1, <1>4 DEF ChainInv, Tree
      <4>4. HeightOf[best] \in Nat /\ WorkOf[best] \in Nat BY <4>3, TreeAssumption
      <4> QED BY <1>4, <2>1, <4>1, <4>2, <4>3, <4>4, SettledStays DEF Tree
    <3>4. HeightOf[b] <= HeightOf[b] BY <1>3, TreeAssumption
    <3> QED BY <3>1, <3>2, <3>3, <3>4 DEF JobInv
  <2>5. orphans' \subseteq Blocks \ stored' BY <1>8, <2>1 DEF ChainInv
  <2>6. job' = {j} BY <1>8
  <2> HIDE DEF j
  <2> QED BY <1>1, <1>3, <1>8, <2>1, <2>3, <2>4, <2>5, <2>6 DEF ChainInv
<1> QED BY <1>5, <1>6, <1>7, <1>8 DEF Handles

LEMMA ChainSave ==
  ASSUME ChainInv, saveSubBlock
  PROVE  ChainInv'
<1>1. PICK j \in job, o \in orphans :
        /\ o \in Waiting(j) /\ saveBlock(o) /\ orphans' = orphans \ {o}
        /\ job' = {[j EXCEPT !.tree = @ \cup {o},
                             !.tip = IF HeightOf[o] > HeightOf[@] THEN o ELSE @]}
  BY DEF saveSubBlock
<1>2. UNCHANGED <<status, best, mainChain, calls, replies, cut>> BY DEF saveSubBlock
<1>3. Index = stored /\ Tree(stored) /\ JobInv(j) BY <1>1, IndexStored DEF ChainInv
<1>4. o \in Blocks \ stored /\ ParentOf[o] \in j.tree BY <1>1 DEF ChainInv, Waiting
<1>5. ParentOf[o] \in stored BY <1>3, <1>4 DEF JobInv
<1>6. stored' = stored \cup {o} BY <1>1 DEF saveBlock
<1>7. Tree(stored') /\ parent' = LoadBlockIndex(stored')
  <2>1. parent' = [x \in stored \cup {o} |-> IF x = o THEN ParentOf[o] ELSE parent[x]]
    BY <1>1, <1>3 DEF saveBlock
  <2>2. parent = LoadBlockIndex(stored) BY DEF ChainInv
  <2> QED BY <1>3, <1>4, <1>5, <1>6, <2>1, <2>2, TreeGrows
<1> DEFINE k == [j EXCEPT !.tree = @ \cup {o},
                          !.tip = IF HeightOf[o] > HeightOf[@] THEN o ELSE @]
<1>8. /\ k.caller = j.caller /\ k.tree = j.tree \cup {o}
      /\ k.tip = IF HeightOf[o] > HeightOf[j.tip] THEN o ELSE j.tip
      /\ k \in [caller : Callers, tree : SUBSET stored', tip : Blocks]
  BY <1>3, <1>4, <1>6 DEF JobInv
<1>9. job' = {k} BY <1>1
<1> HIDE DEF k
<1>10. JobInv(k)'
  <2>1. k.tip \in k.tree BY <1>3, <1>8 DEF JobInv
  <2>2. \A b \in k.tree : HeightOf[b] <= HeightOf[k.tip]
    <3> SUFFICES ASSUME NEW b \in k.tree PROVE HeightOf[b] <= HeightOf[k.tip] OBVIOUS
    <3>1. b \in Blocks /\ k.tip \in Blocks /\ j.tip \in Blocks BY <1>3, <1>4, <1>8 DEF JobInv, Tree
    <3>2. HeightOf[b] \in Nat /\ HeightOf[j.tip] \in Nat /\ HeightOf[o] \in Nat
      BY <1>4, <3>1, TreeAssumption
    <3>3. CASE b = o BY <1>8, <3>2, <3>3
    <3>4. CASE b \in j.tree
      <4>1. HeightOf[b] <= HeightOf[j.tip] BY <1>3, <3>4 DEF JobInv
      <4> QED BY <1>8, <3>2, <4>1
    <3> QED BY <1>8, <3>3, <3>4
  <2>3. \A x \in orphans' \ Invalid : ParentOf[x] \in stored' => ParentOf[x] \in k.tree
    BY <1>1, <1>3, <1>6, <1>8 DEF JobInv
  <2>4. ASSUME ~cut', NEW x \in stored' \ k.tree PROVE Settled(x)'
    <3>1. x \in stored \ j.tree /\ x \in Blocks BY <1>3, <1>6, <1>8, <2>4 DEF Tree
    <3>2. Settled(x) BY <1>2, <1>3, <2>4, <3>1 DEF JobInv
    <3>3. best \in Blocks /\ best' = best BY <1>2, <1>3 DEF ChainInv, Tree
    <3>4. HeightOf[best] \in Nat /\ WorkOf[best] \in Nat BY <3>3, TreeAssumption
    <3> QED BY <1>3, <1>6, <3>1, <3>2, <3>3, <3>4, SettledStays DEF Tree
  <2> QED BY <1>8, <2>1, <2>2, <2>3, <2>4 DEF JobInv
<1>11. orphans' \subseteq Blocks \ stored' BY <1>1, <1>6 DEF ChainInv
<1> QED BY <1>1, <1>2, <1>6, <1>7, <1>9, <1>10, <1>11 DEF ChainInv

\* What connectBest chooses is higher and no lighter.
LEMMA ConnectsBetter ==
  ASSUME ChainInv, NEW b \in stored, Extends(b) \/ Better(b)
  PROVE  HeightOf[b] >= HeightOf[best] /\ WorkOf[b] >= WorkOf[best]
<1>0. Tree(stored) /\ best \in stored BY DEF ChainInv
<1>1. b \in Blocks /\ best \in Blocks BY <1>0 DEF Tree
<1>2. /\ HeightOf[b] \in Nat /\ WorkOf[b] \in Nat
      /\ HeightOf[best] \in Nat /\ WorkOf[best] \in Nat
  BY <1>1, TreeAssumption
<1>3. CASE Better(b) BY <1>2, <1>3 DEF Better
<1>4. CASE Extends(b)
  <2>1. parent = [x \in stored |-> IF x = Genesis THEN Nil ELSE ParentOf[x]]
    BY <1>0, LoadTree DEF ChainInv
  <2>2. b # Genesis /\ ParentOf[b] = best BY <1>1, <1>4, <2>1, TreeAssumption DEF Extends
  <2>3. HeightOf[b] = HeightOf[ParentOf[b]] + 1 /\ WorkOf[b] > WorkOf[ParentOf[b]]
    BY <1>1, <2>2, TreeAssumption
  <2> QED BY <1>2, <2>2, <2>3
<1> QED BY <1>3, <1>4

LEMMA ChainConnect ==
  ASSUME ChainInv, connectBest
  PROVE  ChainInv'
<1>1. PICK j \in job :
        /\ Waiting(j) = {}
        /\ \/ /\ Extends(j.tip) \/ Better(j.tip)
              /\ setState(j.tip) /\ Reply(j.caller, FALSE, FALSE) /\ UNCHANGED cut
           \/ /\ Reply(j.caller, FALSE, TRUE) /\ cut' = TRUE
              /\ UNCHANGED <<status, best, mainChain>>
           \/ /\ ~Extends(j.tip) /\ ~Better(j.tip) /\ Reply(j.caller, FALSE, FALSE)
              /\ UNCHANGED <<status, best, mainChain, cut>>
  BY DEF connectBest
<1>2. job' = {} /\ UNCHANGED <<stored, parent, orphans, calls>> BY DEF connectBest
<1>3. JobInv(j) /\ Tree(stored) /\ parent = LoadBlockIndex(stored) BY <1>1 DEF ChainInv
<1>4. /\ j.tip \in stored /\ j.tip \in Blocks /\ j.caller \in Callers /\ best \in Blocks
      /\ j.tree \subseteq stored
  BY <1>3 DEF JobInv, Tree, ChainInv
<1>5. replies' \in [Callers -> SUBSET [isOrphan : BOOLEAN, err : BOOLEAN]]
  BY <1>1, <1>4, ReplyType
<1>6. \A o \in orphans' \ Invalid : ParentOf[o] \notin stored'
  BY <1>1, <1>2, <1>3 DEF Waiting, JobInv
<1>7. \A x \in Blocks : HeightOf[x] \in Nat /\ WorkOf[x] \in Nat BY TreeAssumption
<1>8. CASE /\ Extends(j.tip) \/ Better(j.tip)
           /\ setState(j.tip) /\ UNCHANGED cut
  <2>1. status' = j.tip /\ best' = j.tip BY <1>8 DEF setState
  <2>2. Exact(mainChain', best') /\ mainChain' \in Seq(Blocks)
    <3>1. mainChain' = SetMainChain(mainChain, LoadBlockIndex(stored), j.tip)
      BY <1>3, <1>8 DEF setState
    <3>2. \E c \in Blocks : Exact(mainChain, c) BY <1>4 DEF ChainInv
    <3> QED BY <1>3, <1>4, <2>1, <3>1, <3>2, SetMainChainExact
  <2>3. HeightOf[best'] >= HeightOf[best] /\ WorkOf[best'] >= WorkOf[best]
    BY <1>4, <1>8, <2>1, ConnectsBetter
  <2>4. ASSUME ~cut', NEW b \in stored' PROVE Settled(b)'
    <3>1. b \in stored /\ b \in Blocks /\ ~cut BY <1>2, <1>3, <1>8, <2>4 DEF Tree
    <3>2. CASE b \in j.tree
      <4>1. HeightOf[b] <= HeightOf[j.tip] BY <1>3, <3>2 DEF JobInv
      <4>2. ~Better(j.tip)' BY <1>4, <1>7, <2>1 DEF Better
      <4>3. HeightOf[j.tip] >= HeightOf[b] BY <1>4, <1>7, <3>1, <4>1
      <4> QED BY <1>2, <1>4, <4>2, <4>3 DEF Settled
    <3>3. CASE b \notin j.tree
      <4>1. Settled(b) BY <1>3, <3>1, <3>3 DEF JobInv
      <4> QED BY <1>2, <1>3, <1>4, <2>1, <2>3, <3>1, <4>1, SettledStays DEF Tree
    <3> QED BY <3>2, <3>3
  <2>5. cut' \in BOOLEAN BY <1>8 DEF ChainInv
  <2> QED BY <1>2, <1>3, <1>4, <1>5, <1>6, <2>1, <2>2, <2>4, <2>5 DEF ChainInv
<1>9. CASE cut' = TRUE /\ UNCHANGED <<status, best, mainChain>>
  BY <1>2, <1>3, <1>5, <1>6, <1>9 DEF ChainInv
<1>10. CASE /\ ~Better(j.tip) /\ UNCHANGED <<status, best, mainChain, cut>>
  <2>1. ASSUME ~cut', NEW b \in stored' PROVE Settled(b)'
    <3>1. b \in stored /\ b \in Blocks /\ ~cut BY <1>2, <1>3, <1>10, <2>1 DEF Tree
    <3>2. Settled(b)
      <4>1. CASE b \in j.tree
        <5>1. HeightOf[b] <= HeightOf[j.tip] BY <1>3, <4>1 DEF JobInv
        <5>2. HeightOf[j.tip] >= HeightOf[b] BY <1>4, <1>7, <3>1, <5>1
        <5> QED BY <1>4, <1>10, <5>2 DEF Settled
      <4>2. CASE b \notin j.tree BY <1>3, <3>1, <4>2 DEF JobInv
      <4> QED BY <4>1, <4>2
    <3> QED BY <1>2, <1>10, <3>2 DEF Settled, Better
  <2>2. cut' \in BOOLEAN BY <1>10 DEF ChainInv
  <2> QED BY <1>2, <1>3, <1>5, <1>6, <1>10, <2>1, <2>2 DEF ChainInv
<1> QED BY <1>1, <1>8, <1>9, <1>10

-----------------------------------------------------------------------------
(* Synchronisation.                                                        *)

NetTypes ==
    /\ link \in [Peers -> {"off", "joining", "on", "leaving", "stopped", "zombie"}]
    /\ Registered \subseteq Peers /\ heights \in [Registered -> Nat]
    /\ dropCh \in Seq(Peers) /\ Len(dropCh) <= MaxQuitReq
    /\ wire \in [Peers -> Seq(Nat)]
    /\ pendingCh \in Seq([peer : Peers, block : Blocks]) /\ Len(pendingCh) <= MaxPending
    /\ \A i \in 1 .. Len(pendingCh) : pendingCh[i].block \in ChainOf(pendingCh[i].peer)

KeeperTypes ==
    keeper \in [pc : {"idle", "choose", "request", "wait", "process", "finish"},
                peer : Peers \cup {Nil}, max : Nat, num : Nat, orphanNum : Nat,
                isOrphan : BOOLEAN, retries : 0 .. MaxRetries, whole : BOOLEAN]

FetcherTypes ==
    fetcher \in [pc : {"top", "import", "insert", "select"}, height : Nat,
                 op : Blocks \cup {Nil}, queue : [Blocks -> Nat], queued : SUBSET Blocks]

\* c has at most one call under way, and only while it waits for the reply.
Waits(c) == IF c = "keeper" THEN keeper.pc = "process" ELSE fetcher.pc = "insert"

OneCall(c) ==
    /\ \A i \in 1 .. Len(calls) : calls[i].caller = c =>
        /\ Waits(c) /\ replies[c] = {}
        /\ \A j \in job : j.caller # c
        /\ \A k \in 1 .. Len(calls) : calls[k].caller = c => k = i
    /\ \A j \in job : j.caller = c => Waits(c) /\ replies[c] = {}
    /\ replies[c] # {} => Waits(c)

NoCall(c) ==
    /\ \A i \in 1 .. Len(calls) : calls[i].caller # c
    /\ \A j \in job : j.caller # c
    /\ replies[c] = {}

FetchInv ==
    /\ OneCall("fetcher")
    /\ \A i \in 1 .. Len(calls) : calls[i].caller = "fetcher" => calls[i].block = fetcher.op
    /\ fetcher.pc = "insert" => fetcher.op \in Blocks \ {Genesis} /\ ParentOf[fetcher.op] \in stored
    /\ FetcherNeverOrphans

\* Block h of the chain that the keeper follows.
Theirs(h) == GetBlockByHeight(TipOf[keeper.peer], h)
Fine == ChainOf(keeper.peer) \cap Invalid = {}

\* Saved blocks that blockProcesser is done with, and all blocks it has.
Final == {b \in stored : \A j \in job : b \notin j.tree}
Known == stored \cup orphans

\* Block h has been saved, unless an invalid one is in the way.
Passed(h) ==
    /\ h \in 0 .. HeightOf[TipOf[keeper.peer]]
    /\ Fine => Theirs(h) \in Final

\* Their blocks from lo to num are saved or among the orphans.
Chased(lo) ==
    /\ keeper.num <= HeightOf[TipOf[keeper.peer]]
    /\ keeper.orphanNum + 1 <= keeper.num
    /\ \A h \in lo .. keeper.num : Theirs(h) \in Known

\* The block that the keeper has handed over, and what a reply means.
KeepCalls ==
    /\ \A i \in 1 .. Len(calls) :
        calls[i].caller = "keeper" => calls[i].block = Theirs(keeper.orphanNum + 1)
    /\ \A j \in job : j.caller = "keeper" => Theirs(keeper.orphanNum + 1) \in j.tree
    /\ \A r \in replies["keeper"] : ~r.err =>
        IF r.isOrphan THEN keeper.orphanNum >= 1 /\ Theirs(keeper.orphanNum + 1) \in Known
                      ELSE Passed(keeper.num)

KeepState ==
    /\ keeper.pc \in {"request", "wait", "process", "finish"} => keeper.peer \in Peers
    /\ keeper.pc \in {"request", "wait"} =>
        /\ keeper.num >= 1
        /\ keeper.num > keeper.max => Passed(keeper.num - 1)
        /\ keeper.isOrphan => keeper.orphanNum >= 1 /\ Chased(keeper.orphanNum + 1)
    /\ keeper.pc = "wait" => keeper.num <= keeper.max
    /\ keeper.pc = "process" =>
        keeper.num >= 1 /\ keeper.num <= keeper.max /\ Chased(keeper.orphanNum + 2)
    /\ IF keeper.pc = "finish"
       THEN keeper.whole => keeper.num > keeper.max /\ Passed(keeper.num - 1)
       ELSE ~keeper.whole

KeepInv == OneCall("keeper") /\ KeepCalls /\ KeepState

SyncInv ==
    ChainInv /\ NetTypes /\ KeeperTypes /\ FetcherTypes /\ FetchInv /\ KeepInv

\* The chain of a peer, by height.
LEMMA OnChain ==
  ASSUME NEW p \in Peers, NEW h \in 0 .. HeightOf[TipOf[p]]
  PROVE  /\ GetBlockByHeight(TipOf[p], h) \in Blocks
         /\ HeightOf[GetBlockByHeight(TipOf[p], h)] = h
         /\ GetBlockByHeight(TipOf[p], h) \in ChainOf(p)
         /\ h >= 1 => /\ GetBlockByHeight(TipOf[p], h) # Genesis
                      /\ ParentOf[GetBlockByHeight(TipOf[p], h)] = GetBlockByHeight(TipOf[p], h - 1)
<1> DEFINE tip == TipOf[p]
           up == Path(ParentOf, tip)
           n == HeightOf[tip] - h
<1>1. tip \in Blocks /\ HeightOf[tip] \in Nat BY SyncAssumption, TreeAssumption
<1>2. n \in 0 .. HeightOf[tip] BY <1>1
<1>3. up[n] \in Blocks /\ HeightOf[up[n]] = h BY <1>1, <1>2, Ancestors
<1>4. up[n] \in ChainOf(p) BY <1>2 DEF ChainOf
<1>5. ASSUME h >= 1 PROVE up[n] # Genesis /\ ParentOf[up[n]] = up[HeightOf[tip] - (h - 1)]
  <2>1. n + 1 \in 1 .. HeightOf[tip] /\ (n + 1) - 1 = n /\ HeightOf[tip] - (h - 1) = n + 1
    BY <1>1, <1>2, <1>5
  <2> QED BY <1>1, <2>1, Ancestors
<1> QED BY <1>3, <1>4, <1>5 DEF GetBlockByHeight

LEMMA ChainByHeight ==
  ASSUME NEW p \in Peers, NEW b \in ChainOf(p)
  PROVE  /\ b \in Blocks /\ HeightOf[b] \in 0 .. HeightOf[TipOf[p]]
         /\ b = GetBlockByHeight(TipOf[p], HeightOf[b])
<1> DEFINE tip == TipOf[p]
           up == Path(ParentOf, tip)
<1>1. tip \in Blocks /\ HeightOf[tip] \in Nat BY SyncAssumption, TreeAssumption
<1>2. PICK i \in 0 .. HeightOf[tip] : b = up[i] BY DEF ChainOf
<1>3. b \in Blocks /\ HeightOf[b] = HeightOf[tip] - i BY <1>1, <1>2, Ancestors
<1>4. HeightOf[b] \in 0 .. HeightOf[tip] /\ HeightOf[tip] - HeightOf[b] = i BY <1>1, <1>3
<1> QED BY <1>2, <1>3, <1>4 DEF GetBlockByHeight

\* When blockProcesser is idle and a block of a valid chain is saved, so are the
\* blocks above it as far as they are known.
LEMMA Climb ==
  ASSUME NEW p \in Peers, ChainOf(p) \cap Invalid = {}, NEW disk, NEW orph,
         \A o \in orph \ Invalid : ParentOf[o] \notin disk,
         NEW lo \in Nat, NEW hi \in 0 .. HeightOf[TipOf[p]], lo <= hi,
         GetBlockByHeight(TipOf[p], lo) \in disk,
         \A h \in lo + 1 .. hi : GetBlockByHeight(TipOf[p], h) \in disk \cup orph
  PROVE  GetBlockByHeight(TipOf[p], hi) \in disk
<1> DEFINE at(h) == GetBlockByHeight(TipOf[p], h)
           T == {d \in Nat : lo + d <= hi => at(lo + d) \in disk}
<1>0. TipOf[p] \in Blocks /\ HeightOf[TipOf[p]] \in Nat BY SyncAssumption, TreeAssumption
<1>1. 0 \in T OBVIOUS
<1>2. ASSUME NEW d \in Nat, d \in T PROVE d + 1 \in T
  <2> SUFFICES ASSUME lo + (d + 1) <= hi PROVE at(lo + (d + 1)) \in disk OBVIOUS
  <2> DEFINE h == lo + (d + 1)
  <2>1. h \in lo + 1 .. hi /\ h \in 0 .. HeightOf[TipOf[p]] /\ h >= 1 /\ h - 1 = lo + d BY <1>0
  <2>2. at(h - 1) \in disk BY <1>2, <2>1
  <2> HIDE DEF h
  <2>3. at(h) \in ChainOf(p) /\ ParentOf[at(h)] = at(h - 1) BY <2>1, OnChain
  <2>4. at(h) \notin Invalid BY <2>3
  <2>5. at(h) \in disk \cup orph BY <2>1
  <2>6. at(h) \in disk
    <3> HIDE DEF at
    <3> QED BY <2>2, <2>3, <2>4, <2>5
  <2> QED BY <2>6 DEF h
<1> HIDE DEF T
<1>3. Nat \subseteq T BY <1>1, <1>2, InductionOnSet
<1>4. hi - lo \in Nat /\ lo + (hi - lo) = hi /\ hi <= hi BY <1>0
<1>5. hi - lo \in T BY <1>3, <1>4
<1> QED BY <1>4, <1>5 DEF T

-----------------------------------------------------------------------------
(* One call at a time.                                                     *)

LEMMA NoCallIdle ==
  ASSUME NEW c \in Callers
  PROVE  /\ OneCall(c) /\ ~Waits(c) => NoCall(c)
         /\ OneCall(c) /\ replies[c] # {} =>
              /\ Waits(c)
              /\ \A i \in 1 .. Len(calls) : calls[i].caller # c
              /\ \A j \in job : j.caller # c
         /\ NoCall(c) => OneCall(c)
BY DEF OneCall, NoCall

LEMMA OneCallSame ==
  ASSUME NEW c \in Callers, OneCall(c), UNCHANGED <<calls, job>>, replies'[c] = replies[c],
         Waits(c)' = Waits(c)
  PROVE  OneCall(c)'
BY DEF OneCall

LEMMA NoCallSame ==
  ASSUME NEW c \in Callers, NoCall(c), UNCHANGED <<calls, job>>, replies'[c] = replies[c]
  PROVE  NoCall(c)' /\ OneCall(c)'
BY DEF NoCall, OneCall

\* The reply is taken.
LEMMA ReplyTaken ==
  ASSUME ChainInv, NEW c \in Callers, OneCall(c), replies[c] # {}, UNCHANGED <<calls, job>>,
         replies' = [replies EXCEPT ![c] = {}]
  PROVE  /\ NoCall(c)' /\ OneCall(c)'
         /\ \A d \in Callers \ {c} : replies'[d] = replies[d]
         /\ replies' \in [Callers -> SUBSET [isOrphan : BOOLEAN, err : BOOLEAN]]
<1>1. replies \in [Callers -> SUBSET [isOrphan : BOOLEAN, err : BOOLEAN]] BY DEF ChainInv
<1>2. replies'[c] = {} BY <1>1
<1>3. NoCall(c)' BY <1>2, NoCallIdle DEF NoCall
<1>4. OneCall(c)' BY <1>3 DEF NoCall, OneCall
<1> QED BY <1>1, <1>3, <1>4

\* A call is added.
LEMMA Appended ==
  ASSUME NEW S, NEW s \in Seq(S), NEW x \in S
  PROVE  /\ Append(s, x) \in Seq(S) /\ Len(Append(s, x)) = Len(s) + 1 /\ Len(s) \in Nat
         /\ Append(s, x)[Len(s) + 1] = x
         /\ \A i \in 1 .. Len(s) : Append(s, x)[i] = s[i]
OBVIOUS

LEMMA CallAdded ==
  ASSUME ChainInv, NEW c \in Callers, NEW b \in Blocks, ProcessBlock(c, b)
  PROVE  /\ calls' \in Seq([caller : Callers, block : Blocks])
         /\ Len(calls) \in Nat /\ Len(calls') = Len(calls) + 1
         /\ calls'[Len(calls) + 1].caller = c /\ calls'[Len(calls) + 1].block = b
         /\ \A i \in 1 .. Len(calls) : calls'[i] = calls[i]
<1>1. calls \in Seq([caller : Callers, block : Blocks]) BY DEF ChainInv
<1>2. [caller |-> c, block |-> b] \in [caller : Callers, block : Blocks] OBVIOUS
<1>3. calls' = Append(calls, [caller |-> c, block |-> b]) BY DEF ProcessBlock
<1> QED BY <1>1, <1>2, <1>3, Appended

LEMMA OneCallAdded ==
  ASSUME ChainInv, NEW c \in Callers, NEW b \in Blocks, ProcessBlock(c, b), UNCHANGED <<job, replies>>,
         NEW d \in Callers, OneCall(d),
         IF d = c THEN ~Waits(d) /\ Waits(d)' ELSE Waits(d)' = Waits(d)
  PROVE  OneCall(d)'
<1> DEFINE n == Len(calls)
<1>1. /\ n \in Nat /\ Len(calls') = n + 1 /\ calls'[n + 1].caller = c
      /\ \A i \in 1 .. n : calls'[i] = calls[i]
  BY CallAdded
<1>2. \A i \in 1 .. n + 1 : i = n + 1 \/ i \in 1 .. n BY <1>1
<1> HIDE DEF n
<1>3. CASE d = c
  <2>1. /\ \A i \in 1 .. n : calls[i].caller # c
        /\ \A j \in job : j.caller # c
        /\ replies[c] = {}
    BY <1>3, NoCallIdle DEF NoCall, n
  <2> QED BY <1>1, <1>2, <1>3, <2>1 DEF OneCall
<1>4. CASE d # c
  <2>1. \A i \in 1 .. n + 1 : calls'[i].caller = d => i \in 1 .. n /\ calls[i].caller = d
    BY <1>1, <1>2, <1>4
  <2>2. /\ \A i \in 1 .. n : calls[i].caller = d =>
             /\ Waits(d) /\ replies[d] = {} /\ \A j \in job : j.caller # d
             /\ \A k \in 1 .. n : calls[k].caller = d => k = i
        /\ \A j \in job : j.caller = d => Waits(d) /\ replies[d] = {}
        /\ replies[d] # {} => Waits(d)
    BY DEF OneCall, n
  <2> QED BY <1>1, <1>4, <2>1, <2>2 DEF OneCall
<1> QED BY <1>3, <1>4

\* blockProcesser moves a call on.
LEMMA OneCallProcess ==
  ASSUME ChainInv, processBlock, NEW d \in Callers, OneCall(d), Waits(d)' = Waits(d)
  PROVE  OneCall(d)'
<1> DEFINE n == Len(calls)
<1>3. /\ job = {} /\ Len(calls') = n - 1 /\ n > 0 /\ n \in Nat
      /\ \A i \in 1 .. n - 1 : calls'[i] = calls[i + 1]
  BY FirstCall
<1>4. PICK c \in Callers, b \in Blocks : c = calls[1].caller /\ Handles(c, b) BY FirstCall
<1>5. /\ \A j \in job' : j.caller = c
      /\ \/ job' = {} /\ \E o, e : Reply(c, o, e)
         \/ replies' = replies
  <2>1. CASE job' = job /\ \E o, e : Reply(c, o, e) BY <1>3, <2>1
  <2>2. CASE job' = {[caller |-> c, tree |-> {b}, tip |-> b]} /\ replies' = replies BY <2>2
  <2>3. \/ job' = job /\ \E o, e : Reply(c, o, e)
        \/ job' = {[caller |-> c, tree |-> {b}, tip |-> b]} /\ replies' = replies
    <3>1. CASE Reply(c, b \in orphans, FALSE) /\ job' = job BY <3>1
    <3>2. CASE Reply(c, TRUE, FALSE) /\ job' = job BY <3>2
    <3>3. CASE Reply(c, FALSE, TRUE) /\ job' = job BY <3>3
    <3> QED BY <1>4, <3>1, <3>2, <3>3 DEF Handles
  <2> QED BY <2>1, <2>2, <2>3
<1>6. replies \in [Callers -> SUBSET [isOrphan : BOOLEAN, err : BOOLEAN]] BY DEF ChainInv
<1>7. /\ \A x \in Callers \ {c} : replies'[x] = replies[x]
      /\ job' # {} => replies' = replies
  BY <1>5, <1>6 DEF Reply
<1>8. /\ \A i \in 1 .. n : calls[i].caller = d =>
             /\ Waits(d) /\ replies[d] = {}
             /\ \A k \in 1 .. n : calls[k].caller = d => k = i
      /\ replies[d] # {} => Waits(d)
  BY DEF OneCall
<1>9. \A i \in 1 .. n - 1 : i + 1 \in 1 .. n /\ i + 1 # 1 /\ 1 \in 1 .. n BY <1>3
<1> HIDE DEF n
<1>10. CASE d = c
  <2>1. 1 \in 1 .. n BY <1>3
  <2>2. Waits(d) /\ replies[d] = {} /\ \A k \in 1 .. n : calls[k].caller = d => k = 1
    BY <1>4, <1>8, <1>10, <2>1
  <2>3. \A i \in 1 .. n - 1 : calls'[i].caller # d BY <1>3, <1>9, <2>2
  <2> QED BY <1>3, <1>7, <2>2, <2>3 DEF OneCall
<1>11. CASE d # c
  <2>1. replies'[d] = replies[d] /\ \A j \in job' : j.caller # d BY <1>5, <1>7, <1>11
  <2>2. ASSUME NEW i \in 1 .. n - 1, calls'[i].caller = d
        PROVE  /\ Waits(d) /\ replies[d] = {}
               /\ \A k \in 1 .. n - 1 : calls'[k].caller = d => k = i
    <3>1. i + 1 \in 1 .. n /\ calls[i + 1].caller = d BY <1>3, <1>9, <2>2
    <3>2. /\ Waits(d) /\ replies[d] = {}
          /\ \A k \in 1 .. n : calls[k].caller = d => k = i + 1
      BY <1>8, <3>1
    <3>3. ASSUME NEW k \in 1 .. n - 1, calls'[k].caller = d PROVE k = i
      <4>1. k + 1 \in 1 .. n /\ calls[k + 1].caller = d BY <1>3, <1>9, <3>3
      <4>2. k + 1 = i + 1 BY <3>2, <4>1
      <4> QED BY <1>3, <4>2
    <3> QED BY <3>2, <3>3
  <2> QED BY <1>3, <1>8, <2>1, <2>2 DEF OneCall
<1> QED BY <1>10, <1>11

LEMMA OneCallSave ==
  ASSUME ChainInv, saveSubBlock, NEW d \in Callers, OneCall(d), Waits(d)' = Waits(d)
  PROVE  OneCall(d)'
<1>1. PICK j \in job, o \in orphans :
        job' = {[j EXCEPT !.tree = @ \cup {o},
                          !.tip = IF HeightOf[o] > HeightOf[@] THEN o ELSE @]}
  BY DEF saveSubBlock
<1>2. \A k \in job' : k.caller = j.caller BY <1>1 DEF ChainInv, JobInv
<1>3. calls' = calls /\ replies' = replies BY DEF saveSubBlock
<1> QED BY <1>1, <1>2, <1>3 DEF OneCall

LEMMA OneCallConnect ==
  ASSUME ChainInv, connectBest, NEW d \in Callers, OneCall(d), Waits(d)' = Waits(d)
  PROVE  OneCall(d)'
<1>1. PICK j \in job : \E e \in BOOLEAN : Reply(j.caller, FALSE, e) BY DEF connectBest
<1>2. job' = {} /\ calls' = calls BY DEF connectBest
<1>3. j.caller \in Callers BY DEF ChainInv, JobInv
<1>4. replies \in [Callers -> SUBSET [isOrphan : BOOLEAN, err : BOOLEAN]] BY DEF ChainInv
<1>5. \A x \in Callers : x # j.caller => replies'[x] = replies[x] BY <1>1, <1>4 DEF Reply
<1>6. CASE d = j.caller
  <2>1. Waits(d) /\ \A i \in 1 .. Len(calls) : calls[i].caller # d BY <1>1, <1>6 DEF OneCall
  <2> QED BY <1>2, <2>1 DEF OneCall
<1>7. CASE d # j.caller
  <2>1. replies'[d] = replies[d] BY <1>5, <1>7
  <2> QED BY <1>2, <2>1 DEF OneCall
<1> QED BY <1>6, <1>7

-----------------------------------------------------------------------------
(* blockProcesser.                                                         *)

LEMMA ChainMoves ==
  ASSUME ChainInv, blockProcesser
  PROVE  ChainInv'
BY ChainProcess, ChainSave, ChainConnect DEF blockProcesser

LEMMA OneCallMoves ==
  ASSUME ChainInv, blockProcesser, NEW d \in Callers, OneCall(d), Waits(d)' = Waits(d)
  PROVE  OneCall(d)'
BY OneCallProcess, OneCallSave, OneCallConnect DEF blockProcesser

\* Blocks stay where they are known, and final blocks stay final.
LEMMA BlocksStay ==
  ASSUME ChainInv, blockProcesser
  PROVE  stored \subseteq stored' /\ Known \subseteq Known' /\ Final \subseteq Final'
<1>1. CASE processBlock
  <2>1. job = {} BY <1>1, FirstCall
  <2>2. PICK c \in Callers, b \in Blocks : Handles(c, b) BY <1>1, FirstCall
  <2>3. CASE stored' = stored /\ job' = job /\ orphans \subseteq orphans'
    BY <2>1, <2>3 DEF Known, Final
  <2>4. CASE /\ b \notin stored \cup orphans
             /\ saveBlock(b) /\ job' = {[caller |-> c, tree |-> {b}, tip |-> b]}
             /\ orphans' = orphans
    <3>1. stored' = stored \cup {b} BY <2>4 DEF saveBlock
    <3>2. \A j \in job' : j.tree = {b} BY <2>4
    <3> QED BY <2>4, <3>1, <3>2 DEF Known, Final
  <2> QED BY <2>2, <2>3, <2>4 DEF Handles
<1>2. CASE saveSubBlock
  <2>1. PICK j \in job, o \in orphans :
          /\ saveBlock(o) /\ orphans' = orphans \ {o}
          /\ job' = {[j EXCEPT !.tree = @ \cup {o},
                               !.tip = IF HeightOf[o] > HeightOf[@] THEN o ELSE @]}
    BY <1>2 DEF saveSubBlock
  <2>2. stored' = stored \cup {o} BY <2>1 DEF saveBlock
  <2>3. o \notin stored BY <2>1 DEF ChainInv
  <2>4. \A k \in job' : k.tree = j.tree \cup {o} BY <2>1 DEF ChainInv, JobInv
  <2> QED BY <2>1, <2>2, <2>3, <2>4 DEF Known, Final
<1>3. CASE connectBest BY <1>3 DEF connectBest, Known, Final
<1> QED BY <1>1, <1>2, <1>3 DEF blockProcesser

\* The replies that blockProcesser gives.
LEMMA RepliesGiven ==
  ASSUME ChainInv, blockProcesser, NEW d \in Callers, OneCall(d), NEW r \in replies'[d]
  PROVE  \/ r \in replies[d]
         \/ /\ job' = {} /\ ~r.isOrphan /\ ~r.err
            /\ \E j \in job : j.caller = d /\ connectBest
         \/ /\ Len(calls) > 0 /\ calls[1].caller = d /\ processBlock /\ job' = {}
            /\ ~r.isOrphan /\ ~r.err => calls[1].block \in stored'
            /\ r.isOrphan => calls[1].block \in orphans'
         \/ r.err /\ ~r.isOrphan
<1>0. replies \in [Callers -> SUBSET [isOrphan : BOOLEAN, err : BOOLEAN]] BY DEF ChainInv
<1>00. ASSUME NEW c \in Callers, NEW o \in BOOLEAN, NEW e \in BOOLEAN, Reply(c, o, e)
       PROVE  r \in replies[d] \/ (d = c /\ r.isOrphan = o /\ r.err = e)
  BY <1>0, <1>00 DEF Reply
<1>1. CASE processBlock
  <2>1. /\ job = {} /\ Len(calls) > 0 BY <1>1, FirstCall
  <2>2. PICK c \in Callers, b \in Blocks :
          calls[1].caller = c /\ calls[1].block = b /\ Handles(c, b)
    BY <1>1, FirstCall
  <2>3. CASE /\ b \in stored \cup orphans /\ Reply(c, b \in orphans, FALSE)
             /\ UNCHANGED <<stored, parent, orphans, job>>
    <3>1. (b \in orphans) \in BOOLEAN BY MemberIsBoolean, Zenon
    <3>2. r \in replies[d] \/ (d = c /\ r.isOrphan = (b \in orphans) /\ r.err = FALSE)
      BY <1>00, <2>3, <3>1
    <3> QED BY <1>1, <2>1, <2>2, <2>3, <3>2
  <2>4. CASE orphans' = orphans \cup {b} /\ Reply(c, TRUE, FALSE) /\ job' = job
    <3>1. r \in replies[d] \/ (d = c /\ r.isOrphan = TRUE /\ r.err = FALSE) BY <1>00, <2>4
    <3> QED BY <1>1, <2>1, <2>2, <2>4, <3>1
  <2>5. CASE Reply(c, FALSE, TRUE)
    <3>1. r \in replies[d] \/ (d = c /\ r.isOrphan = FALSE /\ r.err = TRUE) BY <1>00, <2>5
    <3> QED BY <3>1
  <2>6. CASE replies' = replies BY <2>6
  <2> QED BY <2>2, <2>3, <2>4, <2>5, <2>6 DEF Handles
<1>2. CASE saveSubBlock BY <1>2 DEF saveSubBlock
<1>3. CASE connectBest
  <2>1. job' = {} BY <1>3 DEF connectBest
  <2>2. PICK j \in job, e \in BOOLEAN : Reply(j.caller, FALSE, e) BY <1>3 DEF connectBest
  <2>3. j.caller \in Callers BY DEF ChainInv, JobInv
  <2>4. r \in replies[d] \/ (d = j.caller /\ r.isOrphan = FALSE /\ r.err = e) BY <1>00, <2>2, <2>3
  <2>5. CASE e = TRUE BY <2>4, <2>5
  <2>6. CASE e = FALSE BY <1>3, <2>1, <2>2, <2>4, <2>6
  <2> QED BY <2>2, <2>5, <2>6
<1> QED BY <1>1, <1>2, <1>3 DEF blockProcesser

\* Calls only leave the queue.
LEMMA CallsLeave ==
  ASSUME ChainInv, blockProcesser, NEW i \in 1 .. Len(calls')
  PROVE  \E k \in 1 .. Len(calls) : calls'[i] = calls[k]
<1>1. CASE processBlock
  <2>1. /\ Len(calls) \in Nat /\ Len(calls') = Len(calls) - 1 /\ calls'[i] = calls[i + 1]
    BY <1>1, FirstCall
  <2>2. i + 1 \in 1 .. Len(calls) BY <2>1
  <2> QED BY <2>1, <2>2
<1>2. CASE calls' = calls BY <1>2
<1> QED BY <1>1, <1>2 DEF blockProcesser, saveSubBlock, connectBest

LEMMA FetchMoves ==
  ASSUME ChainInv, FetchInv, blockProcesser, fetcher' = fetcher
  PROVE  FetchInv'
<1>0. "fetcher" \in Callers BY SyncAssumption
<1>1. OneCall("fetcher")' BY <1>0, OneCallMoves DEF FetchInv, Waits
<1>2. ASSUME NEW i \in 1 .. Len(calls'), calls'[i].caller = "fetcher"
      PROVE  calls'[i].block = fetcher'.op
  BY <1>2, CallsLeave DEF FetchInv
<1>3. stored \subseteq stored' BY BlocksStay
<1>4. ASSUME NEW r \in replies'["fetcher"], r.isOrphan PROVE fetcher'.op \in Invalid
  <2>1. CASE r \in replies["fetcher"] BY <1>4, <2>1 DEF FetchInv, FetcherNeverOrphans
  <2>2. CASE /\ Len(calls) > 0 /\ calls[1].caller = "fetcher" /\ processBlock /\ job' = {}
             /\ calls[1].block \in orphans'
    <3>1. Len(calls) \in Nat /\ job = {} BY <2>2, FirstCall
    <3>2. 1 \in 1 .. Len(calls) BY <2>2, <3>1
    <3>3. calls[1].block = fetcher.op /\ Waits("fetcher")
      BY <2>2, <3>2 DEF FetchInv, OneCall
    <3>4. ParentOf[fetcher.op] \in stored BY <3>3 DEF FetchInv, Waits
    <3>5. ChainInv' BY ChainMoves
    <3>6. \A o \in orphans' \ Invalid : ParentOf[o] \notin stored' BY <2>2, <3>5 DEF ChainInv
    <3> QED BY <1>3, <2>2, <3>3, <3>4, <3>6
  <2> QED BY <1>0, <1>4, <2>1, <2>2, RepliesGiven DEF FetchInv
<1> QED BY <1>1, <1>2, <1>3, <1>4 DEF FetchInv, FetcherNeverOrphans

LEMMA PassedStays ==
  ASSUME NEW h, Passed(h), Final \subseteq Final', keeper'.peer = keeper.peer
  PROVE  Passed(h)'
BY DEF Passed, Fine, Theirs

LEMMA KeepStateStays ==
  ASSUME KeepState, keeper' = keeper, Known \subseteq Known', Final \subseteq Final'
  PROVE  KeepState'
<1>1. \A lo : Chased(lo) => Chased(lo)' BY DEF Chased, Theirs
<1>2. \A h : Passed(h) => Passed(h)' BY PassedStays
<1> QED BY <1>1, <1>2 DEF KeepState

\* Once the lowest block that the keeper was after is saved, and the orphans
\* above it with it, the block that it wanted first is saved too.
LEMMA Reached ==
  ASSUME ChainInv', job' = {}, KeeperTypes, KeepState, keeper.pc = "process", keeper' = keeper,
         Known \subseteq Known', Theirs(keeper.orphanNum + 1) \in stored'
  PROVE  Passed(keeper.num)'
<1>1. PICK p \in Peers, num \in Nat, n \in Nat :
        p = keeper.peer /\ num = keeper.num /\ n = keeper.orphanNum
  BY DEF KeepState, KeeperTypes
<1> DEFINE at(h) == GetBlockByHeight(TipOf[p], h)
<1>2. /\ num <= HeightOf[TipOf[p]] /\ n + 1 <= num
      /\ \A h \in n + 2 .. num : at(h) \in stored' \cup orphans'
  BY <1>1 DEF KeepState, Chased, Theirs, Known
<1>3. TipOf[p] \in Blocks /\ HeightOf[TipOf[p]] \in Nat BY SyncAssumption, TreeAssumption
<1>4. num \in 0 .. HeightOf[TipOf[p]] /\ n + 1 \in Nat /\ (n + 1) + 1 = n + 2 BY <1>2, <1>3
<1>5. at(n + 1) \in stored' BY <1>1 DEF Theirs
<1>6. \A o \in orphans' \ Invalid : ParentOf[o] \notin stored' BY DEF ChainInv
<1>7. ASSUME ChainOf(p) \cap Invalid = {} PROVE at(num) \in stored'
  <2>1. \A h \in (n + 1) + 1 .. num : at(h) \in stored' \cup orphans' BY <1>2, <1>4
  <2> QED BY <1>2, <1>4, <1>5, <1>6, <1>7, <2>1, Climb
<1>8. keeper'.peer = p /\ keeper'.num = num BY <1>1
<1> QED BY <1>1, <1>4, <1>7, <1>8 DEF Passed, Fine, Theirs, Final

\* An orphan is at height two or above.
LEMMA OrphanHeight ==
  ASSUME NEW orph, NEW p \in Peers, NEW n \in Nat, n + 1 <= HeightOf[TipOf[p]],
         \A o \in orph : ParentOf[o] # Genesis, GetBlockByHeight(TipOf[p], n + 1) \in orph
  PROVE  n >= 1
<1> SUFFICES ASSUME n = 0 PROVE FALSE OBVIOUS
<1>1. TipOf[p] \in Blocks /\ HeightOf[TipOf[p]] \in Nat BY SyncAssumption, TreeAssumption
<1>2. 1 \in 0 .. HeightOf[TipOf[p]] /\ 0 \in 0 .. HeightOf[TipOf[p]] /\ n + 1 = 1 BY <1>1
<1> DEFINE b == GetBlockByHeight(TipOf[p], 1)
           a == GetBlockByHeight(TipOf[p], 0)
<1>3. ParentOf[b] = a
  <2>1. 1 >= 1 /\ 1 - 1 = 0 OBVIOUS
  <2> QED BY <1>2, <2>1, OnChain
<1>4. a \in Blocks /\ HeightOf[a] = 0 BY <1>2, OnChain
<1> HIDE DEF a
<1>5. a = Genesis
  <2>1. ASSUME a \in Blocks \ {Genesis} PROVE FALSE
    <3>1. ParentOf[a] \in Blocks /\ HeightOf[a] = HeightOf[ParentOf[a]] + 1
      BY <2>1, TreeAssumption
    <3>2. HeightOf[ParentOf[a]] \in Nat BY <3>1, TreeAssumption
    <3> QED BY <1>4, <3>1, <3>2
  <2> QED BY <1>4, <2>1
<1> QED BY <1>2, <1>3, <1>5

LEMMA KeepMoves ==
  ASSUME ChainInv, KeeperTypes, KeepInv, blockProcesser, keeper' = keeper
  PROVE  KeepInv'
<1>0. "keeper" \in Callers BY SyncAssumption
<1>1. stored \subseteq stored' /\ Known \subseteq Known' /\ Final \subseteq Final' BY BlocksStay
<1>2. KeepState' BY <1>1, KeepStateStays DEF KeepInv
<1>3. OneCall("keeper")' BY <1>0, OneCallMoves DEF KeepInv, Waits
<1>4. ChainInv' BY ChainMoves
<1>5. ASSUME NEW i \in 1 .. Len(calls'), calls'[i].caller = "keeper"
      PROVE  calls'[i].block = Theirs(keeper.orphanNum + 1)'
  BY <1>5, CallsLeave DEF KeepInv, KeepCalls, Theirs
<1>6. ASSUME NEW k \in job', k.caller = "keeper" PROVE Theirs(keeper.orphanNum + 1)' \in k.tree
  <2>1. CASE processBlock
    <3>1. /\ Len(calls) \in Nat /\ Len(calls) > 0 /\ job = {} BY <2>1, FirstCall
    <3>2. PICK c \in Callers, b \in Blocks :
            calls[1].caller = c /\ calls[1].block = b /\ Handles(c, b)
      BY <2>1, FirstCall
    <3>3. job' = {[caller |-> c, tree |-> {b}, tip |-> b]} BY <1>6, <3>1, <3>2 DEF Handles
    <3>4. c = "keeper" /\ k.tree = {b} BY <1>6, <3>3
    <3>5. 1 \in 1 .. Len(calls) BY <3>1
    <3>6. b = Theirs(keeper.orphanNum + 1) BY <3>2, <3>4, <3>5 DEF KeepInv, KeepCalls
    <3> QED BY <3>4, <3>6 DEF Theirs
  <2>2. CASE saveSubBlock
    <3>1. PICK j \in job, o \in orphans :
            job' = {[j EXCEPT !.tree = @ \cup {o},
                              !.tip = IF HeightOf[o] > HeightOf[@] THEN o ELSE @]}
      BY <2>2 DEF saveSubBlock
    <3>2. k.tree = j.tree \cup {o} /\ k.caller = j.caller BY <1>6, <3>1 DEF ChainInv, JobInv
    <3>3. Theirs(keeper.orphanNum + 1) \in j.tree BY <1>6, <3>2 DEF KeepInv, KeepCalls
    <3> QED BY <3>2, <3>3 DEF Theirs
  <2>3. CASE connectBest BY <1>6, <2>3 DEF connectBest
  <2> QED BY <2>1, <2>2, <2>3 DEF blockProcesser
<1>7. ASSUME NEW r \in replies'["keeper"], ~r.err
      PROVE  IF r.isOrphan
             THEN keeper'.orphanNum >= 1 /\ Theirs(keeper.orphanNum + 1)' \in Known'
             ELSE Passed(keeper.num)'
  <2>1. CASE r \in replies["keeper"]
    <3>1. IF r.isOrphan THEN keeper.orphanNum >= 1 /\ Theirs(keeper.orphanNum + 1) \in Known
                        ELSE Passed(keeper.num)
      BY <1>7, <2>1 DEF KeepInv, KeepCalls
    <3>2. ASSUME ~r.isOrphan PROVE Passed(keeper.num)' BY <1>1, <3>1, <3>2 DEF Passed, Fine, Theirs
    <3> QED BY <1>1, <3>1, <3>2 DEF Theirs
  <2>2. CASE job' = {} /\ ~r.isOrphan /\ \E j \in job : j.caller = "keeper"
    <3>1. PICK j \in job : j.caller = "keeper" BY <2>2
    <3>2. keeper.pc = "process" BY <3>1 DEF KeepInv, OneCall, Waits
    <3>3. Theirs(keeper.orphanNum + 1) \in stored
      BY <3>1 DEF KeepInv, KeepCalls, ChainInv, JobInv
    <3> QED BY <1>1, <1>4, <2>2, <3>2, <3>3, Reached DEF KeepInv
  <2>3. CASE /\ Len(calls) > 0 /\ calls[1].caller = "keeper" /\ processBlock /\ job' = {}
             /\ ~r.isOrphan /\ ~r.err => calls[1].block \in stored'
             /\ r.isOrphan => calls[1].block \in orphans'
    <3>1. Len(calls) \in Nat BY <2>3, FirstCall
    <3>2. 1 \in 1 .. Len(calls) BY <2>3, <3>1
    <3>3. calls[1].block = Theirs(keeper.orphanNum + 1) /\ keeper.pc = "process"
      BY <2>3, <3>2 DEF KeepInv, KeepCalls, OneCall, Waits
    <3>4. CASE r.isOrphan
      <4>1. Theirs(keeper.orphanNum + 1) \in orphans' BY <2>3, <3>3, <3>4
      <4>2. PICK p \in Peers, n \in Nat : p = keeper.peer /\ n = keeper.orphanNum
        BY <3>3 DEF KeepInv, KeepState, KeeperTypes
      <4>3. TipOf[p] \in Blocks /\ HeightOf[TipOf[p]] \in Nat BY SyncAssumption, TreeAssumption
      <4>4. keeper.num \in Nat BY DEF KeeperTypes
      <4>5. n + 1 <= HeightOf[TipOf[p]]
        <5>1. keeper.num <= HeightOf[TipOf[p]] /\ n + 1 <= keeper.num
          BY <3>3, <4>2 DEF KeepInv, KeepState, Chased
        <5> QED BY <4>3, <4>4, <5>1
      <4>6. \A o \in orphans' : ParentOf[o] # Genesis BY <1>4 DEF ChainInv
      <4>7. GetBlockByHeight(TipOf[p], n + 1) \in orphans' BY <4>1, <4>2 DEF Theirs
      <4>8. n >= 1 BY <4>5, <4>6, <4>7, OrphanHeight
      <4> QED BY <3>4, <4>1, <4>2, <4>8 DEF Theirs, Known
    <3>5. CASE ~r.isOrphan
      <4>1. Theirs(keeper.orphanNum + 1) \in stored' BY <1>7, <2>3, <3>3, <3>5
      <4>2. Passed(keeper.num)' BY <1>1, <1>4, <2>3, <3>3, <4>1, Reached DEF KeepInv
      <4> QED BY <3>5, <4>2
    <3> QED BY <3>4, <3>5
  <2> QED BY <1>0, <1>7, <2>1, <2>2, <2>3, RepliesGiven DEF KeepInv
<1>8. KeepCalls' BY <1>5, <1>6, <1>7 DEF KeepCalls
<1> QED BY <1>2, <1>3, <1>8 DEF KeepInv

-----------------------------------------------------------------------------
(* Peers.                                                                  *)

LEMMA KeepSame ==
  ASSUME KeepInv, UNCHANGED <<stored, orphans, calls, job, replies, keeper>>
  PROVE  KeepInv'
<1>1. Known' = Known /\ Final' = Final BY DEF Known, Final
<1>2. KeepState' BY <1>1, KeepStateStays DEF KeepInv
<1>3. \A h : Passed(h) => Passed(h)' BY <1>1, PassedStays
<1>4. OneCall("keeper")' BY DEF KeepInv, OneCall, Waits
<1>5. KeepCalls' BY <1>1, <1>3 DEF KeepInv, KeepCalls, Theirs
<1> QED BY <1>2, <1>4, <1>5 DEF KeepInv

LEMMA FetchSame ==
  ASSUME FetchInv, UNCHANGED <<stored, calls, job, replies, fetcher>>
  PROVE  FetchInv'
BY DEF FetchInv, OneCall, Waits, FetcherNeverOrphans

LEMMA ChainSame ==
  ASSUME ChainInv, UNCHANGED chainVars
  PROVE  ChainInv'
<1>1. /\ calls \in Seq([caller : Callers, block : Blocks])
      /\ replies \in [Callers -> SUBSET [isOrphan : BOOLEAN, err : BOOLEAN]]
  BY DEF ChainInv
<1> QED BY <1>1, ChainQuiet DEF chainVars

\* A step of the network alone.
LEMMA NetAlone ==
  ASSUME SyncInv, UNCHANGED <<chainVars, keeper, fetcher>>, NetTypes'
  PROVE  SyncInv'
BY ChainSame, KeepSame, FetchSame DEF SyncInv, chainVars, KeeperTypes, FetcherTypes

LEMMA NoticeType ==
  ASSUME NEW ch \in Seq(Peers), Len(ch) <= MaxQuitReq, NEW p \in Peers
  PROVE  Notice(ch, p) \in Seq(Peers) /\ Len(Notice(ch, p)) <= MaxQuitReq
<1>1. MaxQuitReq \in Nat BY SyncAssumption
<1> QED BY <1>1 DEF Notice

LEMMA WithoutType ==
  ASSUME NetTypes, NEW p \in Peers, heights' = Without(p)
  PROVE  Registered' \subseteq Peers /\ heights' \in [Registered' -> Nat]
BY DEF NetTypes, Without, Registered

LEMMA StopNet ==
  ASSUME NetTypes, NEW p \in Peers, pendingCh' = pendingCh,
         \E ch \in Seq(Peers) : Len(ch) <= MaxQuitReq /\ StopPeerGracefully(p, ch)
  PROVE  NetTypes'
<1>1. PICK ch \in Seq(Peers) : Len(ch) <= MaxQuitReq /\ StopPeerGracefully(p, ch) OBVIOUS
<1>2. dropCh' \in Seq(Peers) /\ Len(dropCh') <= MaxQuitReq
  BY <1>1, NoticeType DEF StopPeerGracefully
<1>3. Registered' \subseteq Peers /\ heights' \in [Registered' -> Nat]
  BY <1>1, WithoutType DEF StopPeerGracefully
<1>4. link' \in [Peers -> {"off", "joining", "on", "leaving", "stopped", "zombie"}]
  <2>1. link' = [link EXCEPT ![p] = CASE @ \in {"on", "zombie"} -> "off"
                                     [] @ = "joining" -> "stopped"
                                     [] OTHER -> @]
    BY <1>1 DEF StopPeerGracefully
  <2> QED BY <2>1 DEF NetTypes
<1>5. wire' \in [Peers -> Seq(Nat)]
  <2>1. wire' = [wire EXCEPT ![p] = <<>>] BY <1>1 DEF StopPeerGracefully
  <2> QED BY <2>1 DEF NetTypes
<1> QED BY <1>2, <1>3, <1>4, <1>5 DEF NetTypes

LEMMA PeersMove ==
  ASSUME SyncInv, NEW p \in Peers,
         AddPeer(p) \/ PeersAdd(p) \/ Leave(p) \/ FailEarly(p) \/ RemovePeer(p)
  PROVE  SyncInv'
<1>0. NetTypes BY DEF SyncInv
<1>1. UNCHANGED <<chainVars, keeper, fetcher>>
  BY DEF AddPeer, PeersAdd, Leave, FailEarly, RemovePeer, keeperVars, fetcherVars
<1>2. CASE AddPeer(p)
  <2>1. HeightOf[TipOf[p]] \in Nat BY SyncAssumption, TreeAssumption
  <2>2. Registered' \subseteq Peers /\ heights' \in [Registered' -> Nat]
    BY <1>0, <1>2, <2>1 DEF NetTypes, AddPeer, Registered
  <2>3. link' \in [Peers -> {"off", "joining", "on", "leaving", "stopped", "zombie"}]
    BY <1>0, <1>2 DEF NetTypes, AddPeer
  <2>4. NetTypes' BY <1>0, <1>2, <2>2, <2>3 DEF NetTypes, AddPeer
  <2> QED BY <1>1, <2>4, NetAlone
<1>3. CASE PeersAdd(p)
  <2>1. link' \in [Peers -> {"off", "joining", "on", "leaving", "stopped", "zombie"}]
    BY <1>0, <1>3 DEF NetTypes, PeersAdd
  <2>2. NetTypes' BY <1>0, <1>3, <2>1 DEF NetTypes, PeersAdd, Registered
  <2> QED BY <1>1, <2>2, NetAlone
<1>4. CASE Leave(p)
  <2>1. link' \in [Peers -> {"off", "joining", "on", "leaving", "stopped", "zombie"}]
    BY <1>0, <1>4 DEF NetTypes, Leave
  <2>2. wire' \in [Peers -> Seq(Nat)] BY <1>0, <1>4 DEF NetTypes, Leave
  <2>3. NetTypes' BY <1>0, <1>4, <2>1, <2>2 DEF NetTypes, Leave, Registered
  <2> QED BY <1>1, <2>3, NetAlone
<1>5. CASE FailEarly(p)
  <2>1. dropCh \in Seq(Peers) /\ Len(dropCh) <= MaxQuitReq BY <1>0 DEF NetTypes
  <2>2. NetTypes' BY <1>0, <1>5, <2>1, StopNet DEF FailEarly
  <2> QED BY <1>1, <2>2, NetAlone
<1>6. CASE RemovePeer(p)
  <2>1. link' \in [Peers -> {"off", "joining", "on", "leaving", "stopped", "zombie"}]
    BY <1>0, <1>6 DEF NetTypes, RemovePeer
  <2>2. dropCh' \in Seq(Peers) /\ Len(dropCh') <= MaxQuitReq
    BY <1>0, <1>6, NoticeType DEF NetTypes, RemovePeer
  <2>3. Registered' \subseteq Peers /\ heights' \in [Registered' -> Nat]
    BY <1>0, <1>6, WithoutType DEF RemovePeer
  <2>4. NetTypes' BY <1>0, <1>6, <2>1, <2>2, <2>3 DEF NetTypes, RemovePeer
  <2> QED BY <1>1, <2>4, NetAlone
<1> QED BY <1>2, <1>3, <1>4, <1>5, <1>6

LEMMA PeerAnswers ==
  ASSUME SyncInv, NEW p \in Peers, Answer(p)
  PROVE  SyncInv'
<1>0. NetTypes BY DEF SyncInv
<1>1. UNCHANGED <<chainVars, keeper, fetcher>> /\ UNCHANGED <<link, heights, dropCh>>
  BY DEF Answer, keeperVars, fetcherVars
<1>2. wire[p] \in Seq(Nat) /\ wire[p] # <<>> /\ wire' = [wire EXCEPT ![p] = Tail(@)]
  BY <1>0 DEF Answer, NetTypes
<1>3. Head(wire[p]) \in Nat /\ Tail(wire[p]) \in Seq(Nat) BY <1>2, HeadTail
<1>4. wire' \in [Peers -> Seq(Nat)] BY <1>0, <1>2, <1>3 DEF NetTypes
<1>5. /\ pendingCh' \in Seq([peer : Peers, block : Blocks]) /\ Len(pendingCh') <= MaxPending
      /\ \A i \in 1 .. Len(pendingCh') : pendingCh'[i].block \in ChainOf(pendingCh'[i].peer)
  <2>0. HeightOf[TipOf[p]] \in Nat BY SyncAssumption, TreeAssumption
  <2>1. PICK h \in Nat : h = Head(wire[p]) BY <1>3
  <2>2. CASE h <= HeightOf[TipOf[p]]
    <3>1. h \in 0 .. HeightOf[TipOf[p]] BY <2>0, <2>2
    <3>2. PICK b \in Blocks : b \in ChainOf(p) /\ b = GetBlockByHeight(TipOf[p], h)
      BY <3>1, OnChain
    <3>3. /\ Len(pendingCh) < MaxPending
          /\ pendingCh' = Append(pendingCh, [peer |-> p, block |-> b])
      BY <2>1, <2>2, <3>2 DEF Answer, AddBlock
    <3>4. [peer |-> p, block |-> b] \in [peer : Peers, block : Blocks] OBVIOUS
    <3>5. pendingCh \in Seq([peer : Peers, block : Blocks]) BY <1>0 DEF NetTypes
    <3> DEFINE n == Len(pendingCh)
    <3>6. /\ pendingCh' \in Seq([peer : Peers, block : Blocks])
          /\ n \in Nat /\ Len(pendingCh') = n + 1
          /\ pendingCh'[n + 1] = [peer |-> p, block |-> b]
          /\ \A i \in 1 .. n : pendingCh'[i] = pendingCh[i]
      BY <3>3, <3>4, <3>5, Appended
    <3>7. MaxPending \in Nat BY SyncAssumption
    <3>8. n < MaxPending BY <3>3
    <3>9. \A i \in 1 .. n : pendingCh[i].block \in ChainOf(pendingCh[i].peer)
      BY <1>0 DEF NetTypes
    <3> HIDE DEF n
    <3>10. Len(pendingCh') <= MaxPending BY <3>6, <3>7, <3>8
    <3>11. ASSUME NEW i \in 1 .. Len(pendingCh')
           PROVE  pendingCh'[i].block \in ChainOf(pendingCh'[i].peer)
      <4>1. i = n + 1 \/ i \in 1 .. n BY <3>6
      <4>2. CASE i = n + 1 BY <3>2, <3>6, <4>2
      <4>3. CASE i \in 1 .. n BY <3>6, <3>9, <4>3
      <4> QED BY <4>1, <4>2, <4>3
    <3> QED BY <3>6, <3>10, <3>11
  <2>3. CASE ~(h <= HeightOf[TipOf[p]])
    <3>1. pendingCh' = pendingCh BY <2>1, <2>3 DEF Answer
    <3> QED BY <1>0, <3>1 DEF NetTypes
  <2> QED BY <2>2, <2>3
<1>6. NetTypes' BY <1>0, <1>1, <1>4, <1>5 DEF NetTypes, Registered
<1> QED BY <1>1, <1>6, NetAlone

-----------------------------------------------------------------------------
(* The keeper.                                                             *)

\* A step of the keeper outside ProcessBlock.
LEMMA KeeperAlone ==
  ASSUME SyncInv, UNCHANGED <<chainVars, fetcher>>, NetTypes', KeeperTypes', KeepState',
         keeper.pc # "process"
  PROVE  SyncInv'
<1>0. "keeper" \in Callers BY SyncAssumption
<1>1. OneCall("keeper") /\ ~Waits("keeper") BY DEF SyncInv, KeepInv, Waits
<1>2. NoCall("keeper") BY <1>0, <1>1, NoCallIdle
<1>3. NoCall("keeper")' /\ OneCall("keeper")' BY <1>0, <1>2, NoCallSame DEF chainVars
<1>4. KeepCalls' BY <1>3 DEF NoCall, KeepCalls
<1>5. KeepInv' BY <1>3, <1>4 DEF KeepInv
<1> QED BY <1>5, ChainSame, FetchSame DEF SyncInv, chainVars, FetcherTypes

\* Passed and Chased while blockProcesser and the keeper's peer stay.
LEMMA SameViews ==
  ASSUME UNCHANGED chainVars, keeper'.peer = keeper.peer
  PROVE  \A h : Passed(h)' = Passed(h) /\ Theirs(h)' = Theirs(h) /\ Known' = Known
BY DEF chainVars, Passed, Fine, Theirs, Final, Known

LEMMA SynchroniseStep ==
  ASSUME SyncInv, synchronise
  PROVE  SyncInv'
<1>0. NetTypes /\ KeeperTypes /\ KeepState BY DEF SyncInv, KeepInv
<1>1. /\ UNCHANGED <<chainVars, fetcher>> /\ keeper.pc = "idle"
      /\ keeper' = [keeper EXCEPT !.pc = "choose"]
  BY DEF synchronise, fetcherVars
<1>2. KeeperTypes' BY <1>0, <1>1 DEF KeeperTypes
<1>3. keeper'.pc = "choose" /\ keeper'.whole = keeper.whole BY <1>0, <1>1 DEF KeeperTypes
<1>4. ~keeper.whole BY <1>0, <1>1 DEF KeepState
<1>5. KeepState' BY <1>3, <1>4 DEF KeepState
<1>6. NetTypes'
  <2>1. dropCh' = <<>> /\ UNCHANGED <<link, heights, wire, pendingCh>> BY DEF synchronise
  <2>2. dropCh' \in Seq(Peers) /\ Len(dropCh') <= MaxQuitReq BY <2>1, SyncAssumption
  <2> QED BY <1>0, <2>1, <2>2 DEF NetTypes, Registered
<1> QED BY <1>1, <1>2, <1>5, <1>6, KeeperAlone

LEMMA NoKeeperState ==
  ASSUME keeper' = NoKeeper
  PROVE  KeeperTypes' /\ KeepState'
<1>1. KeeperTypes' BY SyncAssumption DEF NoKeeper, KeeperTypes
<1>2. keeper'.pc = "idle" /\ ~keeper'.whole BY DEF NoKeeper
<1>3. KeepState' BY <1>2 DEF KeepState
<1> QED BY <1>1, <1>3

LEMMA NetSame ==
  ASSUME NetTypes, UNCHANGED netVars
  PROVE  NetTypes'
BY DEF NetTypes, netVars, Registered

LEMMA ChooseStep ==
  ASSUME SyncInv, Choose
  PROVE  SyncInv'
<1>0. NetTypes /\ KeeperTypes /\ KeepState /\ ChainInv BY DEF SyncInv, KeepInv
<1>1. UNCHANGED <<chainVars, fetcher>> /\ keeper.pc = "choose" BY DEF Choose, fetcherVars
<1>2. CASE keeper' = NoKeeper /\ UNCHANGED netVars
  <2>1. NetTypes' BY <1>0, <1>2, NetSame
  <2> QED BY <1>1, <1>2, <2>1, NoKeeperState, KeeperAlone
<1>3. ASSUME NEW p \in BestPeers, keeper' = NoKeeper, StopPeerGracefully(p, dropCh),
             UNCHANGED pendingCh
      PROVE  SyncInv'
  <2>1. p \in Peers BY <1>0, <1>3 DEF BestPeers, NetTypes
  <2>2. dropCh \in Seq(Peers) /\ Len(dropCh) <= MaxQuitReq BY <1>0 DEF NetTypes
  <2>3. NetTypes' BY <1>0, <1>3, <2>1, <2>2, StopNet
  <2> QED BY <1>1, <1>3, <2>3, NoKeeperState, KeeperAlone
<1>4. ASSUME NEW p \in BestPeers, heights[p] > HeightOf[best], UNCHANGED netVars,
             keeper' = [NoKeeper EXCEPT !.pc = "request", !.peer = p,
                                        !.max = heights[p], !.num = HeightOf[best] + 1]
      PROVE  SyncInv'
  <2>1. p \in Peers /\ heights[p] \in Nat BY <1>0, <1>4 DEF BestPeers, NetTypes
  <2>2. HeightOf[best] \in Nat BY <1>0, TreeAssumption DEF ChainInv, Tree
  <2>3. KeeperTypes'
    <3>1. keeper' = [pc |-> "request", peer |-> p, max |-> heights[p], num |-> HeightOf[best] + 1,
                     orphanNum |-> 0, isOrphan |-> FALSE, retries |-> 0, whole |-> FALSE]
      BY <1>4 DEF NoKeeper
    <3>2. 0 \in 0 .. MaxRetries /\ HeightOf[best] + 1 \in Nat BY <2>2, SyncAssumption
    <3> QED BY <2>1, <3>1, <3>2 DEF KeeperTypes
  <2>4. /\ keeper'.pc = "request" /\ keeper'.peer = p /\ keeper'.max = heights[p]
        /\ keeper'.num = HeightOf[best] + 1 /\ ~keeper'.isOrphan /\ ~keeper'.whole
    BY <1>4 DEF NoKeeper
  <2>5. ~(keeper'.num > keeper'.max) /\ keeper'.num >= 1 BY <1>4, <2>1, <2>2, <2>4
  <2>6. KeepState' BY <2>1, <2>4, <2>5 DEF KeepState
  <2>7. NetTypes' BY <1>0, <1>4, NetSame
  <2> QED BY <1>1, <2>3, <2>6, <2>7, KeeperAlone
<1>5. \/ keeper' = NoKeeper /\ UNCHANGED netVars
      \/ \E p \in BestPeers : keeper' = NoKeeper /\ StopPeerGracefully(p, dropCh) /\ UNCHANGED pendingCh
      \/ \E p \in BestPeers :
          /\ heights[p] > HeightOf[best] /\ UNCHANGED netVars
          /\ keeper' = [NoKeeper EXCEPT !.pc = "request", !.peer = p,
                                        !.max = heights[p], !.num = HeightOf[best] + 1]
  BY DEF Choose
<1> QED BY <1>2, <1>3, <1>4, <1>5

\* reqNum is a height.
LEMMA ReqNumType ==
  ASSUME KeeperTypes
  PROVE  reqNum \in Nat
BY DEF KeeperTypes, reqNum

LEMMA AbandonStep ==
  ASSUME SyncInv, UNCHANGED <<chainVars, fetcher, pendingCh>>, keeper.pc \in {"request", "wait"},
         \E ch \in Seq(Peers) : Len(ch) <= MaxQuitReq /\ Abandon(ch)
  PROVE  SyncInv'
<1>0. NetTypes /\ KeeperTypes /\ KeepState BY DEF SyncInv, KeepInv
<1>1. PICK ch \in Seq(Peers) : Len(ch) <= MaxQuitReq /\ Abandon(ch) OBVIOUS
<1>2. keeper' = [keeper EXCEPT !.pc = "finish"] /\ StopPeerGracefully(keeper.peer, ch)
  BY <1>1 DEF Abandon
<1>3. PICK p \in Peers : p = keeper.peer BY <1>0 DEF KeepState
<1>4. NetTypes' BY <1>0, <1>1, <1>2, <1>3, StopNet
<1>5. KeeperTypes' BY <1>0, <1>2 DEF KeeperTypes
<1>6. keeper'.pc = "finish" /\ keeper'.whole = keeper.whole /\ keeper'.peer = keeper.peer
  BY <1>0, <1>2 DEF KeeperTypes
<1>7. ~keeper.whole BY <1>0 DEF KeepState
<1>8. KeepState' BY <1>3, <1>6, <1>7 DEF KeepState
<1>9. keeper.pc # "process" OBVIOUS
<1> QED BY <1>4, <1>5, <1>8, <1>9, KeeperAlone

\* A request is sent, the first time or again.
LEMMA RequestSent ==
  ASSUME SyncInv, UNCHANGED <<chainVars, fetcher, link, heights, dropCh, pendingCh>>,
         keeper.pc \in {"request", "wait"}, keeper.num <= keeper.max,
         wire' = [wire EXCEPT ![keeper.peer] = Append(@, reqNum)],
         NEW k \in 0 .. MaxRetries, keeper' = [keeper EXCEPT !.pc = "wait", !.retries = k]
  PROVE  SyncInv'
<1>0. NetTypes /\ KeeperTypes /\ KeepState BY DEF SyncInv, KeepInv
<1>1. keeper.peer \in Peers BY <1>0 DEF KeepState
<1>2. reqNum \in Nat BY <1>0, ReqNumType
<1>3. wire' \in [Peers -> Seq(Nat)] BY <1>0, <1>1, <1>2 DEF NetTypes
<1>4. NetTypes' BY <1>0, <1>3 DEF NetTypes, Registered
<1>5. KeeperTypes' BY <1>0 DEF KeeperTypes
<1>6. /\ keeper'.pc = "wait" /\ keeper'.peer = keeper.peer /\ keeper'.num = keeper.num
      /\ keeper'.max = keeper.max /\ keeper'.isOrphan = keeper.isOrphan
      /\ keeper'.orphanNum = keeper.orphanNum /\ keeper'.whole = keeper.whole
  BY <1>0 DEF KeeperTypes
<1>7. ~keeper.whole BY <1>0 DEF KeepState
<1>8. /\ keeper.num >= 1 /\ keeper.num \in Nat /\ keeper.max \in Nat
      /\ keeper.isOrphan => keeper.orphanNum >= 1 /\ Chased(keeper.orphanNum + 1)
  BY <1>0 DEF KeepState, KeeperTypes
<1>9. Chased(keeper.orphanNum + 1) => Chased(keeper.orphanNum + 1)'
  BY <1>6, SameViews DEF Chased
<1>10. ~(keeper.num > keeper.max) BY <1>8
<1>11. KeepState' BY <1>1, <1>6, <1>7, <1>8, <1>9, <1>10 DEF KeepState
<1>12. keeper.pc # "process" OBVIOUS
<1> QED BY <1>4, <1>5, <1>11, <1>12, KeeperAlone

LEMMA RequestStep ==
  ASSUME SyncInv, Request
  PROVE  SyncInv'
<1>0. NetTypes /\ KeeperTypes /\ KeepState BY DEF SyncInv, KeepInv
<1>1. UNCHANGED <<chainVars, fetcher>> /\ keeper.pc = "request" BY DEF Request, fetcherVars
<1>2. CASE /\ keeper.num > keeper.max /\ UNCHANGED netVars
           /\ keeper' = [keeper EXCEPT !.pc = "finish", !.whole = TRUE]
  <2>1. KeeperTypes' BY <1>0, <1>2 DEF KeeperTypes
  <2>2. /\ keeper'.pc = "finish" /\ keeper'.peer = keeper.peer /\ keeper'.num = keeper.num
        /\ keeper'.max = keeper.max
    BY <1>0, <1>2 DEF KeeperTypes
  <2>3. Passed(keeper.num - 1) /\ keeper.peer \in Peers BY <1>0, <1>1, <1>2 DEF KeepState
  <2>4. Passed(keeper.num - 1)' BY <1>1, <2>2, <2>3, SameViews
  <2>5. KeepState' BY <1>2, <2>2, <2>3, <2>4 DEF KeepState
  <2>6. NetTypes' BY <1>0, <1>2, NetSame
  <2> QED BY <1>1, <2>1, <2>5, <2>6, KeeperAlone
<1>3. CASE /\ keeper.num <= keeper.max /\ wire' = [wire EXCEPT ![keeper.peer] = Append(@, reqNum)]
           /\ keeper' = [keeper EXCEPT !.pc = "wait", !.retries = 0]
           /\ UNCHANGED <<link, joins, heights, dropCh, pendingCh>>
  <2>1. 0 \in 0 .. MaxRetries BY SyncAssumption
  <2> QED BY <1>1, <1>3, <2>1, RequestSent
<1>4. CASE Abandon(dropCh) /\ UNCHANGED pendingCh
  <2>1. dropCh \in Seq(Peers) /\ Len(dropCh) <= MaxQuitReq BY <1>0 DEF NetTypes
  <2> QED BY <1>1, <1>4, <2>1, AbandonStep
<1> QED BY <1>2, <1>3, <1>4 DEF Request

LEMMA RetryStep ==
  ASSUME SyncInv, Retry
  PROVE  SyncInv'
<1>0. NetTypes /\ KeeperTypes /\ KeepState BY DEF SyncInv, KeepInv
<1>1. UNCHANGED <<chainVars, fetcher, pendingCh>> /\ keeper.pc = "wait" /\ keeper.retries < MaxRetries
  BY DEF Retry, fetcherVars
<1>2. CASE /\ wire' = [wire EXCEPT ![keeper.peer] = Append(@, reqNum)]
           /\ keeper' = [keeper EXCEPT !.retries = @ + 1]
           /\ UNCHANGED <<link, heights, dropCh>>
  <2>1. PICK k \in 0 .. MaxRetries : k = keeper.retries + 1
    BY <1>0, <1>1, SyncAssumption DEF KeeperTypes
  <2>2. keeper' = [keeper EXCEPT !.pc = "wait", !.retries = k] BY <1>0, <1>1, <1>2, <2>1 DEF KeeperTypes
  <2>3. keeper.num <= keeper.max BY <1>0, <1>1 DEF KeepState
  <2> QED BY <1>1, <1>2, <2>2, <2>3, RequestSent
<1>3. CASE Abandon(dropCh)
  <2>1. dropCh \in Seq(Peers) /\ Len(dropCh) <= MaxQuitReq BY <1>0 DEF NetTypes
  <2> QED BY <1>1, <1>3, <2>1, AbandonStep
<1> QED BY <1>2, <1>3 DEF Retry

LEMMA TimeoutStep ==
  ASSUME SyncInv, Timeout \/ Dropped
  PROVE  SyncInv'
<1>0. NetTypes /\ KeeperTypes /\ KeepState BY DEF SyncInv, KeepInv
<1>1. UNCHANGED <<chainVars, fetcher, pendingCh>> /\ keeper.pc = "wait"
  BY DEF Timeout, Dropped, fetcherVars
<1>2. dropCh \in Seq(Peers) /\ Len(dropCh) <= MaxQuitReq BY <1>0 DEF NetTypes
<1>3. CASE Abandon(dropCh) BY <1>1, <1>2, <1>3, AbandonStep
<1>4. ASSUME dropCh # <<>>
      PROVE  Tail(dropCh) \in Seq(Peers) /\ Len(Tail(dropCh)) <= MaxQuitReq
  <2>1. Tail(dropCh) \in Seq(Peers) /\ Len(Tail(dropCh)) = Len(dropCh) - 1 /\ Len(dropCh) \in Nat
    BY <1>2, <1>4, HeadTail
  <2> QED BY <1>2, <2>1, SyncAssumption
<1>5. CASE dropCh # <<>> /\ Abandon(Tail(dropCh)) BY <1>1, <1>4, <1>5, AbandonStep
<1>6. CASE dropCh # <<>> /\ dropCh' = Tail(dropCh) /\ UNCHANGED <<link, wire, heights, keeper>>
  <2>1. NetTypes' BY <1>0, <1>1, <1>4, <1>6 DEF NetTypes, Registered
  <2> QED BY <1>1, <1>6, <2>1, NetAlone
<1> QED BY <1>3, <1>5, <1>6 DEF Timeout, Dropped

LEMMA FinishStep ==
  ASSUME SyncInv, Finish
  PROVE  SyncInv'
<1>1. UNCHANGED <<chainVars, netVars, fetcher>> /\ keeper.pc = "finish" /\ keeper' = NoKeeper
  BY DEF Finish, fetcherVars
<1>2. NetTypes' BY <1>1, NetSame DEF SyncInv
<1> QED BY <1>1, <1>2, NoKeeperState, KeeperAlone

LEMMA ResponseStep ==
  ASSUME SyncInv, Response
  PROVE  SyncInv'
<1>0. NetTypes /\ KeeperTypes /\ KeepState /\ ChainInv /\ KeepInv /\ FetchInv
  BY DEF SyncInv, KeepInv
<1>1. /\ keeper.pc = "wait" /\ pendingCh # <<>> /\ pendingCh' = Tail(pendingCh)
      /\ UNCHANGED <<stored, status, parent, best, mainChain, orphans, job, replies, cut,
                     link, heights, dropCh, wire, fetcher>>
  BY DEF Response, fetcherVars
<1>2. pendingCh \in Seq([peer : Peers, block : Blocks]) BY <1>0 DEF NetTypes
<1>3. /\ Head(pendingCh) \in [peer : Peers, block : Blocks] /\ Head(pendingCh) = pendingCh[1]
      /\ Tail(pendingCh) \in Seq([peer : Peers, block : Blocks])
      /\ Len(pendingCh) > 0 /\ Len(Tail(pendingCh)) = Len(pendingCh) - 1
      /\ \A i \in 1 .. Len(Tail(pendingCh)) : Tail(pendingCh)[i] = pendingCh[i + 1]
  BY <1>1, <1>2, HeadTail
<1>4. NetTypes'
  <2> DEFINE n == Len(pendingCh)
  <2>1. n \in Nat /\ n <= MaxPending /\ MaxPending \in Nat BY <1>0, <1>2, SyncAssumption DEF NetTypes
  <2>2. Len(pendingCh') = n - 1 /\ \A i \in 1 .. n - 1 : pendingCh'[i] = pendingCh[i + 1]
    BY <1>1, <1>3
  <2>3. \A i \in 1 .. n : pendingCh[i].block \in ChainOf(pendingCh[i].peer) BY <1>0 DEF NetTypes
  <2> HIDE DEF n
  <2>4. ASSUME NEW i \in 1 .. Len(pendingCh')
        PROVE  pendingCh'[i].block \in ChainOf(pendingCh'[i].peer)
    <3>1. i \in 1 .. n - 1 /\ i + 1 \in 1 .. n BY <2>1, <2>2
    <3> QED BY <2>2, <2>3, <3>1
  <2>5. Len(pendingCh') <= MaxPending BY <2>1, <2>2
  <2> QED BY <1>0, <1>1, <1>3, <2>4, <2>5 DEF NetTypes, Registered
<1>5. PICK b \in Blocks, p \in Peers : b = Head(pendingCh).block /\ p = Head(pendingCh).peer BY <1>3
<1>6. CASE UNCHANGED <<calls, keeper>>
  <2>1. UNCHANGED <<chainVars, keeper, fetcher>> BY <1>1, <1>6 DEF chainVars
  <2> QED BY <1>4, <2>1, NetAlone
<1>7. CASE /\ p = keeper.peer /\ HeightOf[b] = reqNum /\ ProcessBlock("keeper", b)
           /\ keeper' = [keeper EXCEPT !.pc = "process", !.orphanNum = HeightOf[b] - 1]
  <2>0. "keeper" \in Callers /\ "fetcher" \in Callers BY SyncAssumption
  <2>1. PICK num \in Nat, orphanNum \in Nat, req \in Nat :
          num = keeper.num /\ orphanNum = keeper.orphanNum /\ req = reqNum
    BY <1>0, ReqNumType DEF KeeperTypes
  <2>2. req >= 1 /\ req = IF keeper.isOrphan THEN orphanNum ELSE num
    BY <1>0, <1>1, <2>1 DEF KeepState, reqNum
  <2>3. KeeperTypes'
    <3>1. HeightOf[b] - 1 \in Nat BY <1>7, <2>1, <2>2
    <3> QED BY <1>0, <1>7, <3>1 DEF KeeperTypes
  <2>4. /\ keeper'.pc = "process" /\ keeper'.peer = p /\ keeper'.num = num
        /\ keeper'.max = keeper.max /\ keeper'.orphanNum = req - 1 /\ keeper'.whole = keeper.whole
    BY <1>0, <1>7, <2>1 DEF KeeperTypes
  <2>5. b \in ChainOf(p)
    <3>1. Len(pendingCh) \in Nat BY <1>2
    <3>2. 1 \in 1 .. Len(pendingCh) BY <1>3, <3>1
    <3>3. pendingCh[1].block \in ChainOf(pendingCh[1].peer) BY <1>0, <3>2 DEF NetTypes
    <3> QED BY <1>3, <1>5, <3>3
  <2>6. /\ HeightOf[TipOf[p]] \in Nat /\ req \in 0 .. HeightOf[TipOf[p]]
        /\ b = GetBlockByHeight(TipOf[p], req)
    BY <1>7, <2>1, <2>5, ChainByHeight, SyncAssumption, TreeAssumption
  <2>7. Known' = Known BY <1>1 DEF Known
  <2>8. /\ num <= HeightOf[TipOf[p]] /\ req <= num
        /\ \A h \in req + 1 .. num : GetBlockByHeight(TipOf[p], h) \in Known
    <3>1. CASE keeper.isOrphan
      <4>1. Chased(orphanNum + 1) BY <1>0, <1>1, <2>1, <3>1 DEF KeepState
      <4>2. req = orphanNum BY <2>2, <3>1
      <4>3. /\ num <= HeightOf[TipOf[p]] /\ orphanNum + 1 <= num
            /\ \A h \in orphanNum + 1 .. num : GetBlockByHeight(TipOf[p], h) \in Known
        BY <1>7, <2>1, <4>1 DEF Chased, Theirs
      <4> QED BY <4>2, <4>3
    <3>2. CASE ~keeper.isOrphan BY <2>2, <2>6, <3>2
    <3> QED BY <3>1, <3>2
  <2>9. Chased(keeper.orphanNum + 2)'
    <3>1. (req - 1) + 1 <= num BY <2>8
    <3>2. \A h \in (req - 1) + 2 .. num : GetBlockByHeight(TipOf[p], h) \in Known
      <4>1. (req - 1) + 2 = req + 1 OBVIOUS
      <4> QED BY <2>8, <4>1
    <3> QED BY <2>4, <2>7, <2>8, <3>1, <3>2 DEF Chased, Theirs
  <2>10. KeepState'
    <3>1. ~keeper.whole /\ keeper.num <= keeper.max /\ keeper.num >= 1
      BY <1>0, <1>1 DEF KeepState
    <3> QED BY <2>1, <2>4, <2>9, <3>1 DEF KeepState
  <2>11. OneCall("keeper")'
    <3>1. ~Waits("keeper") /\ Waits("keeper")' BY <1>1, <2>4 DEF Waits
    <3> QED BY <1>0, <1>1, <1>7, <2>0, <3>1, OneCallAdded DEF KeepInv
  <2>12. OneCall("fetcher")'
    <3>1. Waits("fetcher")' = Waits("fetcher") BY <1>1 DEF Waits
    <3> QED BY <1>0, <1>1, <1>7, <2>0, <3>1, OneCallAdded DEF FetchInv
  <2> DEFINE n == Len(calls)
  <2>13. /\ calls' \in Seq([caller : Callers, block : Blocks])
         /\ n \in Nat /\ Len(calls') = n + 1
         /\ calls'[n + 1].caller = "keeper" /\ calls'[n + 1].block = b
         /\ \A i \in 1 .. n : calls'[i] = calls[i]
    BY <1>0, <1>7, <2>0, CallAdded
  <2>14. \A i \in 1 .. n + 1 : i = n + 1 \/ i \in 1 .. n BY <2>13
  <2>15. NoCall("keeper")
    <3>1. ~Waits("keeper") BY <1>1 DEF Waits
    <3> QED BY <1>0, <2>0, <3>1, NoCallIdle DEF KeepInv
  <2>16. KeepCalls'
    <3>1. Theirs(keeper.orphanNum + 1)' = b
      <4>1. (req - 1) + 1 = req OBVIOUS
      <4> QED BY <2>4, <2>6, <4>1 DEF Theirs
    <3>2. ASSUME NEW i \in 1 .. Len(calls'), calls'[i].caller = "keeper" PROVE calls'[i].block = b
      BY <2>13, <2>14, <2>15, <3>2 DEF NoCall
    <3>3. replies'["keeper"] = {} /\ \A j \in job' : j.caller # "keeper"
      BY <1>1, <2>15 DEF NoCall
    <3> QED BY <3>1, <3>2, <3>3 DEF KeepCalls
  <2>17. FetchInv'
    <3>1. ASSUME NEW i \in 1 .. Len(calls'), calls'[i].caller = "fetcher"
          PROVE  calls'[i].block = fetcher'.op
      <4>1. i \in 1 .. n BY <2>13, <2>14, <3>1
      <4> QED BY <1>0, <1>1, <2>13, <3>1, <4>1 DEF FetchInv
    <3> QED BY <1>0, <1>1, <2>12, <3>1 DEF FetchInv, FetcherNeverOrphans
  <2>18. ChainInv'
    <3>1. replies' \in [Callers -> SUBSET [isOrphan : BOOLEAN, err : BOOLEAN]]
      BY <1>0, <1>1 DEF ChainInv
    <3> QED BY <1>0, <1>1, <2>13, <3>1, ChainQuiet
  <2>19. FetcherTypes' BY <1>1 DEF SyncInv, FetcherTypes
  <2> QED BY <1>4, <2>3, <2>10, <2>11, <2>16, <2>17, <2>18, <2>19 DEF SyncInv, KeepInv
<1> QED BY <1>5, <1>6, <1>7 DEF Response

LEMMA ProcessedStep ==
  ASSUME SyncInv, Processed
  PROVE  SyncInv'
<1>0. NetTypes /\ KeeperTypes /\ KeepState /\ ChainInv /\ KeepInv /\ FetchInv /\ KeepCalls
  BY DEF SyncInv, KeepInv
<1>1. /\ keeper.pc = "process" /\ replies' = [replies EXCEPT !["keeper"] = {}]
      /\ UNCHANGED <<stored, status, parent, best, mainChain, orphans, calls, job, cut, fetcher>>
  BY DEF Processed, fetcherVars
<1>2. PICK r \in replies["keeper"] :
        \/ /\ keeper' = [keeper EXCEPT !.pc = "finish"]
           /\ \/ UNCHANGED netVars
              \/ StopPeerGracefully(keeper.peer, dropCh) /\ UNCHANGED pendingCh
        \/ /\ ~r.err /\ r.isOrphan /\ UNCHANGED netVars
           /\ keeper' = [keeper EXCEPT !.pc = "request", !.isOrphan = TRUE]
        \/ /\ ~r.err /\ ~r.isOrphan /\ UNCHANGED netVars
           /\ keeper' = [keeper EXCEPT !.pc = "request", !.isOrphan = FALSE, !.num = @ + 1]
  BY DEF Processed
<1>3. "keeper" \in Callers /\ "fetcher" \in Callers \ {"keeper"} BY SyncAssumption
<1>4. /\ NoCall("keeper")' /\ OneCall("keeper")' /\ replies'["fetcher"] = replies["fetcher"]
      /\ replies' \in [Callers -> SUBSET [isOrphan : BOOLEAN, err : BOOLEAN]]
  BY <1>0, <1>1, <1>2, <1>3, ReplyTaken DEF KeepInv
<1>5. ChainInv'
  <2>1. calls' \in Seq([caller : Callers, block : Blocks]) BY <1>0, <1>1 DEF ChainInv
  <2> QED BY <1>0, <1>1, <1>4, <2>1, ChainQuiet
<1>6. FetchInv'
  <2>1. Waits("fetcher")' = Waits("fetcher") BY <1>1 DEF Waits
  <2>2. OneCall("fetcher")' BY <1>0, <1>1, <1>3, <1>4, <2>1, OneCallSame DEF FetchInv
  <2> QED BY <1>0, <1>1, <1>4, <2>2 DEF FetchInv, FetcherNeverOrphans
<1>7. KeepCalls' BY <1>4 DEF NoCall, KeepCalls
<1>8. FetcherTypes' BY <1>1 DEF SyncInv, FetcherTypes
<1>9. PICK p \in Peers : p = keeper.peer BY <1>0, <1>1 DEF KeepState
<1>10. NetTypes'
  <2>1. CASE UNCHANGED netVars BY <1>0, <2>1, NetSame
  <2>2. CASE StopPeerGracefully(keeper.peer, dropCh) /\ UNCHANGED pendingCh
    <3>1. dropCh \in Seq(Peers) /\ Len(dropCh) <= MaxQuitReq BY <1>0 DEF NetTypes
    <3> QED BY <1>0, <1>9, <2>2, <3>1, StopNet
  <2> QED BY <1>2, <2>1, <2>2
<1>11. KeeperTypes'
  <2>1. CASE keeper' = [keeper EXCEPT !.pc = "finish"] BY <1>0, <2>1 DEF KeeperTypes
  <2>2. CASE keeper' = [keeper EXCEPT !.pc = "request", !.isOrphan = TRUE]
    BY <1>0, <2>2 DEF KeeperTypes
  <2>3. CASE keeper' = [keeper EXCEPT !.pc = "request", !.isOrphan = FALSE, !.num = @ + 1]
    <3>1. keeper.num + 1 \in Nat BY <1>0 DEF KeeperTypes
    <3> QED BY <1>0, <2>3, <3>1 DEF KeeperTypes
  <2> QED BY <1>2, <2>1, <2>2, <2>3
<1>12. /\ ~keeper.whole /\ Chased(keeper.orphanNum + 2)
       /\ keeper.num >= 1 /\ keeper.num <= keeper.max
  BY <1>0, <1>1 DEF KeepState
<1>13. PICK num \in Nat, n \in Nat, max \in Nat :
         num = keeper.num /\ n = keeper.orphanNum /\ max = keeper.max
  BY <1>0 DEF KeeperTypes
<1>14. /\ keeper'.peer = p /\ keeper'.orphanNum = n /\ keeper'.max = max
       /\ keeper'.whole = keeper.whole
  BY <1>0, <1>2, <1>9, <1>13 DEF KeeperTypes
<1>15. Known' = Known /\ Final' = Final BY <1>1 DEF Known, Final
<1>16. KeepState'
  <2>1. CASE keeper' = [keeper EXCEPT !.pc = "finish"]
    <3>1. keeper'.pc = "finish" BY <1>0, <2>1 DEF KeeperTypes
    <3> QED BY <1>12, <1>14, <3>1 DEF KeepState
  <2>2. CASE /\ ~r.err /\ r.isOrphan
             /\ keeper' = [keeper EXCEPT !.pc = "request", !.isOrphan = TRUE]
    <3>1. keeper'.pc = "request" /\ keeper'.num = num BY <1>0, <1>13, <2>2 DEF KeeperTypes
    <3>2. n >= 1 /\ GetBlockByHeight(TipOf[p], n + 1) \in Known
      BY <1>0, <1>2, <1>9, <1>13, <2>2 DEF KeepCalls, Theirs
    <3>3. /\ num <= HeightOf[TipOf[p]] /\ n + 1 <= num
          /\ \A h \in n + 2 .. num : GetBlockByHeight(TipOf[p], h) \in Known
      BY <1>9, <1>12, <1>13 DEF Chased, Theirs
    <3>4. \A h \in n + 1 .. num : GetBlockByHeight(TipOf[p], h) \in Known
      <4> SUFFICES ASSUME NEW h \in n + 1 .. num PROVE GetBlockByHeight(TipOf[p], h) \in Known
        OBVIOUS
      <4>1. h = n + 1 \/ h \in n + 2 .. num OBVIOUS
      <4> QED BY <3>2, <3>3, <4>1
    <3>5. Chased(keeper.orphanNum + 1)' BY <1>14, <1>15, <3>1, <3>3, <3>4 DEF Chased, Theirs
    <3>6. num >= 1 /\ ~(num > max) BY <1>12, <1>13
    <3> QED BY <1>12, <1>14, <3>1, <3>2, <3>5, <3>6 DEF KeepState
  <2>3. CASE /\ ~r.err /\ ~r.isOrphan
             /\ keeper' = [keeper EXCEPT !.pc = "request", !.isOrphan = FALSE, !.num = @ + 1]
    <3>1. keeper'.pc = "request" /\ keeper'.num = num + 1 /\ ~keeper'.isOrphan
      BY <1>0, <1>13, <2>3 DEF KeeperTypes
    <3>2. Passed(num) BY <1>0, <1>2, <1>13, <2>3 DEF KeepCalls
    <3>3. keeper'.peer = keeper.peer BY <1>9, <1>14
    <3>4. Passed(num)' BY <1>15, <3>2, <3>3, PassedStays
    <3>5. (num + 1) - 1 = num /\ num + 1 >= 1 OBVIOUS
    <3>6. Passed(keeper.num - 1)' BY <3>1, <3>4, <3>5
    <3> QED BY <1>12, <1>14, <3>1, <3>5, <3>6 DEF KeepState
  <2> QED BY <1>2, <2>1, <2>2, <2>3
<1> QED BY <1>4, <1>5, <1>6, <1>7, <1>8, <1>10, <1>11, <1>16 DEF SyncInv, KeepInv

-----------------------------------------------------------------------------
(* The fetcher.                                                            *)

\* A step of the fetcher outside ProcessBlock.
LEMMA FetcherAlone ==
  ASSUME SyncInv, UNCHANGED <<chainVars, keeper>>, NetTypes', FetcherTypes',
         fetcher.pc # "insert", fetcher'.pc # "insert"
  PROVE  SyncInv'
<1>0. "fetcher" \in Callers BY SyncAssumption
<1>1. OneCall("fetcher") /\ ~Waits("fetcher") BY DEF SyncInv, FetchInv, Waits
<1>2. NoCall("fetcher") BY <1>0, <1>1, NoCallIdle
<1>3. NoCall("fetcher")' /\ OneCall("fetcher")' BY <1>0, <1>2, NoCallSame DEF chainVars
<1>4. FetchInv' BY <1>3 DEF NoCall, FetchInv, FetcherNeverOrphans
<1> QED BY <1>4, ChainSame, KeepSame DEF SyncInv, chainVars, KeeperTypes

LEMMA TopStep ==
  ASSUME SyncInv, Top
  PROVE  SyncInv'
<1>1. /\ UNCHANGED <<chainVars, netVars, keeper>> /\ fetcher.pc = "top"
      /\ fetcher' = [fetcher EXCEPT !.pc = "import", !.height = HeightOf[best]]
  BY DEF Top, keeperVars
<1>2. HeightOf[best] \in Nat BY TreeAssumption DEF SyncInv, ChainInv, Tree
<1>3. FetcherTypes' BY <1>1, <1>2 DEF SyncInv, FetcherTypes
<1>4. fetcher'.pc # "insert" BY <1>1 DEF SyncInv, FetcherTypes
<1>5. NetTypes' BY <1>1, NetSame DEF SyncInv
<1> QED BY <1>1, <1>3, <1>4, <1>5, FetcherAlone

LEMMA ImportStep ==
  ASSUME SyncInv, Import
  PROVE  SyncInv'
<1>0. NetTypes /\ FetcherTypes /\ ChainInv /\ KeepInv /\ FetchInv BY DEF SyncInv
<1>1. /\ fetcher.pc = "import"
      /\ UNCHANGED <<stored, status, parent, best, mainChain, orphans, job, replies, cut,
                     netVars, keeper>>
  BY DEF Import, keeperVars
<1>2. NetTypes' BY <1>0, <1>1, NetSame
<1>3. CASE fetcher' = [fetcher EXCEPT !.pc = "select"] /\ UNCHANGED calls
  <2>1. FetcherTypes' /\ fetcher'.pc # "insert" BY <1>0, <1>3 DEF FetcherTypes
  <2>2. UNCHANGED <<chainVars, keeper>> BY <1>1, <1>3 DEF chainVars
  <2> QED BY <1>1, <1>2, <2>1, <2>2, FetcherAlone
<1>4. ASSUME NEW b \in Lowest PROVE b \in Blocks /\ fetcher.queue[b] - 1 \in Nat
  BY <1>0, <1>4 DEF Lowest, Queue, FetcherTypes
<1>5. ASSUME NEW b \in Lowest, UNCHANGED calls,
             fetcher' = forgetBlock([fetcher EXCEPT !.queue[b] = @ - 1], b)
      PROVE  SyncInv'
  <2>1. fetcher.queue \in [Blocks -> Nat] BY <1>0 DEF FetcherTypes
  <2>2. [fetcher.queue EXCEPT ![b] = @ - 1] \in [Blocks -> Nat] BY <1>4, <1>5, <2>1
  <2>3. fetcher' = [fetcher EXCEPT !.queue = [fetcher.queue EXCEPT ![b] = @ - 1],
                                   !.queued = @ \ {b}]
    BY <1>0, <1>5 DEF forgetBlock, FetcherTypes
  <2>4. FetcherTypes' /\ fetcher'.pc = "import" BY <1>0, <1>1, <2>2, <2>3 DEF FetcherTypes
  <2>5. UNCHANGED <<chainVars, keeper>> BY <1>1, <1>5 DEF chainVars
  <2>6. fetcher'.pc # "insert" BY <2>4
  <2> QED BY <1>1, <1>2, <2>4, <2>5, <2>6, FetcherAlone
<1>6. ASSUME NEW b \in Lowest, b \notin stored, ParentOf[b] = best, ProcessBlock("fetcher", b),
             fetcher' = [[fetcher EXCEPT !.queue[b] = @ - 1] EXCEPT !.pc = "insert", !.op = b]
      PROVE  SyncInv'
  <2>0. "keeper" \in Callers /\ "fetcher" \in Callers /\ b \in Blocks BY <1>4, <1>6, SyncAssumption
  <2>1. fetcher.queue \in [Blocks -> Nat] BY <1>0 DEF FetcherTypes
  <2>2. [fetcher.queue EXCEPT ![b] = @ - 1] \in [Blocks -> Nat] BY <1>4, <1>6, <2>1
  <2>3. fetcher' = [fetcher EXCEPT !.queue = [fetcher.queue EXCEPT ![b] = @ - 1],
                                   !.pc = "insert", !.op = b]
    BY <1>0, <1>6 DEF FetcherTypes
  <2>4. FetcherTypes' /\ fetcher'.pc = "insert" /\ fetcher'.op = b
    BY <1>0, <2>0, <2>2, <2>3 DEF FetcherTypes
  <2>5. OneCall("fetcher")'
    <3>1. ~Waits("fetcher") /\ Waits("fetcher")' BY <1>1, <2>4 DEF Waits
    <3> QED BY <1>0, <1>1, <1>6, <2>0, <3>1, OneCallAdded DEF FetchInv
  <2>6. OneCall("keeper")'
    <3>1. Waits("keeper")' = Waits("keeper") BY <1>1 DEF Waits
    <3> QED BY <1>0, <1>1, <1>6, <2>0, <3>1, OneCallAdded DEF KeepInv
  <2> DEFINE n == Len(calls)
  <2>7. /\ calls' \in Seq([caller : Callers, block : Blocks])
        /\ n \in Nat /\ Len(calls') = n + 1
        /\ calls'[n + 1].caller = "fetcher" /\ calls'[n + 1].block = b
        /\ \A i \in 1 .. n : calls'[i] = calls[i]
    BY <1>0, <1>6, <2>0, CallAdded
  <2>8. \A i \in 1 .. n + 1 : i = n + 1 \/ i \in 1 .. n BY <2>7
  <2>9. NoCall("fetcher")
    <3>1. ~Waits("fetcher") BY <1>1 DEF Waits
    <3> QED BY <1>0, <2>0, <3>1, NoCallIdle DEF FetchInv
  <2>10. FetchInv'
    <3>1. ASSUME NEW i \in 1 .. Len(calls'), calls'[i].caller = "fetcher"
          PROVE  calls'[i].block = fetcher'.op
      BY <2>4, <2>7, <2>8, <2>9, <3>1 DEF NoCall
    <3>2. fetcher'.op \in Blocks \ {Genesis} /\ ParentOf[fetcher'.op] \in stored'
      BY <1>0, <1>1, <1>6, <2>0, <2>4 DEF ChainInv, Tree
    <3>3. replies'["fetcher"] = {} BY <1>1, <2>9 DEF NoCall
    <3> QED BY <2>5, <3>1, <3>2, <3>3 DEF FetchInv, FetcherNeverOrphans
  <2>11. Known' = Known /\ Final' = Final BY <1>1 DEF Known, Final
  <2>12. KeepState' BY <1>0, <1>1, <2>11, KeepStateStays DEF KeepInv
  <2>13. KeepCalls'
    <3>1. ASSUME NEW i \in 1 .. Len(calls'), calls'[i].caller = "keeper"
          PROVE  calls'[i].block = Theirs(keeper.orphanNum + 1)'
      <4>1. i \in 1 .. n BY <2>7, <2>8, <3>1
      <4> QED BY <1>0, <1>1, <2>7, <3>1, <4>1 DEF KeepInv, KeepCalls, Theirs
    <3>2. \A h : Passed(h) => Passed(h)' BY <1>1, <2>11, PassedStays
    <3> QED BY <1>0, <1>1, <2>11, <3>1, <3>2 DEF KeepInv, KeepCalls, Theirs
  <2>14. ChainInv'
    <3>1. replies' \in [Callers -> SUBSET [isOrphan : BOOLEAN, err : BOOLEAN]]
      BY <1>0, <1>1 DEF ChainInv
    <3> QED BY <1>0, <1>1, <2>7, <3>1, ChainQuiet
  <2>15. KeeperTypes' BY <1>1 DEF SyncInv, KeeperTypes
  <2> QED BY <1>2, <2>4, <2>6, <2>10, <2>12, <2>13, <2>14, <2>15 DEF SyncInv, KeepInv
<1> QED BY <1>3, <1>5, <1>6 DEF Import

LEMMA InsertStep ==
  ASSUME SyncInv, insert
  PROVE  SyncInv'
<1>0. NetTypes /\ FetcherTypes /\ ChainInv /\ KeepInv /\ FetchInv BY DEF SyncInv
<1>1. /\ replies["fetcher"] # {} /\ replies' = [replies EXCEPT !["fetcher"] = {}]
      /\ fetcher' = [fetcher EXCEPT !.pc = "import", !.op = Nil]
      /\ UNCHANGED <<stored, status, parent, best, mainChain, orphans, calls, job, cut,
                     netVars, keeper>>
  BY DEF insert, keeperVars
<1>2. "fetcher" \in Callers /\ "keeper" \in Callers \ {"fetcher"} BY SyncAssumption
<1>3. /\ NoCall("fetcher")' /\ OneCall("fetcher")' /\ replies'["keeper"] = replies["keeper"]
      /\ replies' \in [Callers -> SUBSET [isOrphan : BOOLEAN, err : BOOLEAN]]
  BY <1>0, <1>1, <1>2, ReplyTaken DEF FetchInv
<1>4. FetcherTypes' /\ fetcher'.pc = "import" BY <1>0, <1>1 DEF FetcherTypes
<1>5. FetchInv' BY <1>3, <1>4 DEF NoCall, FetchInv, FetcherNeverOrphans
<1>6. Known' = Known /\ Final' = Final BY <1>1 DEF Known, Final
<1>7. KeepState' BY <1>0, <1>1, <1>6, KeepStateStays DEF KeepInv
<1>8. OneCall("keeper")'
  <2>1. Waits("keeper")' = Waits("keeper") BY <1>1 DEF Waits
  <2> QED BY <1>0, <1>1, <1>2, <1>3, <2>1, OneCallSame DEF KeepInv
<1>9. KeepCalls'
  <2>1. \A h : Passed(h) => Passed(h)' BY <1>1, <1>6, PassedStays
  <2> QED BY <1>0, <1>1, <1>3, <1>6, <2>1 DEF KeepInv, KeepCalls, Theirs
<1>10. ChainInv'
  <2>1. calls' \in Seq([caller : Callers, block : Blocks]) BY <1>0, <1>1 DEF ChainInv
  <2> QED BY <1>0, <1>1, <1>3, <2>1, ChainQuiet
<1>11. NetTypes' BY <1>0, <1>1, NetSame
<1>12. KeeperTypes' BY <1>1 DEF SyncInv, KeeperTypes
<1> QED BY <1>4, <1>5, <1>7, <1>8, <1>9, <1>10, <1>11, <1>12 DEF SyncInv, KeepInv

LEMMA AnnounceStep ==
  ASSUME SyncInv, NEW p \in Peers, NEW b \in Blocks, Announce(p, b)
  PROVE  SyncInv'
<1>0. NetTypes /\ FetcherTypes BY DEF SyncInv
<1>1. /\ fetcher.pc = "select" /\ fetcher' = [enqueue(fetcher, b) EXCEPT !.pc = "top"]
      /\ heights' = [x \in Registered |-> IF x = p THEN HeightOf[b] ELSE heights[x]]
      /\ UNCHANGED <<chainVars, link, dropCh, wire, pendingCh, keeper>>
  BY DEF Announce, keeperVars
<1>2. HeightOf[b] \in Nat BY TreeAssumption
<1>3. Registered' \subseteq Peers /\ heights' \in [Registered' -> Nat]
  BY <1>0, <1>1, <1>2 DEF NetTypes, Registered
<1>4. NetTypes' BY <1>0, <1>1, <1>3 DEF NetTypes
<1>5. enqueue(fetcher, b) \in [pc : {"top", "import", "insert", "select"}, height : Nat,
         op : Blocks \cup {Nil}, queue : [Blocks -> Nat], queued : SUBSET Blocks]
  <2>1. fetcher.queue \in [Blocks -> Nat] BY <1>0 DEF FetcherTypes
  <2>2. [fetcher.queue EXCEPT ![b] = @ + 1] \in [Blocks -> Nat] BY <2>1
  <2>3. \/ enqueue(fetcher, b) = fetcher
        \/ enqueue(fetcher, b) = [fetcher EXCEPT !.queued = @ \cup {b},
                                     !.queue = [fetcher.queue EXCEPT ![b] = @ + 1]]
    BY <1>0 DEF enqueue, FetcherTypes
  <2>4. CASE enqueue(fetcher, b) = fetcher BY <1>0, <2>4 DEF FetcherTypes
  <2>5. CASE enqueue(fetcher, b) = [fetcher EXCEPT !.queued = @ \cup {b},
                                      !.queue = [fetcher.queue EXCEPT ![b] = @ + 1]]
    <3>1. fetcher.queued \cup {b} \in SUBSET Blocks BY <1>0 DEF FetcherTypes
    <3> QED BY <1>0, <2>2, <2>5, <3>1 DEF FetcherTypes
  <2> QED BY <2>3, <2>4, <2>5
<1>6. FetcherTypes' /\ fetcher'.pc # "insert" BY <1>1, <1>5 DEF FetcherTypes
<1> QED BY <1>1, <1>4, <1>6, FetcherAlone

-----------------------------------------------------------------------------
(* The invariant, and what follows from it.                                *)

\* A node that has just started, for the first time or after a crash.
Fresh == (\A c \in Callers : replies[c] = {}) /\ calls = <<>> /\ job = {} /\ NetInit

NetInv == NetTypes /\ KeeperTypes /\ FetcherTypes /\ FetchInv /\ KeepInv

LEMMA FreshNode == Fresh => NetInv
<1> SUFFICES ASSUME Fresh PROVE NetInv OBVIOUS
<1>0. "keeper" \in Callers /\ "fetcher" \in Callers BY SyncAssumption
<1>1. /\ dropCh = <<>> /\ pendingCh = <<>> /\ link = [p \in Peers |-> "off"]
      /\ heights = [p \in {} |-> 0] /\ wire = [p \in Peers |-> <<>>]
      /\ keeper = NoKeeper /\ fetcher = NewFetcher
  BY DEF Fresh, NetInit
<1>2. NetTypes
  <2>1. Registered = {} /\ heights \in [Registered -> Nat] BY <1>1 DEF Registered
  <2>2. wire \in [Peers -> Seq(Nat)] BY <1>1
  <2>3. dropCh \in Seq(Peers) /\ Len(dropCh) = 0 BY <1>1
  <2>4. pendingCh \in Seq([peer : Peers, block : Blocks]) /\ Len(pendingCh) = 0 BY <1>1
  <2>5. 0 <= MaxQuitReq /\ 0 <= MaxPending BY SyncAssumption
  <2>6. link \in [Peers -> {"off", "joining", "on", "leaving", "stopped", "zombie"}] BY <1>1
  <2> QED BY <2>1, <2>2, <2>3, <2>4, <2>5, <2>6 DEF NetTypes
<1>3. KeeperTypes
  <2>1. 0 \in 0 .. MaxRetries BY SyncAssumption
  <2> QED BY <1>1, <2>1 DEF NoKeeper, KeeperTypes
<1>4. FetcherTypes BY <1>1 DEF NewFetcher, FetcherTypes
<1>5. keeper.pc = "idle" /\ ~keeper.whole /\ fetcher.pc = "top" BY <1>1 DEF NoKeeper, NewFetcher
<1>6. Len(calls) = 0 BY DEF Fresh
<1>7. NoCall("keeper") /\ NoCall("fetcher") BY <1>0, <1>6, NoIndex DEF NoCall, Fresh
<1>8. OneCall("keeper") /\ OneCall("fetcher") BY <1>0, <1>7, NoCallIdle
<1>9. FetchInv BY <1>5, <1>7, <1>8 DEF NoCall, FetchInv, FetcherNeverOrphans
<1>10. KeepInv BY <1>5, <1>7, <1>8 DEF NoCall, KeepInv, KeepCalls, KeepState
<1> QED BY <1>2, <1>3, <1>4, <1>9, <1>10 DEF NetInv

LEMMA CrashStep ==
  ASSUME SyncInv, Crash
  PROVE  SyncInv'
<1>1. ChainInv' BY ChainRestarts DEF SyncInv, Crash
<1>2. Fresh' BY DEF Crash, NewChain, NetInit, Fresh
<1>3. NetInv' BY <1>2, FreshNode, PTL
<1> QED BY <1>1, <1>3 DEF SyncInv, NetInv

LEMMA SyncStep ==
  ASSUME SyncInv, [Next]_vars
  PROVE  SyncInv'
<1>1. CASE UNCHANGED vars
  <2>1. UNCHANGED <<chainVars, netVars, keeper, fetcher>>
    BY <1>1 DEF vars, keeperVars, fetcherVars
  <2>2. NetTypes' BY <2>1, NetSame DEF SyncInv
  <2> QED BY <2>1, <2>2, NetAlone
<1>2. ASSUME NEW p \in Peers, AddPeer(p) \/ PeersAdd(p) \/ Answer(p)
                                \/ Leave(p) \/ FailEarly(p) \/ RemovePeer(p)
      PROVE  SyncInv'
  BY <1>2, PeersMove, PeerAnswers
<1>3. CASE Keeper
  BY <1>3, SynchroniseStep, ChooseStep, RequestStep, ResponseStep, RetryStep, TimeoutStep,
     ProcessedStep, FinishStep
  DEF Keeper
<1>4. CASE blockProcesser /\ UNCHANGED <<netVars, keeperVars, fetcherVars>>
  <2>1. UNCHANGED <<netVars, keeper, fetcher>> BY <1>4 DEF keeperVars, fetcherVars
  <2>2. NetTypes' /\ KeeperTypes' /\ FetcherTypes'
    BY <2>1, NetSame DEF SyncInv, KeeperTypes, FetcherTypes
  <2> QED BY <1>4, <2>1, <2>2, ChainMoves, FetchMoves, KeepMoves DEF SyncInv
<1>5. CASE Fetcher BY <1>5, TopStep, ImportStep, InsertStep DEF Fetcher
<1>6. ASSUME NEW p \in Peers, NEW b \in Blocks, Announce(p, b) PROVE SyncInv'
  BY <1>6, AnnounceStep
<1>7. CASE Crash BY <1>7, CrashStep
<1> QED BY <1>1, <1>2, <1>3, <1>4, <1>5, <1>6, <1>7 DEF Next

LEMMA SyncSafe == Spec => []SyncInv
<1>1. Init => SyncInv
  <2> SUFFICES ASSUME Init PROVE SyncInv OBVIOUS
  <2>1. ChainInv BY ChainStarts DEF Init
  <2>2. Fresh BY DEF Init, ChainInit, Fresh
  <2> QED BY <2>1, <2>2, FreshNode DEF SyncInv, NetInv
<1>2. SyncInv /\ [Next]_vars => SyncInv' BY SyncStep
<1> QED BY <1>1, <1>2, PTL DEF Spec

\* Types, for the chain and for synchronisation.  In particular orphanNum, a
\* uint64 from which BlockRequestWorker subtracts one for each orphan, does
\* not pass zero: the genesis block is never asked for.
THEOREM SyncTypesCorrect == Spec => []TypeOK
<1>1. SyncInv => TypeOK
  <2> SUFFICES ASSUME SyncInv PROVE TypeOK OBVIOUS
  <2>1. ChainTypeOK
    <3>1. Index = stored /\ Tree(stored) BY IndexStored DEF SyncInv, ChainInv
    <3>2. parent \in [Index -> Blocks \cup {Nil}]
      <4>1. parent = [b \in stored |-> IF b = Genesis THEN Nil ELSE ParentOf[b]]
        BY <3>1, LoadTree DEF SyncInv, ChainInv
      <4>2. \A b \in stored : b # Genesis => ParentOf[b] \in Blocks BY <3>1 DEF Tree
      <4> QED BY <3>1, <4>1, <4>2
    <3>3. job \subseteq [caller : Callers, tree : SUBSET Blocks, tip : Blocks]
      BY <3>1 DEF SyncInv, ChainInv, JobInv, Tree
    <3> QED BY <3>1, <3>2, <3>3 DEF SyncInv, ChainInv, ChainTypeOK, Tree
  <2> QED BY <2>1 DEF SyncInv, NetTypes, KeeperTypes, FetcherTypes, TypeOK
<1> QED BY <1>1, SyncSafe, PTL

\* DiskRebuildsIndex: at every moment, saves of orphans half done included, the
\* store and the index of the chain agree, so a crash loses nothing of it.
THEOREM DiskAlwaysRebuildsIndex == Spec => []DiskRebuildsIndex
<1>1. SyncInv => DiskRebuildsIndex BY DEF SyncInv, ChainInv, Tree, DiskRebuildsIndex
<1> QED BY <1>1, SyncSafe, PTL

\* MainChainExact: the array that SetMainChain patches is the chain of the best
\* block, whatever blocks are appended, reorganised or loaded again.
THEOREM MainChainAlwaysExact == Spec => []MainChainExact
<1>1. SyncInv => MainChainExact BY DEF SyncInv, ChainInv, Exact, MainChainExact
<1> QED BY <1>1, SyncSafe, PTL

\* OrphansApart: orphans are not indexed, and once blockProcesser is idle none
\* that is valid waits for a block that is saved.
THEOREM OrphansAlwaysApart == Spec => []OrphansApart
<1>1. SyncInv => OrphansApart
  <2> SUFFICES ASSUME SyncInv PROVE OrphansApart OBVIOUS
  <2>1. Index = stored BY IndexStored DEF SyncInv
  <2> QED BY <2>1 DEF SyncInv, ChainInv, OrphansApart
<1> QED BY <1>1, SyncSafe, PTL

\* BestChosen: no saved block is passed over by processBlock, unless an error or
\* a crash came between saving and connecting.
THEOREM BestAlwaysChosen == Spec => []BestChosen
<1>1. SyncInv => BestChosen
  <2> SUFFICES ASSUME SyncInv PROVE BestChosen OBVIOUS
  <2>1. Index = stored BY IndexStored DEF SyncInv
  <2> QED BY <2>1 DEF SyncInv, ChainInv, Settled, BestChosen
<1> QED BY <1>1, SyncSafe, PTL

\* FetcherNeverOrphans: what the fetcher hands over some time after it has seen
\* that the block extends the best one is not taken for an orphan.
THEOREM FetcherNeverMeetsOrphans == Spec => []FetcherNeverOrphans
<1>1. SyncInv => FetcherNeverOrphans BY DEF SyncInv, FetchInv
<1> QED BY <1>1, SyncSafe, PTL

\* SyncReachesPeer: when BlockRequestWorker has gone through all heights, the
\* chain is as high as the peer's was, or heavier than a block of that height.
THEOREM SyncAlwaysReachesPeer == Spec => []SyncReachesPeer
<1>1. SyncInv => SyncReachesPeer
  <2> SUFFICES ASSUME SyncInv, keeper.pc = "finish", keeper.whole, ~cut,
                      ChainOf(keeper.peer) \cap Invalid = {}
               PROVE  \/ HeightOf[best] >= keeper.max
                      \/ \E c \in Index : HeightOf[c] >= keeper.max /\ WorkOf[c] < WorkOf[best]
    BY DEF SyncReachesPeer
  <2>0. ChainInv /\ KeeperTypes /\ KeepState BY DEF SyncInv, KeepInv
  <2>1. Index = stored /\ Tree(stored) /\ best \in stored BY <2>0, IndexStored DEF ChainInv
  <2>2. PICK p \in Peers, num \in Nat, max \in Nat :
          p = keeper.peer /\ num = keeper.num /\ max = keeper.max
    BY <2>0 DEF KeepState, KeeperTypes
  <2>3. num > max /\ Passed(num - 1) BY <2>0, <2>2 DEF KeepState
  <2> DEFINE b == GetBlockByHeight(TipOf[p], num - 1)
  <2>4. b \in Final /\ num - 1 \in 0 .. HeightOf[TipOf[p]]
    BY <2>2, <2>3 DEF Passed, Fine, Theirs
  <2>5. b \in Blocks /\ HeightOf[b] = num - 1 BY <2>4, OnChain
  <2> HIDE DEF b
  <2>6. Settled(b)
    <3>1. CASE job = {} BY <2>0, <2>4, <3>1 DEF ChainInv, Final
    <3>2. ASSUME NEW j \in job PROVE Settled(b)
      BY <2>0, <2>4, <3>2 DEF ChainInv, JobInv, Final
    <3> QED BY <3>1, <3>2
  <2>7. PICK c \in stored : HeightOf[c] >= HeightOf[b] /\ ~Better(c) BY <2>6 DEF Settled
  <2>8. c \in Blocks /\ best \in Blocks BY <2>1, <2>7 DEF Tree
  <2>9. /\ HeightOf[c] \in Nat /\ WorkOf[c] \in Nat
        /\ HeightOf[best] \in Nat /\ WorkOf[best] \in Nat
    BY <2>8, TreeAssumption
  <2>10. HeightOf[c] >= max BY <2>3, <2>5, <2>7, <2>9
  <2>11. HeightOf[c] <= HeightOf[best] \/ WorkOf[c] < WorkOf[best] BY <2>7, <2>9 DEF Better
  <2>12. CASE HeightOf[c] <= HeightOf[best]
    <3>1. HeightOf[best] >= max BY <2>9, <2>10, <2>12
    <3> QED BY <2>2, <3>1
  <2>13. CASE WorkOf[c] < WorkOf[best] BY <2>1, <2>2, <2>7, <2>10, <2>13
  <2> QED BY <2>11, <2>12, <2>13
<1> QED BY <1>1, SyncSafe, PTL
=============================================================================
