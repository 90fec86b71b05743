--------------------------- MODULE AddrBookProofs ---------------------------
(***************************************************************************)
(* Proofs about AddrBook for any addresses, buckets, bucket sizes, keys    *)
(* and hash functions.  Every operation is a composition of a few changes  *)
(* of the book; a lemma for each of them shows that it keeps a book good.  *)
(* The second part shows that AddrBook implements AddrTable.  Both sides   *)
(* of the mapping depend on the lookup map alone, so a lemma per operation *)
(* says what becomes of it; the invariant of the first part is needed for  *)
(* the evictions, which go by the buckets.                                 *)
(***************************************************************************)
EXTENDS AddrBook, TLAPS, FiniteSetTheorems

\* A leaf is tried with SMT and Zenon, and then again with more time.
USE SMT, Zenon, SMTT(40), ZenonT(40), Z3T(40)

GoodBook(bk) == bk \in Books /\ Consistent(bk) /\ Counted(bk)

\* What saveToFile writes is a file, with the addresses of the book.
LEMMA FileFields ==
  ASSUME NEW k \in BookKeys, NEW l \in Lookups, NEW f, f = [key |-> k, addrs |-> l]
  PROVE  f # None /\ f.addrs = l
  BY AddrBookAssumption

LEMMA OfTypeFinite ==
  ASSUME NEW bk, NEW t
  PROVE  /\ OfType(bk, t) \subseteq Addrs
         /\ IsFiniteSet(OfType(bk, t))
         /\ Cardinality(OfType(bk, t)) \in Nat
<1>1. OfType(bk, t) \subseteq Addrs BY DEF OfType, Known
<1> QED BY <1>1, AddrBookAssumption, FS_Subset, FS_CardinalityType

LEMMA GroupKeyInRange ==
  ASSUME NEW a \in Addrs
  PROVE  groupKey(a) \in Groups
<1>1. Subnet[a] \in Groups /\ "local" \in Groups /\ "unroutable" \in Groups
  BY AddrBookAssumption
<1> QED BY <1>1 DEF groupKey

LEMMA CalcNewInRange ==
  ASSUME NEW k \in BookKeys, NEW a \in Addrs, NEW src \in Addrs
  PROVE  calcNewBucket(k, a, src) \in NewBuckets
<1>1. groupKey(a) \in Groups /\ groupKey(src) \in Groups BY GroupKeyInRange
<1>2. NewSlot[k][groupKey(a)][groupKey(src)] \in Slots BY <1>1, AddrBookAssumption
<1> QED BY <1>1, <1>2, AddrBookAssumption DEF calcNewBucket

LEMMA CalcOldInRange ==
  ASSUME NEW k \in BookKeys, NEW a \in Addrs
  PROVE  calcOldBucket(k, a) \in OldBuckets
<1>1. groupKey(a) \in Groups BY GroupKeyInRange
<1>2. OldSlot[k][a] \in Slots BY AddrBookAssumption
<1> QED BY <1>1, <1>2, AddrBookAssumption DEF calcOldBucket

LEMMA NoneIsNoAddress == None \notin KnownAddress
  BY AddrBookAssumption

\* The fields of the books that the changes return.
LEMMA RemoveAllFields ==
  ASSUME NEW bk \in Books, NEW a \in Known(bk)
  PROVE  LET r == removeFromAllBuckets(bk, a)
             isNew == bk.lookup[a].type = "new"
         IN  /\ r \in Books
             /\ r.lookup = [bk.lookup EXCEPT ![a] = None]
             /\ \A b \in NewBuckets : r.new[b] =
                  IF isNew /\ b \in bk.lookup[a].buckets THEN bk.new[b] \ {a} ELSE bk.new[b]
             /\ \A b \in OldBuckets : r.old[b] =
                  IF ~isNew /\ b \in bk.lookup[a].buckets THEN bk.old[b] \ {a} ELSE bk.old[b]
             /\ r.nNew = IF isNew THEN bk.nNew - 1 ELSE bk.nNew
             /\ r.nOld = IF isNew THEN bk.nOld ELSE bk.nOld - 1
  BY DEF removeFromAllBuckets, Books, Lookups, Known

LEMMA RemoveFields ==
  ASSUME NEW bk \in Books, NEW a \in Known(bk), NEW idx \in NewBuckets
  PROVE  LET r == removeFromBucket(bk, a, idx)
             left == bk.lookup[a].buckets \ {idx}
         IN  /\ r \in Books
             /\ r.lookup = [bk.lookup EXCEPT ![a] =
                  IF left = {} THEN None ELSE [bk.lookup[a] EXCEPT !.buckets = left]]
             /\ r.new = [bk.new EXCEPT ![idx] = @ \ {a}]
             /\ r.old = bk.old
             /\ r.nNew = IF left = {} THEN bk.nNew - 1 ELSE bk.nNew
             /\ r.nOld = bk.nOld
  BY DEF removeFromBucket, removeBucketRef, Books, Lookups, Known, KnownAddress

LEMMA PutFields ==
  ASSUME NEW bk \in Books, NEW a \in Addrs, NEW ka \in KnownAddress,
         NEW idx \in NewBuckets
  PROVE  LET r == putInNewBucket(bk, a, ka, idx)
         IN  /\ r \in Books
             /\ r.lookup = [bk.lookup EXCEPT ![a] =
                              [ka EXCEPT !.buckets = ka.buckets \cup {idx}]]
             /\ r.new = [bk.new EXCEPT ![idx] = @ \cup {a}]
             /\ r.old = bk.old
             /\ r.nNew = IF ka.buckets = {} THEN bk.nNew + 1 ELSE bk.nNew
             /\ r.nOld = bk.nOld
  BY DEF putInNewBucket, Books, Lookups, KnownAddress

LEMMA PutOldFields ==
  ASSUME NEW bk \in Books, NEW a \in Addrs, NEW ka \in KnownAddress,
         NEW idx \in OldBuckets
  PROVE  LET r == putInOldBucket(bk, a, ka, idx)
         IN  /\ r \in Books
             /\ r.lookup = [bk.lookup EXCEPT ![a] = [ka EXCEPT !.buckets = {idx}]]
             /\ r.new = bk.new
             /\ r.old = [bk.old EXCEPT ![idx] = @ \cup {a}]
             /\ r.nNew = bk.nNew
             /\ r.nOld = bk.nOld + 1
  BY DEF putInOldBucket, Books, Lookups, KnownAddress

\* Forgetting a known address.
LEMMA RemoveAllGood ==
  ASSUME NEW bk, GoodBook(bk), NEW a \in Known(bk)
  PROVE  /\ GoodBook(removeFromAllBuckets(bk, a))
         /\ Known(removeFromAllBuckets(bk, a)) = Known(bk) \ {a}
<1> DEFINE r == removeFromAllBuckets(bk, a)
           t == bk.lookup[a].type
<1>1. bk \in Books /\ Consistent(bk) /\ Counted(bk) BY DEF GoodBook
<1>2. /\ r \in Books
      /\ r.lookup = [bk.lookup EXCEPT ![a] = None]
      /\ \A b \in NewBuckets : r.new[b] =
           IF t = "new" /\ b \in bk.lookup[a].buckets THEN bk.new[b] \ {a} ELSE bk.new[b]
      /\ \A b \in OldBuckets : r.old[b] =
           IF t # "new" /\ b \in bk.lookup[a].buckets THEN bk.old[b] \ {a} ELSE bk.old[b]
      /\ r.nNew = IF t = "new" THEN bk.nNew - 1 ELSE bk.nNew
      /\ r.nOld = IF t = "new" THEN bk.nOld ELSE bk.nOld - 1
  BY <1>1, RemoveAllFields, Zenon
<1>3. a \in Addrs /\ t \in {"new", "old"} /\ bk.lookup[a] \in KnownAddress
  BY <1>1 DEF Known, Books, Lookups, KnownAddress
<1> HIDE DEF r
<1>4. \A x \in Addrs : r.lookup[x] = IF x = a THEN None ELSE bk.lookup[x]
  BY <1>1, <1>2, <1>3 DEF Books, Lookups
<1>5. Known(r) = Known(bk) \ {a} BY <1>4 DEF Known
<1>6. \A s \in {"new", "old"} : OfType(r, s) = OfType(bk, s) \ {a}
  BY <1>4, <1>5 DEF OfType, Known
<1>7. Consistent(r)
  <2>1. ASSUME NEW b \in NewBuckets
        PROVE  r.new[b] = {x \in OfType(r, "new") : b \in r.lookup[x].buckets}
    <3>1. bk.new[b] = {x \in OfType(bk, "new") : b \in bk.lookup[x].buckets}
      BY <1>1 DEF Consistent
    <3>2. r.new[b] = bk.new[b] \ {a} BY <1>2, <1>3, <3>1, Zenon DEF OfType
    <3> QED BY <1>4, <1>6, <3>1, <3>2 DEF OfType, Known
  <2>2. ASSUME NEW b \in OldBuckets
        PROVE  r.old[b] = {x \in OfType(r, "old") : b \in r.lookup[x].buckets}
    <3>1. bk.old[b] = {x \in OfType(bk, "old") : b \in bk.lookup[x].buckets}
      BY <1>1 DEF Consistent
    <3>2. r.old[b] = bk.old[b] \ {a} BY <1>2, <1>3, <3>1, Zenon DEF OfType
    <3> QED BY <1>4, <1>6, <3>1, <3>2 DEF OfType, Known
  <2>3. ASSUME NEW x \in Known(r)
        PROVE  /\ r.lookup[x].buckets # {}
               /\ r.lookup[x].buckets \subseteq
                    IF r.lookup[x].type = "new" THEN NewBuckets ELSE OldBuckets
    <3>1. x \in Known(bk) /\ r.lookup[x] = bk.lookup[x]
      BY <1>4, <1>5 DEF Known
    <3> QED BY <1>1, <3>1 DEF Consistent
  <2> QED BY <2>1, <2>2, <2>3 DEF Consistent
<1>8. Counted(r)
  <2>1. a \in OfType(bk, t) /\ \A s \in {"new", "old"} : s # t => a \notin OfType(bk, s)
    BY <1>3 DEF OfType
  <2>2. Cardinality(OfType(r, t)) = Cardinality(OfType(bk, t)) - 1
    BY <1>3, <1>6, <2>1, OfTypeFinite, FS_RemoveElement
  <2>3. \A s \in {"new", "old"} : s # t => OfType(r, s) = OfType(bk, s)
    BY <1>6, <2>1
  <2>4. CASE t = "new"
    BY <1>1, <1>2, <2>2, <2>3, <2>4 DEF Counted
  <2>5. CASE t = "old"
    BY <1>1, <1>2, <2>2, <2>3, <2>5 DEF Counted
  <2> QED BY <1>3, <2>4, <2>5
<1> QED BY <1>2, <1>5, <1>7, <1>8 DEF GoodBook, r

\* Taking a new address out of one of its buckets.
LEMMA RemoveGood ==
  ASSUME NEW bk, GoodBook(bk), NEW idx \in NewBuckets, NEW a \in bk.new[idx]
  PROVE  LET r == removeFromBucket(bk, a, idx)
         IN  /\ GoodBook(r)
             /\ \A x \in Addrs : x # a => r.lookup[x] = bk.lookup[x]
             /\ r.lookup[a] = None \/ r.lookup[a] =
                  [bk.lookup[a] EXCEPT !.buckets = bk.lookup[a].buckets \ {idx}]
<1> DEFINE r == removeFromBucket(bk, a, idx)
           left == bk.lookup[a].buckets \ {idx}
<1>1. bk \in Books /\ Consistent(bk) /\ Counted(bk) BY DEF GoodBook
<1>2. a \in OfType(bk, "new") /\ idx \in bk.lookup[a].buckets
  BY <1>1 DEF Consistent
<1>3. a \in Known(bk) /\ a \in Addrs /\ bk.lookup[a] \in KnownAddress
      /\ bk.lookup[a].type = "new"
  BY <1>1, <1>2 DEF OfType, Known, Books, Lookups
<1>4. /\ r \in Books
      /\ r.lookup = [bk.lookup EXCEPT ![a] =
           IF left = {} THEN None ELSE [bk.lookup[a] EXCEPT !.buckets = left]]
      /\ r.new = [bk.new EXCEPT ![idx] = @ \ {a}]
      /\ r.old = bk.old
      /\ r.nNew = IF left = {} THEN bk.nNew - 1 ELSE bk.nNew
      /\ r.nOld = bk.nOld
  BY <1>1, <1>3, RemoveFields
<1> HIDE DEF r
<1>5. /\ \A x \in Addrs : x # a => r.lookup[x] = bk.lookup[x]
      /\ r.lookup[a] = IF left = {} THEN None
                       ELSE [bk.lookup[a] EXCEPT !.buckets = left]
  BY <1>1, <1>3, <1>4, Zenon DEF Books, Lookups
<1>6. left # {} => /\ r.lookup[a] \in KnownAddress /\ r.lookup[a] # None
                   /\ r.lookup[a].type = "new" /\ r.lookup[a].buckets = left
  BY <1>3, <1>5, NoneIsNoAddress DEF KnownAddress
<1>7. \A b \in NewBuckets : r.new[b] = IF b = idx THEN bk.new[b] \ {a} ELSE bk.new[b]
  BY <1>1, <1>4, Zenon DEF Books
<1>8. /\ OfType(r, "new") = IF left = {} THEN OfType(bk, "new") \ {a} ELSE OfType(bk, "new")
      /\ OfType(r, "old") = OfType(bk, "old")
  BY <1>2, <1>3, <1>5, <1>6, Zenon DEF OfType, Known
<1>9. Consistent(r)
  <2>1. ASSUME NEW b \in NewBuckets
        PROVE  r.new[b] = {x \in OfType(r, "new") : b \in r.lookup[x].buckets}
    <3>1. bk.new[b] = {x \in OfType(bk, "new") : b \in bk.lookup[x].buckets}
      BY <1>1 DEF Consistent
    <3>2. OfType(bk, "new") \subseteq Addrs BY DEF OfType, Known
    <3>3. CASE left = {}
      BY <1>5, <1>7, <1>8, <3>1, <3>2, <3>3, Zenon
    <3>4. CASE left # {}
      BY <1>2, <1>5, <1>6, <1>7, <1>8, <3>1, <3>2, <3>4, Zenon
    <3> QED BY <3>3, <3>4
  <2>2. ASSUME NEW b \in OldBuckets
        PROVE  r.old[b] = {x \in OfType(r, "old") : b \in r.lookup[x].buckets}
    <3>1. bk.old[b] = {x \in OfType(bk, "old") : b \in bk.lookup[x].buckets}
      BY <1>1 DEF Consistent
    <3>2. \A x \in OfType(bk, "old") : x \in Addrs /\ x # a
      BY <1>3 DEF OfType, Known
    <3> QED BY <1>4, <1>5, <1>8, <3>1, <3>2
  <2>3. ASSUME NEW x \in Known(r)
        PROVE  /\ r.lookup[x].buckets # {}
               /\ r.lookup[x].buckets \subseteq
                    IF r.lookup[x].type = "new" THEN NewBuckets ELSE OldBuckets
    <3>1. CASE x = a
      <4>1. left # {} BY <1>5, <3>1, <2>3 DEF Known
      <4>2. bk.lookup[a].buckets \subseteq NewBuckets BY <1>1, <1>3 DEF Consistent
      <4> QED BY <1>6, <3>1, <4>1, <4>2
    <3>2. CASE x # a
      <4>1. x \in Known(bk) /\ r.lookup[x] = bk.lookup[x]
        BY <1>5, <2>3, <3>2 DEF Known
      <4> QED BY <1>1, <4>1 DEF Consistent
    <3> QED BY <3>1, <3>2
  <2> QED BY <2>1, <2>2, <2>3 DEF Consistent
<1>10. Counted(r)
  <2>1. CASE left = {}
    <3>1. Cardinality(OfType(r, "new")) = Cardinality(OfType(bk, "new")) - 1
      BY <1>2, <1>8, <2>1, OfTypeFinite, FS_RemoveElement
    <3> QED BY <1>1, <1>4, <1>8, <2>1, <3>1 DEF Counted
  <2>2. CASE left # {}
    BY <1>1, <1>4, <1>8, <2>2 DEF Counted
  <2> QED BY <2>1, <2>2
<1> QED BY <1>4, <1>5, <1>9, <1>10 DEF GoodBook, r

\* Putting a new address into one more bucket, or an unknown one into its first.
LEMMA PutGood ==
  ASSUME NEW bk, GoodBook(bk), NEW a \in Addrs, NEW idx \in NewBuckets,
         NEW ka \in KnownAddress, ka.type = "new",
         \/ a \in Known(bk) /\ ka = bk.lookup[a]
         \/ a \notin Known(bk) /\ ka.buckets = {}
  PROVE  LET r == putInNewBucket(bk, a, ka, idx)
         IN  /\ GoodBook(r)
             /\ \A x \in Addrs : x # a => r.lookup[x] = bk.lookup[x]
             /\ r.lookup[a] = [ka EXCEPT !.buckets = ka.buckets \cup {idx}]
<1> DEFINE r == putInNewBucket(bk, a, ka, idx)
<1>1. bk \in Books /\ Consistent(bk) /\ Counted(bk) BY DEF GoodBook
<1>2. /\ r \in Books
      /\ r.lookup = [bk.lookup EXCEPT ![a] =
                       [ka EXCEPT !.buckets = ka.buckets \cup {idx}]]
      /\ r.new = [bk.new EXCEPT ![idx] = @ \cup {a}]
      /\ r.old = bk.old
      /\ r.nNew = IF ka.buckets = {} THEN bk.nNew + 1 ELSE bk.nNew
      /\ r.nOld = bk.nOld
  BY <1>1, PutFields
<1> HIDE DEF r
<1>3. /\ \A x \in Addrs : x # a => r.lookup[x] = bk.lookup[x]
      /\ r.lookup[a] = [ka EXCEPT !.buckets = ka.buckets \cup {idx}]
  BY <1>1, <1>2 DEF Books, Lookups
<1>4. /\ r.lookup[a] # None
      /\ r.lookup[a].type = "new" /\ r.lookup[a].buckets = ka.buckets \cup {idx}
  BY <1>3, NoneIsNoAddress DEF KnownAddress
<1>5. \A b \in NewBuckets : r.new[b] = IF b = idx THEN bk.new[b] \cup {a} ELSE bk.new[b]
  BY <1>1, <1>2, Zenon DEF Books
<1>6. /\ ka.buckets # {} => a \in OfType(bk, "new")
      /\ ka.buckets = {} => a \notin OfType(bk, "new")
      /\ a \notin OfType(bk, "old")
  BY <1>1 DEF OfType, Known, Consistent
<1>7. /\ OfType(r, "new") = OfType(bk, "new") \cup {a}
      /\ OfType(r, "old") = OfType(bk, "old")
  BY <1>3, <1>4, <1>6, Zenon DEF OfType, Known
<1>8. Consistent(r)
  <2>1. ASSUME NEW b \in NewBuckets
        PROVE  r.new[b] = {x \in OfType(r, "new") : b \in r.lookup[x].buckets}
    <3>1. bk.new[b] = {x \in OfType(bk, "new") : b \in bk.lookup[x].buckets}
      BY <1>1 DEF Consistent
    <3>2. OfType(bk, "new") \subseteq Addrs BY DEF OfType, Known
    <3>3. a \in OfType(bk, "new") => bk.lookup[a] = ka BY DEF OfType
    <3>4. a \in r.new[b] <=> b \in r.lookup[a].buckets
      BY <1>4, <1>5, <1>6, <3>1, <3>3, Zenon
    <3>5. \A x \in Addrs : x # a =>
            (x \in r.new[b] <=> x \in OfType(r, "new") /\ b \in r.lookup[x].buckets)
      BY <1>3, <1>5, <1>7, <3>1
    <3>6. r.new[b] \subseteq Addrs BY <1>5, <3>1, <3>2, Zenon
    <3> QED BY <1>7, <3>2, <3>4, <3>5, <3>6
  <2>2. ASSUME NEW b \in OldBuckets
        PROVE  r.old[b] = {x \in OfType(r, "old") : b \in r.lookup[x].buckets}
    <3>1. bk.old[b] = {x \in OfType(bk, "old") : b \in bk.lookup[x].buckets}
      BY <1>1 DEF Consistent
    <3>2. \A x \in OfType(bk, "old") : x \in Addrs /\ x # a
      BY <1>6 DEF OfType, Known
    <3> QED BY <1>2, <1>3, <1>7, <3>1, <3>2
  <2>3. ASSUME NEW x \in Known(r)
        PROVE  /\ r.lookup[x].buckets # {}
               /\ r.lookup[x].buckets \subseteq
                    IF r.lookup[x].type = "new" THEN NewBuckets ELSE OldBuckets
    <3>1. CASE x = a
      <4>1. ka.buckets \subseteq NewBuckets BY <1>1 DEF Consistent
      <4> QED BY <1>4, <3>1, <4>1
    <3>2. CASE x # a
      <4>1. x \in Known(bk) /\ r.lookup[x] = bk.lookup[x]
        BY <1>3, <2>3, <3>2 DEF Known
      <4> QED BY <1>1, <4>1 DEF Consistent
    <3> QED BY <3>1, <3>2
  <2> QED BY <2>1, <2>2, <2>3 DEF Consistent
<1>9. Counted(r)
  <2>1. Cardinality(OfType(r, "new")) =
          IF ka.buckets = {} THEN Cardinality(OfType(bk, "new")) + 1
                             ELSE Cardinality(OfType(bk, "new"))
    BY <1>6, <1>7, OfTypeFinite, FS_AddElement
  <2> QED BY <1>1, <1>2, <1>7, <2>1 DEF Counted
<1> QED BY <1>2, <1>3, <1>8, <1>9 DEF GoodBook, r

\* Putting an address that is in no bucket into an old one.
LEMMA PutOldGood ==
  ASSUME NEW bk, GoodBook(bk), NEW a \in Addrs, NEW idx \in OldBuckets,
         NEW ka \in KnownAddress, ka.type = "old", a \notin Known(bk)
  PROVE  LET r == putInOldBucket(bk, a, ka, idx)
         IN  /\ GoodBook(r)
             /\ \A x \in Addrs : x # a => r.lookup[x] = bk.lookup[x]
             /\ r.lookup[a] = [ka EXCEPT !.buckets = {idx}]
<1> DEFINE r == putInOldBucket(bk, a, ka, idx)
<1>1. bk \in Books /\ Consistent(bk) /\ Counted(bk) BY DEF GoodBook
<1>2. /\ r \in Books
      /\ r.lookup = [bk.lookup EXCEPT ![a] = [ka EXCEPT !.buckets = {idx}]]
      /\ r.new = bk.new
      /\ r.old = [bk.old EXCEPT ![idx] = @ \cup {a}]
      /\ r.nNew = bk.nNew
      /\ r.nOld = bk.nOld + 1
  BY <1>1, PutOldFields
<1> HIDE DEF r
<1>3. /\ \A x \in Addrs : x # a => r.lookup[x] = bk.lookup[x]
      /\ r.lookup[a] = [ka EXCEPT !.buckets = {idx}]
  BY <1>1, <1>2 DEF Books, Lookups
<1>4. /\ r.lookup[a] # None
      /\ r.lookup[a].type = "old" /\ r.lookup[a].buckets = {idx}
  BY <1>3, NoneIsNoAddress DEF KnownAddress
<1>5. \A b \in OldBuckets : r.old[b] = IF b = idx THEN bk.old[b] \cup {a} ELSE bk.old[b]
  BY <1>1, <1>2 DEF Books
<1>6. a \notin OfType(bk, "new") /\ a \notin OfType(bk, "old") BY DEF OfType
<1>7. /\ OfType(r, "new") = OfType(bk, "new")
      /\ OfType(r, "old") = OfType(bk, "old") \cup {a}
  BY <1>3, <1>4, <1>6, Zenon DEF OfType, Known
<1>8. Consistent(r)
  <2>1. ASSUME NEW b \in NewBuckets
        PROVE  r.new[b] = {x \in OfType(r, "new") : b \in r.lookup[x].buckets}
    <3>1. bk.new[b] = {x \in OfType(bk, "new") : b \in bk.lookup[x].buckets}
      BY <1>1 DEF Consistent
    <3>2. \A x \in OfType(bk, "new") : x \in Addrs /\ x # a
      BY <1>6 DEF OfType, Known
    <3> QED BY <1>2, <1>3, <1>7, <3>1, <3>2
  <2>2. ASSUME NEW b \in OldBuckets
        PROVE  r.old[b] = {x \in OfType(r, "old") : b \in r.lookup[x].buckets}
    <3>1. bk.old[b] = {x \in OfType(bk, "old") : b \in bk.lookup[x].buckets}
      BY <1>1 DEF Consistent
    <3>2. \A x \in OfType(bk, "old") : x \in Addrs /\ x # a
      BY <1>6 DEF OfType, Known
    <3>3. a \in r.old[b] <=> b \in r.lookup[a].buckets
      BY <1>4, <1>5, <1>6, <3>1, Zenon
    <3>4. \A x \in Addrs : x # a =>
            (x \in r.old[b] <=> x \in OfType(r, "old") /\ b \in r.lookup[x].buckets)
      <4> TAKE x \in Addrs
      <4> HAVE x # a
      <4>1. x \in r.old[b] <=> x \in bk.old[b] BY <1>5, Zenon
      <4>2. x \in OfType(r, "old") <=> x \in OfType(bk, "old") BY <1>7
      <4>3. r.lookup[x] = bk.lookup[x] BY <1>3
      <4> QED BY <3>1, <4>1, <4>2, <4>3
    <3>5. r.old[b] \subseteq Addrs BY <1>5, <3>1, <3>2, Zenon
    <3> QED BY <1>7, <3>2, <3>3, <3>4, <3>5
  <2>3. ASSUME NEW x \in Known(r)
        PROVE  /\ r.lookup[x].buckets # {}
               /\ r.lookup[x].buckets \subseteq
                    IF r.lookup[x].type = "new" THEN NewBuckets ELSE OldBuckets
    <3>1. CASE x = a BY <1>4, <3>1
    <3>2. CASE x # a
      <4>1. x \in Known(bk) /\ r.lookup[x] = bk.lookup[x]
        BY <1>3, <2>3, <3>2 DEF Known
      <4> QED BY <1>1, <4>1 DEF Consistent
    <3> QED BY <3>1, <3>2
  <2> QED BY <2>1, <2>2, <2>3 DEF Consistent
<1>9. Counted(r)
  <2>1. Cardinality(OfType(r, "old")) = Cardinality(OfType(bk, "old")) + 1
    BY <1>6, <1>7, OfTypeFinite, FS_AddElement
  <2> QED BY <1>1, <1>2, <1>7, <2>1 DEF Counted
<1> QED BY <1>2, <1>3, <1>8, <1>9 DEF GoodBook, r

\* Changing the times and attempts of a known address.
LEMMA UpdateGood ==
  ASSUME NEW bk, GoodBook(bk), NEW a \in Known(bk), NEW ka \in KnownAddress,
         ka.type = bk.lookup[a].type, ka.buckets = bk.lookup[a].buckets
  PROVE  LET r == [bk EXCEPT !.lookup[a] = ka]
         IN  /\ GoodBook(r)
             /\ \A x \in Addrs : r.lookup[x] = IF x = a THEN ka ELSE bk.lookup[x]
<1> DEFINE r == [bk EXCEPT !.lookup[a] = ka]
<1>1. bk \in Books /\ Consistent(bk) /\ Counted(bk) BY DEF GoodBook
<1>2. a \in Addrs /\ bk.lookup[a] # None BY DEF Known
<1>3. /\ r \in Books
      /\ r.lookup = [bk.lookup EXCEPT ![a] = ka]
      /\ r.new = bk.new /\ r.old = bk.old /\ r.nNew = bk.nNew /\ r.nOld = bk.nOld
  BY <1>1, <1>2 DEF Books, Lookups
<1> HIDE DEF r
<1>4. \A x \in Addrs : r.lookup[x] = IF x = a THEN ka ELSE bk.lookup[x]
  BY <1>1, <1>2, <1>3 DEF Books, Lookups
<1>5. Known(r) = Known(bk)
  BY <1>2, <1>4, NoneIsNoAddress DEF Known
<1>6. \A t : OfType(r, t) = OfType(bk, t)
  BY <1>4, <1>5 DEF OfType, Known
<1>7. \A x \in Known(bk) : /\ x \in Addrs
                           /\ r.lookup[x].buckets = bk.lookup[x].buckets
                           /\ r.lookup[x].type = bk.lookup[x].type
  BY <1>4 DEF Known
<1>8. Consistent(r)
  <2>1. \A b \in NewBuckets :
          r.new[b] = {x \in OfType(r, "new") : b \in r.lookup[x].buckets}
    <3> TAKE b \in NewBuckets
    <3>1. bk.new[b] = {x \in OfType(bk, "new") : b \in bk.lookup[x].buckets}
      BY <1>1 DEF Consistent
    <3>2. \A x \in OfType(bk, "new") : r.lookup[x].buckets = bk.lookup[x].buckets
      BY <1>7 DEF OfType
    <3> QED BY <1>3, <1>6, <3>1, <3>2
  <2>2. \A b \in OldBuckets :
          r.old[b] = {x \in OfType(r, "old") : b \in r.lookup[x].buckets}
    <3> TAKE b \in OldBuckets
    <3>1. bk.old[b] = {x \in OfType(bk, "old") : b \in bk.lookup[x].buckets}
      BY <1>1 DEF Consistent
    <3>2. \A x \in OfType(bk, "old") : r.lookup[x].buckets = bk.lookup[x].buckets
      BY <1>7 DEF OfType
    <3> QED BY <1>3, <1>6, <3>1, <3>2
  <2> QED BY <1>1, <1>5, <1>7, <2>1, <2>2 DEF Consistent
<1> QED BY <1>1, <1>3, <1>4, <1>6, <1>8 DEF GoodBook, Counted, r

\* The addresses of a good book are what a file may hold.
ValidLookup(l) ==
    /\ l \in Lookups
    /\ \A a \in Addrs : l[a] # None =>
         /\ l[a].buckets # {}
         /\ l[a].buckets \subseteq IF l[a].type = "new" THEN NewBuckets ELSE OldBuckets

LEMMA GoodIsValid ==
  ASSUME NEW bk, GoodBook(bk)
  PROVE  ValidLookup(bk.lookup)
  BY DEF GoodBook, Books, ValidLookup, Consistent, Known

\* loadFromFile builds a good book from them.
LEMMA LoadGood ==
  ASSUME NEW l, ValidLookup(l)
  PROVE  GoodBook(loadFromFile(l)) /\ loadFromFile(l).lookup = l
<1> DEFINE r == loadFromFile(l)
           typed(t) == {a \in Addrs : l[a] # None /\ l[a].type = t}
<1>1. /\ r.lookup = l
      /\ r.new = [b \in NewBuckets |-> {a \in typed("new") : b \in l[a].buckets}]
      /\ r.old = [b \in OldBuckets |-> {a \in typed("old") : b \in l[a].buckets}]
      /\ r.nNew = Cardinality(typed("new"))
      /\ r.nOld = Cardinality(typed("old"))
      /\ r = [lookup |-> r.lookup, new |-> r.new, old |-> r.old,
              nNew |-> r.nNew, nOld |-> r.nOld]
  BY DEF loadFromFile
<1> HIDE DEF r, typed
<1>2. \A t \in {"new", "old"} : typed(t) = OfType(r, t)
  <2>1. r.lookup = l BY <1>1
  <2>2. ASSUME NEW t PROVE typed(t) = OfType(r, t) BY <2>1 DEF typed, OfType, Known
  <2> QED BY <2>2
<1>3. r.nNew \in Int /\ r.nOld \in Int BY <1>1, <1>2, OfTypeFinite
<1>4. r.new \in [NewBuckets -> SUBSET Addrs] /\ r.old \in [OldBuckets -> SUBSET Addrs]
  BY <1>1 DEF typed
<1>5. r \in Books BY <1>1, <1>3, <1>4 DEF Books, ValidLookup
<1>6. Counted(r) BY <1>1, <1>2 DEF Counted
<1>7. Consistent(r)
  <2>1. \A b \in NewBuckets :
          r.new[b] = {x \in OfType(r, "new") : b \in r.lookup[x].buckets}
    BY <1>1, <1>2
  <2>2. \A b \in OldBuckets :
          r.old[b] = {x \in OfType(r, "old") : b \in r.lookup[x].buckets}
    BY <1>1, <1>2
  <2>3. \A a \in Known(r) :
          /\ r.lookup[a].buckets # {}
          /\ r.lookup[a].buckets \subseteq
               IF r.lookup[a].type = "new" THEN NewBuckets ELSE OldBuckets
    BY <1>1 DEF ValidLookup, Known
  <2> QED BY <2>1, <2>2, <2>3 DEF Consistent
<1> QED BY <1>1, <1>5, <1>6, <1>7 DEF GoodBook, r

-----------------------------------------------------------------------------
\* Where the addresses of a book with key k may be, and what a file holds.
Placed(l, k) ==
    \A a \in Addrs : l[a] # None =>
      /\ l[a].type = "old" => l[a].buckets = {calcOldBucket(k, a)}
      /\ l[a].type = "new" => l[a].success = Never

FileOK == file # None => ValidLookup(file.addrs) /\ Placed(file.addrs, file.key)

IInv == TypeOK /\ GoodBook(book) /\ Placed(book.lookup, key) /\ FileOK

LEMMA EmptyGood ==
  ASSUME NEW k
  PROVE  GoodBook(EmptyBook) /\ Placed(EmptyBook.lookup, k)
<1> DEFINE e == EmptyBook
<1>1. /\ e.lookup = [a \in Addrs |-> None]
      /\ e.new = [b \in NewBuckets |-> {}]
      /\ e.old = [b \in OldBuckets |-> {}]
      /\ e.nNew = 0 /\ e.nOld = 0
      /\ e \in Books
  BY DEF EmptyBook, Books, Lookups
<1> HIDE DEF e
<1>2. Known(e) = {} BY <1>1 DEF Known
<1>3. \A t : OfType(e, t) = {} BY <1>2 DEF OfType
<1>4. Consistent(e) BY <1>1, <1>2, <1>3 DEF Consistent
<1>5. Counted(e) BY <1>1, <1>3, FS_EmptySet DEF Counted
<1>6. Placed(e.lookup, k) BY <1>1 DEF Placed
<1> QED BY <1>1, <1>4, <1>5, <1>6 DEF GoodBook, e

LEMMA InitIInv == Init => IInv
<1> SUFFICES ASSUME Init PROVE IInv OBVIOUS
<1>1. book = EmptyBook BY DEF Init
<1>2. GoodBook(book) /\ Placed(book.lookup, key) BY <1>1, EmptyGood
<1>3. TypeOK BY <1>2 DEF Init, TypeOK, GoodBook
<1> QED BY <1>2, <1>3 DEF IInv, Init, FileOK

LEMMA AddAddressIInv ==
  ASSUME IInv, NEW a \in Addrs, NEW src \in Addrs, AddAddress(a, src)
  PROVE  GoodBook(book') /\ Placed(book'.lookup, key)
<1> DEFINE ka == IF a \in Known(book) THEN book.lookup[a] ELSE newKnownAddress
           idx == calcNewBucket(key, a, src)
<1>1. /\ ka.type = "new"
      /\ book' \in addToNewBucket(book, a, ka, idx)
  BY DEF AddAddress
<1>2. idx \in NewBuckets BY CalcNewInRange DEF IInv, TypeOK
<1>3. GoodBook(book) /\ Placed(book.lookup, key) BY DEF IInv
<1>4. newKnownAddress \in KnownAddress
  BY AddrBookAssumption DEF IInv, TypeOK, newKnownAddress, KnownAddress, Never
<1>5. ka \in KnownAddress
  BY <1>4 DEF IInv, TypeOK, Books, Lookups, Known
<1>6. \/ a \in Known(book) /\ ka = book.lookup[a]
      \/ a \notin Known(book) /\ ka.buckets = {}
  BY DEF newKnownAddress
<1>7. ka.success = Never
  BY <1>1, <1>3 DEF Known, Placed, newKnownAddress
<1> HIDE DEF ka, idx
<1>8. CASE a \in book.new[idx]
  BY <1>1, <1>3, <1>8 DEF addToNewBucket
<1>9. CASE a \notin book.new[idx]
  <2>1. PICK roomy : /\ book' = putInNewBucket(roomy, a, ka, idx)
                     /\ roomy = book \/ roomy \in expireNew(book, idx)
    BY <1>1, <1>9 DEF addToNewBucket
  <2>2. /\ GoodBook(roomy) /\ Placed(roomy.lookup, key)
        /\ roomy.lookup[a] = book.lookup[a]
    <3>1. CASE roomy = book BY <1>3, <3>1
    <3>2. CASE roomy \in expireNew(book, idx)
      <4>1. PICK x \in book.new[idx] : roomy = removeFromBucket(book, x, idx)
        BY <3>2 DEF expireNew, Evictable
      <4>2. /\ GoodBook(roomy)
            /\ \A y \in Addrs : y # x => roomy.lookup[y] = book.lookup[y]
            /\ roomy.lookup[x] = None \/ roomy.lookup[x] =
                 [book.lookup[x] EXCEPT !.buckets = book.lookup[x].buckets \ {idx}]
        BY <1>2, <1>3, <4>1, RemoveGood
      <4>3. x # a BY <1>9
      <4>4. x \in Addrs /\ book.lookup[x] # None /\ book.lookup[x].type = "new"
        BY <1>2, <1>3 DEF GoodBook, Consistent, OfType, Known
      <4>5. book.lookup[x] \in KnownAddress /\ book.lookup[x].success = Never
        BY <1>3, <4>4 DEF GoodBook, Books, Lookups, Placed
      <4>6. roomy.lookup[x] # None => roomy.lookup[x].type = "new"
                                      /\ roomy.lookup[x].success = Never
        BY <4>2, <4>4, <4>5 DEF KnownAddress
      <4>7. Placed(roomy.lookup, key)
        BY <1>3, <4>2, <4>6 DEF Placed
      <4> QED BY <4>2, <4>3, <4>7
    <3> QED BY <2>1, <3>1, <3>2
  <2>3. \/ a \in Known(roomy) /\ ka = roomy.lookup[a]
        \/ a \notin Known(roomy) /\ ka.buckets = {}
    BY <1>6, <2>2 DEF Known
  <2>4. /\ GoodBook(book')
        /\ \A x \in Addrs : x # a => book'.lookup[x] = roomy.lookup[x]
        /\ book'.lookup[a] = [ka EXCEPT !.buckets = ka.buckets \cup {idx}]
    BY <1>1, <1>2, <1>5, <2>1, <2>2, <2>3, PutGood
  <2>5. book'.lookup[a].type = "new" /\ book'.lookup[a].success = Never
    BY <1>1, <1>5, <1>7, <2>4 DEF KnownAddress
  <2> QED BY <2>2, <2>4, <2>5, Zenon DEF Placed
<1> QED BY <1>8, <1>9

\* removeFromAllBuckets keeps the places of the others.
LEMMA RemoveAllPlaced ==
  ASSUME NEW bk, GoodBook(bk), NEW a \in Known(bk), NEW k, Placed(bk.lookup, k)
  PROVE  LET r == removeFromAllBuckets(bk, a)
         IN  GoodBook(r) /\ Placed(r.lookup, k) /\ a \notin Known(r)
<1> DEFINE r == removeFromAllBuckets(bk, a)
<1>1. GoodBook(r) /\ a \notin Known(r) BY RemoveAllGood
<1>2. bk \in Books BY DEF GoodBook
<1>3. r.lookup = [bk.lookup EXCEPT ![a] = None] BY <1>2, RemoveAllFields
<1>4. bk.lookup \in Lookups BY <1>2 DEF Books
<1> HIDE DEF r
<1>5. \A x \in Addrs : r.lookup[x] # None => r.lookup[x] = bk.lookup[x]
  BY <1>3, <1>4 DEF Lookups
<1>6. Placed(r.lookup, k) BY <1>5 DEF Placed
<1> QED BY <1>1, <1>6 DEF r

LEMMA MarkGoodIInv ==
  ASSUME IInv, NEW a \in Addrs, MarkGood(a)
  PROVE  GoodBook(book') /\ Placed(book'.lookup, key)
<1> DEFINE ka == markGood(book.lookup[a])
<1>1. a \in Known(book) BY DEF MarkGood
<1>2. GoodBook(book) /\ Placed(book.lookup, key) BY DEF IInv
<1>3. book.lookup[a] \in KnownAddress
  BY <1>1 DEF IInv, TypeOK, Books, Lookups, Known
<1>4. /\ ka \in KnownAddress
      /\ ka.type = book.lookup[a].type /\ ka.buckets = book.lookup[a].buckets
  BY <1>3 DEF IInv, TypeOK, markGood, KnownAddress
<1>5. book' = IF ka.type = "new" THEN moveToOld(book, a, ka)
                                 ELSE [book EXCEPT !.lookup[a] = ka]
  BY DEF MarkGood
<1> HIDE DEF ka
<1>6. CASE ka.type = "new"
  <2> DEFINE bare == removeFromAllBuckets(book, a)
             kb == [ka EXCEPT !.type = "old"]
             idx == calcOldBucket(key, a)
  <2>1. GoodBook(bare) /\ Placed(bare.lookup, key) /\ a \notin Known(bare)
    BY <1>1, <1>2, RemoveAllPlaced
  <2>2. kb \in KnownAddress /\ kb.type = "old"
    BY <1>4 DEF KnownAddress
  <2>3. idx \in OldBuckets BY CalcOldInRange DEF IInv, TypeOK
  <2>4. book' = addToOldBucket(bare, a, kb, idx) BY <1>5, <1>6 DEF moveToOld
  <2>5. book' = bare \/ book' = putInOldBucket(bare, a, kb, idx)
    BY <2>4 DEF addToOldBucket
  <2> HIDE DEF bare, kb
  <2>6. CASE book' = bare BY <2>1, <2>6
  <2>7. CASE book' = putInOldBucket(bare, a, kb, idx)
    <3> HIDE DEF idx
    <3>1. /\ GoodBook(book')
          /\ \A x \in Addrs : x # a => book'.lookup[x] = bare.lookup[x]
          /\ book'.lookup[a] = [kb EXCEPT !.buckets = {idx}]
      BY <2>1, <2>2, <2>3, <2>7, PutOldGood
    <3>2. book'.lookup[a].type = "old" /\ book'.lookup[a].buckets = {idx}
      BY <2>2, <3>1 DEF KnownAddress
    <3> QED BY <2>1, <3>1, <3>2, Zenon DEF Placed, idx
  <2> QED BY <2>5, <2>6, <2>7
<1>7. CASE ka.type # "new"
  <2>1. book' = [book EXCEPT !.lookup[a] = ka] BY <1>5, <1>7
  <2>2. /\ GoodBook(book')
        /\ \A x \in Addrs : book'.lookup[x] = IF x = a THEN ka ELSE book.lookup[x]
    BY <1>1, <1>2, <1>4, <2>1, UpdateGood
  <2>3. book.lookup[a] # None BY <1>1 DEF Known
  <2> QED BY <1>2, <1>4, <1>7, <2>2, <2>3 DEF Placed
<1> QED BY <1>6, <1>7

LEMMA MarkAttemptIInv ==
  ASSUME IInv, NEW a \in Addrs, MarkAttempt(a)
  PROVE  GoodBook(book') /\ Placed(book'.lookup, key)
<1> DEFINE ka == markAttempt(book.lookup[a])
<1>1. a \in Known(book) /\ book.lookup[a] # None BY DEF MarkAttempt, Known
<1>2. GoodBook(book) /\ Placed(book.lookup, key) BY DEF IInv
<1>3. book.lookup[a] \in KnownAddress
  BY <1>1 DEF IInv, TypeOK, Books, Lookups
<1>4. /\ ka \in KnownAddress /\ ka.success = book.lookup[a].success
      /\ ka.type = book.lookup[a].type /\ ka.buckets = book.lookup[a].buckets
  BY <1>3 DEF IInv, TypeOK, markAttempt, KnownAddress
<1>5. book' = [book EXCEPT !.lookup[a] = ka] BY DEF MarkAttempt
<1> HIDE DEF ka
<1>6. /\ GoodBook(book')
      /\ \A x \in Addrs : book'.lookup[x] = IF x = a THEN ka ELSE book.lookup[x]
  BY <1>1, <1>2, <1>4, <1>5, UpdateGood
<1> QED BY <1>1, <1>2, <1>4, <1>6 DEF Placed

LEMMA StepIInv == IInv /\ [Next]_vars => IInv'
<1> SUFFICES ASSUME IInv, [Next]_vars PROVE IInv' OBVIOUS
<1>0. GoodBook(book) /\ Placed(book.lookup, key) /\ FileOK /\ TypeOK BY DEF IInv
<1>1. ASSUME GoodBook(book'), Placed(book'.lookup, key),
             UNCHANGED <<key, file>>, ourAddrs' \subseteq Addrs, now' \in Int,
             delSelf' \in {"idle", "between", "done"}
      PROVE  IInv'
  <2>1. TypeOK' BY <1>0, <1>1 DEF TypeOK, GoodBook
  <2>2. FileOK' BY <1>0, <1>1 DEF FileOK
  <2> QED BY <1>1, <2>1, <2>2 DEF IInv
<1>2. ASSUME NEW a \in Addrs, NEW src \in Addrs, AddAddress(a, src) PROVE IInv'
  BY <1>0, <1>1, <1>2, AddAddressIInv DEF AddAddress, TypeOK
<1>3. ASSUME NEW a \in Addrs, MarkGood(a) PROVE IInv'
  BY <1>0, <1>1, <1>3, MarkGoodIInv DEF MarkGood, TypeOK
<1>4. ASSUME NEW a \in Addrs, MarkAttempt(a) PROVE IInv'
  BY <1>0, <1>1, <1>4, MarkAttemptIInv DEF MarkAttempt, TypeOK
<1>5. CASE DelSelfRemove
  <2>1. GoodBook(book') /\ Placed(book'.lookup, key)
    BY <1>0, <1>5, RemoveAllPlaced DEF DelSelfRemove, Without
  <2> QED BY <1>0, <1>1, <1>5, <2>1 DEF DelSelfRemove, TypeOK
<1>6. CASE DelSelfAddOurs
  BY <1>0, <1>1, <1>6, AddrBookAssumption DEF DelSelfAddOurs, TypeOK
<1>7. CASE SaveToFile
  <2>1. ValidLookup(book.lookup) BY <1>0, GoodIsValid
  <2>2. /\ file' = [key |-> key, addrs |-> book.lookup]
        /\ UNCHANGED <<key, book, ourAddrs, now, delSelf>>
    BY <1>7 DEF SaveToFile
  <2>3. TypeOK' BY <1>0, <2>1, <2>2 DEF TypeOK, ValidLookup
  <2>4. FileOK' BY <1>0, <2>1, <2>2 DEF FileOK
  <2> QED BY <1>0, <2>2, <2>3, <2>4 DEF IInv
<1>8. CASE Restart
  <2>0. /\ UNCHANGED <<file, now>> /\ ourAddrs' = {} /\ delSelf' = "idle"
        /\ FileOK'
    BY <1>0, <1>8 DEF Restart, FileOK
  <2>1. CASE file = None
    <3>1. key' \in BookKeys /\ book' = EmptyBook BY <1>8, <2>1 DEF Restart
    <3>2. GoodBook(EmptyBook) /\ Placed(EmptyBook.lookup, key') BY EmptyGood
    <3>3. TypeOK' BY <1>0, <2>0, <3>1, <3>2 DEF TypeOK, GoodBook
    <3> QED BY <2>0, <3>1, <3>2, <3>3 DEF IInv
  <2>2. CASE file # None
    <3>1. key' = file.key /\ book' = loadFromFile(file.addrs)
      BY <1>8, <2>2 DEF Restart
    <3>2. ValidLookup(file.addrs) /\ Placed(file.addrs, file.key)
      BY <1>0, <2>2 DEF FileOK
    <3>3. GoodBook(book') /\ book'.lookup = file.addrs BY <3>1, <3>2, LoadGood
    <3>4. key' \in BookKeys BY <1>0, <2>2, <3>1 DEF TypeOK
    <3>5. TypeOK' BY <1>0, <2>0, <3>3, <3>4 DEF TypeOK, GoodBook
    <3> QED BY <2>0, <3>1, <3>2, <3>3, <3>5 DEF IInv
  <2> QED BY <2>1, <2>2
<1>9. CASE Tick
  BY <1>0, <1>1, <1>9 DEF Tick, TypeOK
<1>10. CASE UNCHANGED vars
  BY <1>0, <1>1, <1>10 DEF vars, TypeOK
<1> QED BY <1>2, <1>3, <1>4, <1>5, <1>6, <1>7, <1>8, <1>9, <1>10 DEF Next

LEMMA AlwaysIInv == Spec => []IInv
  BY InitIInv, StepIInv, PTL DEF Spec

\* Buckets and bucket lists agree, and every known address has a bucket.
THEOREM BucketsAlwaysConsistent == Spec => [](TypeOK /\ BucketsConsistent)
<1>1. IInv => TypeOK /\ BucketsConsistent BY DEF IInv, GoodBook, BucketsConsistent
<1> QED BY <1>1, AlwaysIInv, PTL

\* nNew and nOld count the known addresses, so the loops of PickAddress and
\* GetSelection over them end.
THEOREM CountsAlwaysExact == Spec => []CountsExact
<1>1. IInv => CountsExact BY DEF IInv, GoodBook, CountsExact
<1> QED BY <1>1, AlwaysIInv, PTL

\* The loop of PickAddress ends and the draws of GetSelection stay in range.
THEOREM ReadersAlwaysReturn == Spec => []ReadersReturn
<1>1. ASSUME IInv PROVE ReadersReturn
  <2>1. GoodBook(book) BY <1>1 DEF IInv
  <2>2. book.nOld # 0 => PickAddress(TRUE) # {}
    <3> SUFFICES ASSUME book.nOld # 0 PROVE PickAddress(TRUE) # {} OBVIOUS
    <3>1. OfType(book, "old") # {} BY <2>1, FS_EmptySet DEF GoodBook, Counted
    <3>2. PICK a \in OfType(book, "old") : TRUE BY <3>1
    <3>3. a \in Known(book) /\ book.lookup[a].type = "old" BY <3>2 DEF OfType
    <3>4. PICK b \in book.lookup[a].buckets : b \in OldBuckets
      BY <2>1, <3>3 DEF GoodBook, Consistent
    <3>5. a \in book.old[b] BY <2>1, <3>2, <3>4 DEF GoodBook, Consistent
    <3> QED BY <3>4, <3>5 DEF PickAddress
  <2>3. book.nNew # 0 => PickAddress(FALSE) # {}
    <3> SUFFICES ASSUME book.nNew # 0 PROVE PickAddress(FALSE) # {} OBVIOUS
    <3>1. OfType(book, "new") # {} BY <2>1, FS_EmptySet DEF GoodBook, Counted
    <3>2. PICK a \in OfType(book, "new") : TRUE BY <3>1
    <3>3. a \in Known(book) /\ book.lookup[a].type = "new" BY <3>2 DEF OfType
    <3>4. PICK b \in book.lookup[a].buckets : b \in NewBuckets
      BY <2>1, <3>3 DEF GoodBook, Consistent
    <3>5. a \in book.new[b] BY <2>1, <3>2, <3>4 DEF GoodBook, Consistent
    <3> QED BY <3>4, <3>5 DEF PickAddress
  <2>4. GetSelection <= Cardinality(Known(book))
    <3> DEFINE N == OfType(book, "new")
               O == OfType(book, "old")
    <3>1. /\ IsFiniteSet(N) /\ IsFiniteSet(O)
          /\ Cardinality(N) \in Nat /\ Cardinality(O) \in Nat
      BY OfTypeFinite
    <3>2. N \cap O = {} BY DEF OfType
    <3>3. \A a \in Known(book) : book.lookup[a].type \in {"new", "old"}
      BY <2>1 DEF GoodBook, Books, Lookups, Known, KnownAddress
    <3>4. Known(book) = N \cup O BY <3>3 DEF OfType
    <3> HIDE DEF N, O
    <3>5. Cardinality(N \cap O) = 0 BY <3>2, FS_EmptySet
    <3>6. Cardinality(Known(book)) = Cardinality(N) + Cardinality(O)
      <4>1. Cardinality(N \cup O) = Cardinality(N) + Cardinality(O) - Cardinality(N \cap O)
        BY <3>1, FS_Union
      <4> QED BY <3>1, <3>4, <3>5, <4>1
    <3>7. size = Cardinality(N) + Cardinality(O)
      BY <2>1 DEF GoodBook, Counted, size, N, O
    <3>8. size \in Nat BY <3>1, <3>7
    <3>9. GetSelection <= size BY <3>8 DEF GetSelection
    <3> QED BY <3>6, <3>7, <3>9
  <2> QED BY <2>2, <2>3, <2>4 DEF ReadersReturn
<1> QED BY <1>1, AlwaysIInv, PTL

\* Old addresses are where the current key hashes them, also after a restart.
THEOREM OldAlwaysWherePlaced == Spec => []OldWherePlaced
<1>1. IInv => OldWherePlaced
  BY DEF IInv, Placed, OldWherePlaced, OfType, Known
<1> QED BY <1>1, AlwaysIInv, PTL

\* New addresses have never been reached.
THEOREM NewNeverReached == Spec => []NewNeverSucceeded
<1>1. IInv => NewNeverSucceeded
  BY DEF IInv, Placed, NewNeverSucceeded, OfType, Known
<1> QED BY <1>1, AlwaysIInv, PTL

\* Loading what a save writes gives back the same book.
LEMMA ReloadIsBook == IInv => SaveLosesNothing
<1> SUFFICES ASSUME IInv PROVE SaveLosesNothing OBVIOUS
<1> DEFINE r == loadFromFile(book.lookup)
<1>1. GoodBook(book) BY DEF IInv
<1>2. GoodBook(r) /\ r.lookup = book.lookup BY <1>1, GoodIsValid, LoadGood
<1>3. r \in Books /\ book \in Books BY <1>1, <1>2 DEF GoodBook
<1> HIDE DEF r
<1>4. OfType(r, "new") = OfType(book, "new") /\ OfType(r, "old") = OfType(book, "old")
  BY <1>2 DEF OfType, Known
<1>5. \A b \in NewBuckets : r.new[b] = book.new[b]
  BY <1>1, <1>2, <1>4, Zenon DEF GoodBook, Consistent
<1>6. \A b \in OldBuckets : r.old[b] = book.old[b]
  BY <1>1, <1>2, <1>4, Zenon DEF GoodBook, Consistent
<1>7. r.new = book.new /\ r.old = book.old BY <1>3, <1>5, <1>6 DEF Books
<1>8. r.nNew = book.nNew /\ r.nOld = book.nOld
  BY <1>1, <1>2, <1>4 DEF GoodBook, Counted
<1>9. r = book BY <1>2, <1>3, <1>7, <1>8 DEF Books
<1> QED BY <1>9 DEF SaveLosesNothing, r

\* A save loses nothing, whatever was added, moved and removed before.
THEOREM SavesLoseNothing == Spec => []SaveLosesNothing
  BY ReloadIsBook, AlwaysIInv, PTL

-----------------------------------------------------------------------------
(* The sizes of the buckets.  After a restart they are those of the book   *)
(* that was saved, because reloading rebuilds it exactly.                  *)

Bounded(bk) ==
    /\ \A b \in NewBuckets : Cardinality(bk.new[b]) <= NewBucketSize + 1
    /\ \A b \in OldBuckets : Cardinality(bk.old[b]) <= OldBucketSize + 1
    /\ \A a \in OfType(bk, "new") :
         /\ IsFiniteSet(bk.lookup[a].buckets)
         /\ Cardinality(bk.lookup[a].buckets) <= MaxNewBucketsPerAddress

SizeInv == Bounded(book) /\ (file # None => Bounded(loadFromFile(file.addrs)))

LEMMA SizesNat == NewBucketSize \in Nat /\ OldBucketSize \in Nat /\ MaxNewBucketsPerAddress \in Nat
  BY AddrBookAssumption

\* A subset of a set within a bound is within it.
LEMMA SubsetBounded ==
  ASSUME NEW S, IsFiniteSet(S), NEW T, T \subseteq S, NEW n \in Nat, Cardinality(S) <= n
  PROVE  IsFiniteSet(T) /\ Cardinality(T) <= n
<1>1. IsFiniteSet(T) /\ Cardinality(T) <= Cardinality(S) BY FS_Subset
<1>2. Cardinality(T) \in Nat /\ Cardinality(S) \in Nat BY <1>1, FS_CardinalityType
<1> QED BY <1>1, <1>2

LEMMA BucketFinite ==
  ASSUME NEW bk \in Books
  PROVE  /\ \A b \in NewBuckets : IsFiniteSet(bk.new[b]) /\ Cardinality(bk.new[b]) \in Nat
         /\ \A b \in OldBuckets : IsFiniteSet(bk.old[b]) /\ Cardinality(bk.old[b]) \in Nat
<1>1. \A b \in NewBuckets : bk.new[b] \subseteq Addrs BY DEF Books
<1>2. \A b \in OldBuckets : bk.old[b] \subseteq Addrs BY DEF Books
<1> QED BY <1>1, <1>2, AddrBookAssumption, FS_Subset, FS_CardinalityType

\* A change that puts nothing into a bucket.
LEMMA ShrinkBounded ==
  ASSUME NEW bk \in Books, Bounded(bk), NEW r,
         \A b \in NewBuckets : r.new[b] \subseteq bk.new[b],
         \A b \in OldBuckets : r.old[b] \subseteq bk.old[b],
         \A a \in OfType(r, "new") : /\ a \in OfType(bk, "new")
                                     /\ r.lookup[a].buckets \subseteq bk.lookup[a].buckets
  PROVE  Bounded(r)
<1>1. \A b \in NewBuckets : Cardinality(r.new[b]) <= NewBucketSize + 1
  BY BucketFinite, SubsetBounded, SizesNat DEF Bounded
<1>2. \A b \in OldBuckets : Cardinality(r.old[b]) <= OldBucketSize + 1
  BY BucketFinite, SubsetBounded, SizesNat DEF Bounded
<1>3. \A a \in OfType(r, "new") :
        /\ IsFiniteSet(r.lookup[a].buckets)
        /\ Cardinality(r.lookup[a].buckets) <= MaxNewBucketsPerAddress
  BY SubsetBounded, SizesNat DEF Bounded
<1> QED BY <1>1, <1>2, <1>3 DEF Bounded

LEMMA EmptyBounded == Bounded(EmptyBook)
<1>1. \A b \in NewBuckets : EmptyBook.new[b] = {} BY DEF EmptyBook
<1>2. \A b \in OldBuckets : EmptyBook.old[b] = {} BY DEF EmptyBook
<1>3. OfType(EmptyBook, "new") = {} BY DEF EmptyBook, OfType, Known
<1> QED BY <1>1, <1>2, <1>3, FS_EmptySet, SizesNat DEF Bounded

LEMMA RemoveAllBounded ==
  ASSUME NEW bk, GoodBook(bk), Bounded(bk), NEW a \in Known(bk)
  PROVE  Bounded(removeFromAllBuckets(bk, a))
<1> DEFINE r == removeFromAllBuckets(bk, a)
<1>1. bk \in Books BY DEF GoodBook
<1> DEFINE isNew == bk.lookup[a].type = "new"
<1>2. /\ r.lookup = [bk.lookup EXCEPT ![a] = None]
      /\ \A b \in NewBuckets : r.new[b] =
           IF isNew /\ b \in bk.lookup[a].buckets THEN bk.new[b] \ {a} ELSE bk.new[b]
      /\ \A b \in OldBuckets : r.old[b] =
           IF ~isNew /\ b \in bk.lookup[a].buckets THEN bk.old[b] \ {a} ELSE bk.old[b]
  BY <1>1, RemoveAllFields, Zenon
<1>3. bk.lookup \in Lookups /\ a \in Addrs BY <1>1 DEF Books, Known
<1> HIDE DEF r, isNew
<1>4. \A x \in OfType(r, "new") : x \in OfType(bk, "new") /\ r.lookup[x] = bk.lookup[x]
  BY <1>2, <1>3 DEF OfType, Known, Lookups
<1>5. \A b \in NewBuckets : r.new[b] \subseteq bk.new[b] BY <1>2
<1>6. \A b \in OldBuckets : r.old[b] \subseteq bk.old[b] BY <1>2
<1> QED BY <1>1, <1>4, <1>5, <1>6, ShrinkBounded DEF r

LEMMA AddAddressBounded ==
  ASSUME IInv, Bounded(book), NEW a \in Addrs, NEW src \in Addrs, AddAddress(a, src)
  PROVE  Bounded(book')
<1> DEFINE ka == IF a \in Known(book) THEN book.lookup[a] ELSE newKnownAddress
           idx == calcNewBucket(key, a, src)
           n == NewBucketSize
<1>1. /\ ka.type = "new"
      /\ Cardinality(ka.buckets) # MaxNewBucketsPerAddress
      /\ book' \in addToNewBucket(book, a, ka, idx)
  BY DEF AddAddress
<1>2. idx \in NewBuckets BY CalcNewInRange DEF IInv, TypeOK
<1>3. GoodBook(book) /\ book \in Books BY DEF IInv, GoodBook
<1>4. newKnownAddress \in KnownAddress
  BY AddrBookAssumption DEF IInv, TypeOK, newKnownAddress, KnownAddress, Never
<1>5. ka \in KnownAddress
  BY <1>4 DEF IInv, TypeOK, Books, Lookups, Known
<1>6. /\ IsFiniteSet(ka.buckets) /\ Cardinality(ka.buckets) <= MaxNewBucketsPerAddress
      /\ Cardinality(ka.buckets) \in Nat
  <2>1. CASE a \in Known(book)
    BY <1>1, <2>1, FS_CardinalityType DEF Bounded, OfType
  <2>2. CASE a \notin Known(book)
    BY <2>2, FS_EmptySet, SizesNat DEF newKnownAddress
  <2> QED BY <2>1, <2>2
<1>7. /\ IsFiniteSet(ka.buckets \cup {idx})
      /\ Cardinality(ka.buckets \cup {idx}) <= MaxNewBucketsPerAddress
  <2>1. /\ IsFiniteSet(ka.buckets \cup {idx})
        /\ Cardinality(ka.buckets \cup {idx}) \in {Cardinality(ka.buckets), Cardinality(ka.buckets) + 1}
    BY <1>6, FS_AddElement, Zenon
  <2> QED BY <1>1, <1>6, <2>1, SizesNat
<1> HIDE DEF ka, idx
<1>8. CASE a \in book.new[idx]
  BY <1>1, <1>8 DEF addToNewBucket
<1>9. CASE a \notin book.new[idx]
  <2>1. PICK roomy : /\ book' = putInNewBucket(roomy, a, ka, idx)
                     /\ \/ roomy = book /\ ~(Cardinality(book.new[idx]) > n)
                        \/ roomy \in expireNew(book, idx)
    BY <1>1, <1>9 DEF addToNewBucket
  <2>2. /\ roomy \in Books /\ Bounded(roomy) /\ Cardinality(roomy.new[idx]) <= n
    <3>0. /\ Cardinality(book.new[idx]) <= n + 1 /\ Cardinality(book.new[idx]) \in Nat
          /\ IsFiniteSet(book.new[idx])
      BY <1>2, <1>3, BucketFinite DEF Bounded
    <3>1. CASE roomy = book /\ ~(Cardinality(book.new[idx]) > n)
      BY <1>3, <3>0, <3>1, SizesNat
    <3>2. CASE roomy \in expireNew(book, idx)
      <4>1. PICK x \in book.new[idx] : roomy = removeFromBucket(book, x, idx)
        BY <3>2 DEF expireNew, Evictable
      <4>2. x \in Known(book) /\ x \in Addrs /\ book.lookup[x] \in KnownAddress
            /\ book.lookup[x].type = "new"
        BY <1>2, <1>3 DEF GoodBook, Consistent, OfType, Known, Books, Lookups
      <4> DEFINE left == book.lookup[x].buckets \ {idx}
      <4>3. /\ roomy \in Books
            /\ roomy.lookup = [book.lookup EXCEPT ![x] =
                 IF left = {} THEN None ELSE [book.lookup[x] EXCEPT !.buckets = left]]
            /\ roomy.new = [book.new EXCEPT ![idx] = @ \ {x}]
            /\ roomy.old = book.old
        BY <1>2, <1>3, <4>1, <4>2, RemoveFields
      <4>4. /\ \A b \in NewBuckets : roomy.new[b] \subseteq book.new[b]
            /\ roomy.new[idx] = book.new[idx] \ {x}
        BY <1>2, <1>3, <4>3 DEF Books
      <4>5. /\ \A y \in Addrs : y # x => roomy.lookup[y] = book.lookup[y]
            /\ roomy.lookup[x] # None => roomy.lookup[x].buckets = left
        BY <1>3, <4>2, <4>3 DEF Books, Lookups, KnownAddress
      <4>6. \A y \in OfType(roomy, "new") :
              y \in OfType(book, "new") /\ roomy.lookup[y].buckets \subseteq book.lookup[y].buckets
        <5> TAKE y \in OfType(roomy, "new")
        <5>1. CASE y = x BY <4>2, <4>5, <5>1 DEF OfType, Known
        <5>2. CASE y # x BY <4>5, <5>2 DEF OfType, Known
        <5> QED BY <5>1, <5>2
      <4>7. Bounded(roomy) BY <1>3, <4>3, <4>4, <4>6, ShrinkBounded
      <4>8. Cardinality(roomy.new[idx]) = Cardinality(book.new[idx]) - 1
        BY <3>0, <4>4, FS_RemoveElement
      <4> QED BY <3>0, <4>3, <4>7, <4>8, SizesNat
    <3> QED BY <2>1, <3>1, <3>2
  <2>3. /\ book'.lookup = [roomy.lookup EXCEPT ![a] =
                             [ka EXCEPT !.buckets = ka.buckets \cup {idx}]]
        /\ book'.new = [roomy.new EXCEPT ![idx] = @ \cup {a}]
        /\ book'.old = roomy.old
    BY <1>2, <1>5, <2>1, <2>2, PutFields
  <2>4. ASSUME NEW b \in NewBuckets PROVE Cardinality(book'.new[b]) <= n + 1
    <3>1. CASE b # idx
      <4>1. book'.new[b] = roomy.new[b] BY <2>2, <2>3, <3>1 DEF Books
      <4> QED BY <2>2, <4>1 DEF Bounded
    <3>2. CASE b = idx
      <4>1. book'.new[b] = roomy.new[idx] \cup {a} BY <1>2, <2>2, <2>3, <3>2 DEF Books
      <4>2. IsFiniteSet(roomy.new[idx]) /\ Cardinality(roomy.new[idx]) \in Nat
        BY <1>2, <2>2, BucketFinite
      <4>3. Cardinality(book'.new[b]) \in {Cardinality(roomy.new[idx]), Cardinality(roomy.new[idx]) + 1}
        BY <4>1, <4>2, FS_AddElement, Zenon
      <4> QED BY <2>2, <4>2, <4>3, SizesNat
    <3> QED BY <3>1, <3>2
  <2>5. \A b \in OldBuckets : Cardinality(book'.old[b]) <= OldBucketSize + 1
    BY <2>2, <2>3 DEF Bounded
  <2>6. ASSUME NEW x \in OfType(book', "new")
        PROVE  /\ IsFiniteSet(book'.lookup[x].buckets)
               /\ Cardinality(book'.lookup[x].buckets) <= MaxNewBucketsPerAddress
    <3>1. CASE x = a
      <4>1. book'.lookup[x].buckets = ka.buckets \cup {idx}
        BY <1>5, <2>2, <2>3, <3>1 DEF Books, Lookups, KnownAddress
      <4> QED BY <1>7, <4>1
    <3>2. CASE x # a
      <4>1. x \in OfType(roomy, "new") /\ book'.lookup[x] = roomy.lookup[x]
        BY <2>2, <2>3, <2>6, <3>2 DEF Books, Lookups, OfType, Known
      <4> QED BY <2>2, <4>1 DEF Bounded
    <3> QED BY <3>1, <3>2
  <2> QED BY <2>4, <2>5, <2>6 DEF Bounded
<1> QED BY <1>8, <1>9

\* A known address changes its times and attempts only.
LEMMA UpdateBounded ==
  ASSUME NEW bk, GoodBook(bk), Bounded(bk), NEW a \in Known(bk), NEW ka \in KnownAddress,
         ka.type = bk.lookup[a].type, ka.buckets = bk.lookup[a].buckets
  PROVE  Bounded([bk EXCEPT !.lookup[a] = ka])
<1> DEFINE r == [bk EXCEPT !.lookup[a] = ka]
<1>1. bk \in Books BY DEF GoodBook
<1>2. \A x \in Addrs : r.lookup[x] = IF x = a THEN ka ELSE bk.lookup[x] BY UpdateGood
<1>3. r.new = bk.new /\ r.old = bk.old BY <1>1 DEF Books
<1> HIDE DEF r
<1>4. \A x \in OfType(r, "new") :
        x \in OfType(bk, "new") /\ r.lookup[x].buckets = bk.lookup[x].buckets
  BY <1>2 DEF OfType, Known
<1> QED BY <1>1, <1>3, <1>4, ShrinkBounded DEF r

LEMMA MarkGoodBounded ==
  ASSUME IInv, Bounded(book), NEW a \in Addrs, MarkGood(a)
  PROVE  Bounded(book')
<1> DEFINE ka == markGood(book.lookup[a])
<1>1. a \in Known(book) BY DEF MarkGood
<1>2. GoodBook(book) BY DEF IInv
<1>3. book.lookup[a] \in KnownAddress
  BY <1>1 DEF IInv, TypeOK, Books, Lookups, Known
<1>4. /\ ka \in KnownAddress
      /\ ka.type = book.lookup[a].type /\ ka.buckets = book.lookup[a].buckets
  BY <1>3 DEF IInv, TypeOK, markGood, KnownAddress
<1>5. book' = IF ka.type = "new" THEN moveToOld(book, a, ka)
                                 ELSE [book EXCEPT !.lookup[a] = ka]
  BY DEF MarkGood
<1> HIDE DEF ka
<1>6. CASE ka.type = "new"
  <2> DEFINE bare == removeFromAllBuckets(book, a)
             kb == [ka EXCEPT !.type = "old"]
             idx == calcOldBucket(key, a)
  <2>1. GoodBook(bare) /\ a \notin Known(bare) /\ bare \in Books
    BY <1>1, <1>2, RemoveAllGood DEF GoodBook
  <2>2. Bounded(bare) BY <1>1, <1>2, RemoveAllBounded
  <2>3. kb \in KnownAddress /\ kb.type = "old"
    BY <1>4 DEF KnownAddress
  <2>4. idx \in OldBuckets BY CalcOldInRange DEF IInv, TypeOK
  <2>5. book' = addToOldBucket(bare, a, kb, idx) BY <1>5, <1>6 DEF moveToOld
  <2> HIDE DEF bare, kb, idx
  <2>6. CASE Cardinality(bare.old[idx]) > OldBucketSize
    BY <2>2, <2>5, <2>6 DEF addToOldBucket
  <2>7. CASE ~(Cardinality(bare.old[idx]) > OldBucketSize)
    <3>1. book' = putInOldBucket(bare, a, kb, idx) BY <2>5, <2>7 DEF addToOldBucket
    <3>2. /\ book'.lookup = [bare.lookup EXCEPT ![a] = [kb EXCEPT !.buckets = {idx}]]
          /\ book'.new = bare.new
          /\ book'.old = [bare.old EXCEPT ![idx] = @ \cup {a}]
      BY <2>1, <2>3, <2>4, <3>1, PutOldFields
    <3>3. ASSUME NEW b \in OldBuckets PROVE Cardinality(book'.old[b]) <= OldBucketSize + 1
      <4>1. CASE b # idx
        <5>1. book'.old[b] = bare.old[b] BY <2>1, <3>2, <4>1 DEF Books
        <5> QED BY <2>2, <5>1 DEF Bounded
      <4>2. CASE b = idx
        <5>1. book'.old[b] = bare.old[idx] \cup {a} BY <2>1, <2>4, <3>2, <4>2 DEF Books
        <5>2. IsFiniteSet(bare.old[idx]) /\ Cardinality(bare.old[idx]) \in Nat
          BY <2>1, <2>4, BucketFinite
        <5>3. Cardinality(book'.old[b]) \in {Cardinality(bare.old[idx]), Cardinality(bare.old[idx]) + 1}
          BY <5>1, <5>2, FS_AddElement, Zenon
        <5> QED BY <2>7, <5>2, <5>3, SizesNat
      <4> QED BY <4>1, <4>2
    <3>4. \A x \in OfType(book', "new") :
            x \in OfType(bare, "new") /\ book'.lookup[x] = bare.lookup[x]
      <4> TAKE x \in OfType(book', "new")
      <4>1. book'.lookup[a].type = "old"
        BY <2>1, <2>3, <3>2 DEF Books, Lookups, KnownAddress
      <4>2. x # a BY <4>1 DEF OfType
      <4> QED BY <2>1, <3>2, <4>2 DEF Books, Lookups, OfType, Known
    <3> QED BY <2>2, <3>2, <3>3, <3>4 DEF Bounded
  <2> QED BY <2>6, <2>7
<1>7. CASE ka.type # "new"
  BY <1>1, <1>2, <1>4, <1>5, <1>7, UpdateBounded
<1> QED BY <1>6, <1>7

LEMMA MarkAttemptBounded ==
  ASSUME IInv, Bounded(book), NEW a \in Addrs, MarkAttempt(a)
  PROVE  Bounded(book')
<1> DEFINE ka == markAttempt(book.lookup[a])
<1>1. a \in Known(book) BY DEF MarkAttempt
<1>2. GoodBook(book) BY DEF IInv
<1>3. book.lookup[a] \in KnownAddress
  BY <1>1 DEF IInv, TypeOK, Books, Lookups, Known
<1>4. /\ ka \in KnownAddress
      /\ ka.type = book.lookup[a].type /\ ka.buckets = book.lookup[a].buckets
  BY <1>3 DEF IInv, TypeOK, markAttempt, KnownAddress
<1>5. book' = [book EXCEPT !.lookup[a] = ka] BY DEF MarkAttempt
<1> QED BY <1>1, <1>2, <1>4, <1>5, UpdateBounded

LEMMA SizeStep == IInv /\ SizeInv /\ [Next]_vars => SizeInv'
<1> SUFFICES ASSUME IInv, SizeInv, [Next]_vars PROVE SizeInv' OBVIOUS
<1>0. Bounded(book) /\ GoodBook(book) BY DEF SizeInv, IInv
<1>1. ASSUME Bounded(book'), UNCHANGED file PROVE SizeInv' BY <1>1 DEF SizeInv
<1>2. ASSUME NEW a \in Addrs, NEW src \in Addrs, AddAddress(a, src) PROVE SizeInv'
  BY <1>0, <1>1, <1>2, AddAddressBounded DEF AddAddress
<1>3. ASSUME NEW a \in Addrs, MarkGood(a) PROVE SizeInv'
  BY <1>0, <1>1, <1>3, MarkGoodBounded DEF MarkGood
<1>4. ASSUME NEW a \in Addrs, MarkAttempt(a) PROVE SizeInv'
  BY <1>0, <1>1, <1>4, MarkAttemptBounded DEF MarkAttempt
<1>5. CASE DelSelfRemove
  BY <1>0, <1>1, <1>5, RemoveAllBounded DEF DelSelfRemove, Without
<1>6. CASE DelSelfAddOurs BY <1>0, <1>1, <1>6 DEF DelSelfAddOurs
<1>7. CASE SaveToFile
  <2>1. book' = book /\ file'.addrs = book.lookup BY <1>7 DEF SaveToFile
  <2>2. loadFromFile(book.lookup) = book BY ReloadIsBook DEF SaveLosesNothing
  <2> QED BY <1>0, <2>1, <2>2 DEF SizeInv
<1>8. CASE Restart
  BY <1>1, <1>8, EmptyBounded DEF Restart, SizeInv
<1>9. CASE Tick BY <1>0, <1>1, <1>9 DEF Tick
<1>10. CASE UNCHANGED vars BY <1>0, <1>1, <1>10 DEF vars
<1> QED BY <1>2, <1>3, <1>4, <1>5, <1>6, <1>7, <1>8, <1>9, <1>10 DEF Next

\* No bucket outgrows its size by more than one, and no address is in more than
\* MaxNewBucketsPerAddress buckets, evictions, moves and restarts included.
THEOREM BucketsAlwaysBounded == Spec => []BucketsBounded
<1>1. Init => SizeInv BY EmptyBounded DEF Init, SizeInv
<1>2. SizeInv => BucketsBounded BY DEF SizeInv, Bounded, BucketsBounded
<1> QED BY <1>1, <1>2, InitIInv, StepIInv, SizeStep, PTL DEF Spec

-----------------------------------------------------------------------------
(* The book implements the table.                                          *)

Typed(l, t) == {a \in Addrs : l[a] # None /\ l[a].type = t}

LEMMA OfTypeTyped ==
  ASSUME NEW bk, NEW t
  PROVE  OfType(bk, t) = Typed(bk.lookup, t)
  BY DEF OfType, Known, Typed

tableVars == <<OfType(book, "new"), OfType(book, "old"), ourAddrs, SavedTable>>

LEMMA TableInit == Init => Table!Init
<1> SUFFICES ASSUME Init PROVE Table!Init OBVIOUS
<1>1. book.lookup = [a \in Addrs |-> None] BY DEF Init, EmptyBook
<1>2. OfType(book, "new") = {} /\ OfType(book, "old") = {}
  BY <1>1, OfTypeTyped DEF Typed
<1> QED BY <1>2 DEF Init, Table!Init, Table!Empty, SavedTable

\* What AddAddress does to the lookup map, if anything: a is new, and one other
\* new address may be forgotten.
LEMMA AddLookup ==
  ASSUME IInv, NEW a \in Addrs, NEW src \in Addrs, AddAddress(a, src), book' # book
  PROVE  /\ book.lookup[a] # None => book.lookup[a].type = "new"
         /\ book'.lookup[a] # None /\ book'.lookup[a].type = "new"
         /\ \/ \A x \in Addrs : x # a => book'.lookup[x] = book.lookup[x]
            \/ \E e \in Addrs \ {a} :
                 /\ book.lookup[e] # None /\ book.lookup[e].type = "new"
                 /\ book'.lookup[e] = None \/ book'.lookup[e].type = "new"
                 /\ \A x \in Addrs \ {a, e} : book'.lookup[x] = book.lookup[x]
<1> DEFINE ka == IF a \in Known(book) THEN book.lookup[a] ELSE newKnownAddress
           idx == calcNewBucket(key, a, src)
<1>1. /\ ka.type = "new"
      /\ book' \in addToNewBucket(book, a, ka, idx)
  BY DEF AddAddress
<1>2. idx \in NewBuckets BY CalcNewInRange DEF IInv, TypeOK
<1>3. GoodBook(book) BY DEF IInv
<1>4. newKnownAddress \in KnownAddress
  BY AddrBookAssumption DEF IInv, TypeOK, newKnownAddress, KnownAddress, Never
<1>5. ka \in KnownAddress
  BY <1>4 DEF IInv, TypeOK, Books, Lookups, Known
<1>6. \/ a \in Known(book) /\ ka = book.lookup[a]
      \/ a \notin Known(book) /\ ka.buckets = {}
  BY DEF newKnownAddress
<1>7. book.lookup[a] # None => book.lookup[a].type = "new"
  BY <1>1 DEF Known
<1> HIDE DEF ka, idx
<1>8. a \notin book.new[idx] BY <1>1 DEF addToNewBucket
<1>9. PICK roomy : /\ book' = putInNewBucket(roomy, a, ka, idx)
                   /\ roomy = book \/ roomy \in expireNew(book, idx)
  BY <1>1, <1>8 DEF addToNewBucket
<1>10. /\ GoodBook(roomy) /\ roomy.lookup[a] = book.lookup[a]
       /\ \/ roomy.lookup = book.lookup
          \/ \E e \in Addrs \ {a} :
               /\ book.lookup[e] # None /\ book.lookup[e].type = "new"
               /\ roomy.lookup[e] = None \/ roomy.lookup[e].type = "new"
               /\ \A x \in Addrs \ {a, e} : roomy.lookup[x] = book.lookup[x]
  <2>1. CASE roomy = book BY <1>3, <2>1
  <2>2. CASE roomy \in expireNew(book, idx)
    <3>1. PICK x \in book.new[idx] : roomy = removeFromBucket(book, x, idx)
      BY <2>2 DEF expireNew, Evictable
    <3>2. /\ GoodBook(roomy)
          /\ \A y \in Addrs : y # x => roomy.lookup[y] = book.lookup[y]
          /\ roomy.lookup[x] = None \/ roomy.lookup[x] =
               [book.lookup[x] EXCEPT !.buckets = book.lookup[x].buckets \ {idx}]
      BY <1>2, <1>3, <3>1, RemoveGood
    <3>3. x # a BY <1>8
    <3>4. x \in Addrs /\ book.lookup[x] # None /\ book.lookup[x].type = "new"
      BY <1>2, <1>3 DEF GoodBook, Consistent, OfType, Known
    <3>5. book.lookup[x] \in KnownAddress
      BY <1>3, <3>4 DEF GoodBook, Books, Lookups
    <3>6. roomy.lookup[x] = None \/ roomy.lookup[x].type = "new"
      BY <3>2, <3>4, <3>5 DEF KnownAddress
    <3>7. roomy.lookup[a] = book.lookup[a] BY <3>2, <3>3
    <3>8. \A y \in Addrs \ {a, x} : roomy.lookup[y] = book.lookup[y] BY <3>2
    <3> QED BY <3>2, <3>3, <3>4, <3>6, <3>7, <3>8, Zenon
  <2> QED BY <1>9, <2>1, <2>2
<1>11. \/ a \in Known(roomy) /\ ka = roomy.lookup[a]
       \/ a \notin Known(roomy) /\ ka.buckets = {}
  BY <1>6, <1>10 DEF Known
<1>12. /\ GoodBook(book')
       /\ \A x \in Addrs : x # a => book'.lookup[x] = roomy.lookup[x]
       /\ book'.lookup[a] = [ka EXCEPT !.buckets = ka.buckets \cup {idx}]
  BY <1>1, <1>2, <1>5, <1>9, <1>10, <1>11, PutGood
<1>13. [ka EXCEPT !.buckets = ka.buckets \cup {idx}] \in KnownAddress
  BY <1>2, <1>5 DEF KnownAddress
<1>14. book'.lookup[a] # None /\ book'.lookup[a].type = "new"
  BY <1>1, <1>5, <1>12, <1>13, NoneIsNoAddress DEF KnownAddress
<1>15. CASE roomy.lookup = book.lookup BY <1>7, <1>12, <1>14, <1>15
<1>16. CASE \E e \in Addrs \ {a} :
              /\ book.lookup[e] # None /\ book.lookup[e].type = "new"
              /\ roomy.lookup[e] = None \/ roomy.lookup[e].type = "new"
              /\ \A x \in Addrs \ {a, e} : roomy.lookup[x] = book.lookup[x]
  <2>1. PICK e \in Addrs \ {a} :
              /\ book.lookup[e] # None /\ book.lookup[e].type = "new"
              /\ roomy.lookup[e] = None \/ roomy.lookup[e].type = "new"
              /\ \A x \in Addrs \ {a, e} : roomy.lookup[x] = book.lookup[x]
    BY <1>16
  <2>2. book'.lookup[e] = roomy.lookup[e] BY <1>12
  <2>3. \A x \in Addrs \ {a, e} : book'.lookup[x] = book.lookup[x] BY <1>12, <2>1
  <2> QED BY <1>7, <1>14, <2>1, <2>2, <2>3, Zenon
<1> QED BY <1>10, <1>15, <1>16

\* MarkGood forgets a new address or makes it old; of an old one, and of all the
\* others, the type stays.
LEMMA GoodLookup ==
  ASSUME IInv, NEW a \in Addrs, MarkGood(a)
  PROVE  /\ book.lookup[a] # None
         /\ \A x \in Addrs : x # a => book'.lookup[x] = book.lookup[x]
         /\ \/ /\ book.lookup[a].type = "new"
               /\ book'.lookup[a] = None \/ book'.lookup[a].type = "old"
            \/ book'.lookup[a] # None /\ book'.lookup[a].type = book.lookup[a].type
<1> DEFINE ka == markGood(book.lookup[a])
<1>1. a \in Known(book) /\ book.lookup[a] # None BY DEF MarkGood, Known
<1>2. GoodBook(book) /\ Placed(book.lookup, key) BY DEF IInv
<1>3. book.lookup[a] \in KnownAddress
  BY <1>1 DEF IInv, TypeOK, Books, Lookups
<1>4. /\ ka \in KnownAddress
      /\ ka.type = book.lookup[a].type /\ ka.buckets = book.lookup[a].buckets
  BY <1>3 DEF IInv, TypeOK, markGood, KnownAddress
<1>5. book' = IF ka.type = "new" THEN moveToOld(book, a, ka)
                                 ELSE [book EXCEPT !.lookup[a] = ka]
  BY DEF MarkGood
<1> HIDE DEF ka
<1>6. CASE ka.type = "new"
  <2> DEFINE bare == removeFromAllBuckets(book, a)
             kb == [ka EXCEPT !.type = "old"]
             idx == calcOldBucket(key, a)
  <2>1. GoodBook(bare) /\ a \notin Known(bare) BY <1>1, <1>2, RemoveAllGood
  <2>2. bare.lookup = [book.lookup EXCEPT ![a] = None]
    BY <1>1, <1>2, RemoveAllFields DEF GoodBook
  <2>3. book.lookup \in Lookups BY <1>2 DEF GoodBook, Books
  <2>4. kb \in KnownAddress /\ kb.type = "old" BY <1>4 DEF KnownAddress
  <2>5. idx \in OldBuckets BY CalcOldInRange DEF IInv, TypeOK
  <2>6. book' = addToOldBucket(bare, a, kb, idx) BY <1>5, <1>6 DEF moveToOld
  <2>7. book' = bare \/ book' = putInOldBucket(bare, a, kb, idx)
    BY <2>6 DEF addToOldBucket
  <2> HIDE DEF bare, kb, idx
  <2>8. bare.lookup[a] = None /\ \A x \in Addrs : x # a => bare.lookup[x] = book.lookup[x]
    BY <2>2, <2>3 DEF Lookups
  <2>9. CASE book' = bare BY <1>1, <1>4, <1>6, <2>8, <2>9
  <2>10. CASE book' = putInOldBucket(bare, a, kb, idx)
    <3>1. /\ \A x \in Addrs : x # a => book'.lookup[x] = bare.lookup[x]
          /\ book'.lookup[a] = [kb EXCEPT !.buckets = {idx}]
      BY <2>1, <2>4, <2>5, <2>10, PutOldGood
    <3>2. book'.lookup[a].type = "old" BY <2>4, <3>1 DEF KnownAddress
    <3> QED BY <1>1, <1>4, <1>6, <2>8, <3>1, <3>2
  <2> QED BY <2>7, <2>9, <2>10
<1>7. CASE ka.type # "new"
  <2>1. book' = [book EXCEPT !.lookup[a] = ka] BY <1>5, <1>7
  <2>2. \A x \in Addrs : book'.lookup[x] = IF x = a THEN ka ELSE book.lookup[x]
    BY <1>1, <1>2, <1>4, <2>1, UpdateGood
  <2> QED BY <1>1, <1>4, <2>2, NoneIsNoAddress
<1> QED BY <1>6, <1>7

LEMMA AttemptLookup ==
  ASSUME IInv, NEW a \in Addrs, MarkAttempt(a)
  PROVE  \A t : OfType(book', t) = OfType(book, t)
<1> DEFINE ka == markAttempt(book.lookup[a])
<1>1. a \in Known(book) /\ book.lookup[a] # None BY DEF MarkAttempt, Known
<1>2. GoodBook(book) BY DEF IInv
<1>3. book.lookup[a] \in KnownAddress
  BY <1>1 DEF IInv, TypeOK, Books, Lookups
<1>4. /\ ka \in KnownAddress /\ ka.success = book.lookup[a].success
      /\ ka.type = book.lookup[a].type /\ ka.buckets = book.lookup[a].buckets
  BY <1>3 DEF IInv, TypeOK, markAttempt, KnownAddress
<1>5. book' = [book EXCEPT !.lookup[a] = ka] BY DEF MarkAttempt
<1> HIDE DEF ka
<1>6. \A x \in Addrs : book'.lookup[x] = IF x = a THEN ka ELSE book.lookup[x]
  BY <1>1, <1>2, <1>4, <1>5, UpdateGood
<1>7. ka # None BY <1>4, NoneIsNoAddress
<1> QED BY <1>1, <1>4, <1>6, <1>7 DEF OfType, Known

\* Every step of the book is a step of the table, or leaves it alone.
LEMMA TableStep == IInv /\ [Next]_vars => [Table!Next]_tableVars
<1> SUFFICES ASSUME IInv, [Next]_vars PROVE Table!Next \/ UNCHANGED tableVars
  OBVIOUS
<1>0. \A t : OfType(book, t) = Typed(book.lookup, t) /\ OfType(book', t) = Typed(book'.lookup, t)
  BY OfTypeTyped
<1>1. ASSUME NEW a \in Addrs, NEW src \in Addrs, AddAddress(a, src)
      PROVE  Table!Next \/ UNCHANGED tableVars
  <2>0. UNCHANGED <<ourAddrs, file>> /\ a \notin ourAddrs BY <1>1 DEF AddAddress
  <2>1. UNCHANGED SavedTable BY <2>0 DEF SavedTable
  <2>2. CASE book' = book BY <2>0, <2>1, <2>2 DEF tableVars
  <2>3. CASE book' # book
    <3>1. /\ book.lookup[a] # None => book.lookup[a].type = "new"
          /\ book'.lookup[a] # None /\ book'.lookup[a].type = "new"
          /\ \/ \A x \in Addrs : x # a => book'.lookup[x] = book.lookup[x]
             \/ \E e \in Addrs \ {a} :
                  /\ book.lookup[e] # None /\ book.lookup[e].type = "new"
                  /\ book'.lookup[e] = None \/ book'.lookup[e].type = "new"
                  /\ \A x \in Addrs \ {a, e} : book'.lookup[x] = book.lookup[x]
      BY <1>1, <2>3, AddLookup
    <3>2. a \notin OfType(book, "old") BY <1>0, <3>1 DEF Typed
    <3>3. /\ OfType(book', "old") = OfType(book, "old")
          /\ \E e \in OfType(book, "new") \cup {a} :
               OfType(book', "new") = (OfType(book, "new") \ {e}) \cup {a}
      <4>1. CASE \A x \in Addrs : x # a => book'.lookup[x] = book.lookup[x]
        <5>1. OfType(book', "old") = OfType(book, "old")
          BY <1>0, <3>1, <4>1 DEF Typed
        <5>2. OfType(book', "new") = (OfType(book, "new") \ {a}) \cup {a}
          BY <1>0, <3>1, <4>1 DEF Typed
        <5> QED BY <5>1, <5>2
      <4>2. CASE \E e \in Addrs \ {a} :
                  /\ book.lookup[e] # None /\ book.lookup[e].type = "new"
                  /\ book'.lookup[e] = None \/ book'.lookup[e].type = "new"
                  /\ \A x \in Addrs \ {a, e} : book'.lookup[x] = book.lookup[x]
        <5>1. PICK e \in Addrs \ {a} :
                  /\ book.lookup[e] # None /\ book.lookup[e].type = "new"
                  /\ book'.lookup[e] = None \/ book'.lookup[e].type = "new"
                  /\ \A x \in Addrs \ {a, e} : book'.lookup[x] = book.lookup[x]
          BY <4>2
        <5>2. OfType(book', "old") = OfType(book, "old")
          <6>1. \A x \in {a, e} : x \notin Typed(book'.lookup, "old")
                               /\ x \notin Typed(book.lookup, "old")
            BY <3>1, <5>1 DEF Typed
          <6>2. \A x \in Addrs \ {a, e} :
                  x \in Typed(book'.lookup, "old") <=> x \in Typed(book.lookup, "old")
            BY <5>1 DEF Typed
          <6>3. Typed(book'.lookup, "old") \subseteq Addrs /\ Typed(book.lookup, "old") \subseteq Addrs
            BY DEF Typed
          <6> QED BY <1>0, <6>1, <6>2, <6>3
        <5>3. e \in OfType(book, "new") BY <1>0, <5>1 DEF Typed
        <5>4. CASE book'.lookup[e] = None
          <6>1. OfType(book', "new") = (OfType(book, "new") \ {e}) \cup {a}
            BY <1>0, <3>1, <5>1, <5>4 DEF Typed
          <6> QED BY <5>2, <5>3, <6>1
        <5>5. CASE book'.lookup[e] # None
          <6>1. OfType(book', "new") = (OfType(book, "new") \ {a}) \cup {a}
            BY <1>0, <3>1, <5>1, <5>5 DEF Typed
          <6> QED BY <5>2, <6>1
        <5> QED BY <5>4, <5>5
      <4> QED BY <3>1, <4>1, <4>2
    <3>4. Table!Add(a) BY <2>0, <2>1, <3>2, <3>3 DEF Table!Add
    <3> QED BY <3>4 DEF Table!Next
  <2> QED BY <2>2, <2>3
<1>2. ASSUME NEW a \in Addrs, MarkGood(a)
      PROVE  Table!Next \/ UNCHANGED tableVars
  <2>0. UNCHANGED <<ourAddrs, file>> BY <1>2 DEF MarkGood
  <2>1. UNCHANGED SavedTable BY <2>0 DEF SavedTable
  <2>2. /\ book.lookup[a] # None
        /\ \A x \in Addrs : x # a => book'.lookup[x] = book.lookup[x]
        /\ \/ /\ book.lookup[a].type = "new"
              /\ book'.lookup[a] = None \/ book'.lookup[a].type = "old"
           \/ book'.lookup[a] # None /\ book'.lookup[a].type = book.lookup[a].type
    BY <1>2, GoodLookup
  <2>3. CASE /\ book.lookup[a].type = "new"
             /\ book'.lookup[a] = None \/ book'.lookup[a].type = "old"
    <3>1. a \in OfType(book, "new") BY <1>0, <2>2, <2>3 DEF Typed
    <3>2. OfType(book', "new") = OfType(book, "new") \ {a}
      BY <1>0, <2>2, <2>3 DEF Typed
    <3>3. OfType(book', "old") \in {OfType(book, "old"), OfType(book, "old") \cup {a}}
      <4>1. CASE book'.lookup[a] = None
        <5>1. OfType(book', "old") = OfType(book, "old")
          BY <1>0, <2>2, <2>3, <4>1 DEF Typed
        <5> QED BY <5>1
      <4>2. CASE book'.lookup[a] # None
        <5>1. OfType(book', "old") = OfType(book, "old") \cup {a}
          BY <1>0, <2>2, <2>3, <4>2 DEF Typed
        <5> QED BY <5>1
      <4> QED BY <4>1, <4>2
    <3>4. Table!Good(a) BY <2>0, <2>1, <3>1, <3>2, <3>3 DEF Table!Good
    <3> QED BY <3>4 DEF Table!Next
  <2>4. CASE book'.lookup[a] # None /\ book'.lookup[a].type = book.lookup[a].type
    <3>1. \A x \in Addrs : /\ book'.lookup[x] # None <=> book.lookup[x] # None
                           /\ book'.lookup[x] # None =>
                                book'.lookup[x].type = book.lookup[x].type
      BY <2>2, <2>4
    <3>2. \A t : Typed(book'.lookup, t) = Typed(book.lookup, t) BY <3>1 DEF Typed
    <3>3. \A t : OfType(book', t) = OfType(book, t) BY <1>0, <3>2
    <3> QED BY <2>0, <2>1, <3>3 DEF tableVars
  <2> QED BY <2>2, <2>3, <2>4
<1>3. ASSUME NEW a \in Addrs, MarkAttempt(a)
      PROVE  Table!Next \/ UNCHANGED tableVars
  <2>1. \A t : OfType(book', t) = OfType(book, t) BY <1>3, AttemptLookup
  <2>2. UNCHANGED <<ourAddrs, file>> BY <1>3 DEF MarkAttempt
  <2> QED BY <2>1, <2>2 DEF tableVars, SavedTable
<1>4. CASE DelSelfRemove
  <2>0. Self \in Addrs BY AddrBookAssumption
  <2>1. UNCHANGED <<ourAddrs, file>> /\ book' = Without(Self) BY <1>4 DEF DelSelfRemove
  <2>2. UNCHANGED SavedTable BY <2>1 DEF SavedTable
  <2>3. book'.lookup[Self] = None /\ \A x \in Addrs : x # Self => book'.lookup[x] = book.lookup[x]
    <3>1. CASE Self \in Known(book)
      <4>1. book \in Books /\ book.lookup \in Lookups BY DEF IInv, TypeOK, Books
      <4>2. book'.lookup = [book.lookup EXCEPT ![Self] = None]
        BY <2>1, <3>1, <4>1, RemoveAllFields DEF Without
      <4> QED BY <2>0, <4>1, <4>2 DEF Lookups
    <3>2. CASE Self \notin Known(book) BY <2>0, <2>1, <3>2 DEF Without, Known
    <3> QED BY <3>1, <3>2
  <2>4. \A t : OfType(book', t) = OfType(book, t) \ {Self} BY <1>0, <2>3 DEF Typed
  <2>5. Table!Remove(Self) BY <2>1, <2>2, <2>4 DEF Table!Remove
  <2> QED BY <2>0, <2>5 DEF Table!Next
<1>5. CASE DelSelfAddOurs
  <2>1. Self \in Addrs BY AddrBookAssumption
  <2>2. Table!AddOurs(Self) BY <1>5 DEF DelSelfAddOurs, Table!AddOurs, SavedTable
  <2> QED BY <2>1, <2>2 DEF Table!Next
<1>6. CASE SaveToFile
  <2>1. /\ file' = [key |-> key, addrs |-> book.lookup]
        /\ UNCHANGED <<book, ourAddrs>>
    BY <1>6 DEF SaveToFile
  <2>2. key \in BookKeys /\ book.lookup \in Lookups BY DEF IInv, TypeOK, Books
  <2>3. file' # None /\ file'.addrs = book.lookup
    BY <2>1, <2>2, FileFields, Zenon
  <2>4. SavedTable' = [new |-> OfType(book, "new"), old |-> OfType(book, "old")]
    <3>1. SavedTable' = [new |-> Typed(file'.addrs, "new"), old |-> Typed(file'.addrs, "old")]
      BY <2>3, Zenon DEF SavedTable, Typed
    <3> QED BY <1>0, <2>3, <3>1
  <2>5. Table!Save BY <2>1, <2>4 DEF Table!Save
  <2> QED BY <2>5 DEF Table!Next
<1>7. CASE Restart
  <2>1. UNCHANGED file /\ ourAddrs' = {} BY <1>7 DEF Restart
  <2>2. UNCHANGED SavedTable BY <2>1 DEF SavedTable
  <2>3. OfType(book', "new") = SavedTable.new /\ OfType(book', "old") = SavedTable.old
    <3>1. CASE file = None
      <4>1. book'.lookup = [a \in Addrs |-> None]
        BY <1>7, <3>1 DEF Restart, EmptyBook
      <4> QED BY <1>0, <3>1, <4>1 DEF SavedTable, Typed
    <3>2. CASE file # None
      <4>1. book'.lookup = file.addrs
        BY <1>7, <3>2, LoadGood DEF Restart, IInv, FileOK
      <4> QED BY <1>0, <3>2, <4>1 DEF SavedTable, Typed
    <3> QED BY <3>1, <3>2
  <2>4. Table!Restart BY <2>1, <2>2, <2>3 DEF Table!Restart
  <2> QED BY <2>4 DEF Table!Next
<1>8. CASE Tick BY <1>8 DEF Tick, tableVars, SavedTable
<1>9. CASE UNCHANGED vars BY <1>9 DEF vars, tableVars, SavedTable
<1> QED BY <1>1, <1>2, <1>3, <1>4, <1>5, <1>6, <1>7, <1>8, <1>9 DEF Next

\* The book with its buckets and counters implements the two sets of AddrTable.
THEOREM AddrBookImplementsTable == Spec => ImplementsAddrTable
  BY TableInit, TableStep, AlwaysIInv, PTL DEF Spec, ImplementsAddrTable, Table!Spec, tableVars
=============================================================================
