------------------------------ MODULE AddrBook ------------------------------
(***************************************************************************)
(* pex.AddrBook (src/p2p/pex: addrbook.go, know_address.go, file.go): the  *)
(* known addresses, each in one or more "new" buckets or in one "old"      *)
(* bucket, the two counters that are kept beside them, the JSON file, and  *)
(* the two calls of Switch.addrBookDelSelf.                                *)
(*                                                                         *)
(* The content that addrbook.mtx protects is the record book, and every    *)
(* unexported method is an operator from books to books.  A bucket is the  *)
(* set of the addresses in it.                                             *)
(***************************************************************************)
EXTENDS Integers, FiniteSets

CONSTANTS Addrs,          \* network addresses
          Self,           \* our own listen address
          Routable,       \* the addresses with NetAddress.Routable()
          Local,          \* the addresses with NetAddress.Local()
          RoutabilityStrict,
          Groups,         \* values of groupKey
          Subnet,         \* the network of an address, as groupKey masks it
          BookKeys,       \* values of AddrBook.key, random at creation
          Slots,          \* the numbers below newBucketsPerGroup, oldBucketsPerGroup
          NewBuckets,     \* indices of bucketsNew
          OldBuckets,     \* indices of bucketsOld
          NewSlot, NewBucket,  \* the two hashes of calcNewBucket
          OldSlot, OldBucket,  \* the two hashes of calcOldBucket
          NewBucketSize, OldBucketSize, MaxNewBucketsPerAddress,
          Minute, MissingSpan, BadSpan,   \* the time spans of isBad, in ticks
          NumRetries, MaxFailures,
          MaxTime,        \* bound on the clock
          MaxAttempts,    \* bound on knownAddress.Attempts
          MaySave,        \* bound: whether the book is saved and reloaded
          None            \* a missing map entry or file

KnownAddress == [type : {"new", "old"}, buckets : SUBSET (NewBuckets \cup OldBuckets),
                 attempts : Int, last : Int, success : Int]

Lookups == [Addrs -> KnownAddress \cup {None}]

ASSUME AddrBookAssumption ==
    /\ IsFiniteSet(Addrs)
    /\ Self \in Addrs
    /\ None \notin KnownAddress /\ None \notin [key : BookKeys, addrs : Lookups]
    /\ RoutabilityStrict \in BOOLEAN /\ MaySave \in BOOLEAN
    /\ Subnet \in [Addrs -> Groups] /\ {"local", "unroutable"} \subseteq Groups
    /\ NewSlot \in [BookKeys -> [Groups -> [Groups -> Slots]]]
    /\ NewBucket \in [BookKeys -> [Groups -> [Slots -> NewBuckets]]]
    /\ OldSlot \in [BookKeys -> [Addrs -> Slots]]
    /\ OldBucket \in [BookKeys -> [Groups -> [Slots -> OldBuckets]]]
    /\ {NewBucketSize, OldBucketSize, MaxNewBucketsPerAddress, Minute,
        MissingSpan, BadSpan, NumRetries, MaxFailures, MaxTime, MaxAttempts} \subseteq Nat

VARIABLES
    key,       \* a.key
    book,      \* addrLookup, bucketsNew, bucketsOld, nNew, nOld
    ourAddrs,  \* a.ourAddrs
    file,      \* the content of the JSON file
    now,       \* the clock
    delSelf    \* addrBookDelSelf: idle, or between its two calls, or done

vars == <<key, book, ourAddrs, file, now, delSelf>>

\* The zero time.Time of LastSuccess, before every other time.
Never == -1 - BadSpan

newKnownAddress == [type |-> "new", buckets |-> {}, attempts |-> 0,
                    last |-> now, success |-> Never]

EmptyBook == [lookup |-> [a \in Addrs |-> None],
              new |-> [b \in NewBuckets |-> {}],
              old |-> [b \in OldBuckets |-> {}],
              nNew |-> 0,
              nOld |-> 0]

Known(bk) == {a \in Addrs : bk.lookup[a] # None}
OfType(bk, t) == {a \in Known(bk) : bk.lookup[a].type = t}

Init ==
    /\ key \in BookKeys
    /\ book = EmptyBook
    /\ ourAddrs = {}
    /\ file = None
    /\ now = 0
    /\ delSelf = "idle"

-----------------------------------------------------------------------------
(* know_address.go and the unexported methods of AddrBook.                 *)

isBad(ka) ==
    /\ ka.type = "new"
    /\ \/ ka.last > now - Minute /\ ka.attempts # 0
       \/ ka.last < now - MissingSpan
       \/ ka.success = Never /\ ka.attempts >= NumRetries
       \/ ka.success < now - BadSpan /\ ka.attempts >= MaxFailures

markGood(ka) == [type |-> ka.type, buckets |-> ka.buckets,
                 attempts |-> 0, last |-> now, success |-> now]

markAttempt(ka) == [type |-> ka.type, buckets |-> ka.buckets,
                    attempts |-> ka.attempts + 1, last |-> now,
                    success |-> ka.success]

groupKey(a) ==
    CASE RoutabilityStrict /\ a \in Local -> "local"
      [] RoutabilityStrict /\ a \notin Local /\ a \notin Routable -> "unroutable"
      [] OTHER -> Subnet[a]

\* The first hash, of the groups, is one of a few numbers per source, and the
\* second, of it and the source's group, is the bucket.
calcNewBucket(k, a, src) ==
    NewBucket[k][groupKey(src)][NewSlot[k][groupKey(a)][groupKey(src)]]

calcOldBucket(k, a) == OldBucket[k][groupKey(a)][OldSlot[k][a]]

\* Mutant of removeFromAllBuckets: the buckets keep the address.
removeFromLookup(bk, a) ==
    LET isNew == bk.lookup[a].type = "new"
    IN  [lookup |-> [bk.lookup EXCEPT ![a] = None], new |-> bk.new, old |-> bk.old,
         nNew |-> IF isNew THEN bk.nNew - 1 ELSE bk.nNew,
         nOld |-> IF isNew THEN bk.nOld ELSE bk.nOld - 1]

removeFromAllBuckets(bk, a) ==
    LET ka == bk.lookup[a]
        isNew == ka.type = "new"
    IN  [lookup |-> [bk.lookup EXCEPT ![a] = None],
         new |-> [b \in NewBuckets |-> IF isNew /\ b \in ka.buckets
                                       THEN bk.new[b] \ {a} ELSE bk.new[b]],
         old |-> [b \in OldBuckets |-> IF ~isNew /\ b \in ka.buckets
                                       THEN bk.old[b] \ {a} ELSE bk.old[b]],
         nNew |-> IF isNew THEN bk.nNew - 1 ELSE bk.nNew,
         nOld |-> IF isNew THEN bk.nOld ELSE bk.nOld - 1]

removeBucketRef(ka, idx) == ka.buckets \ {idx}

\* removeFromBucket for a new bucket, its only use: the address is forgotten
\* with its last bucket.
removeFromBucket(bk, a, idx) ==
    LET left == removeBucketRef(bk.lookup[a], idx)
        gone == left = {}
    IN  [lookup |-> [bk.lookup EXCEPT ![a] =
                       IF gone THEN None ELSE [bk.lookup[a] EXCEPT !.buckets = left]],
         new |-> [bk.new EXCEPT ![idx] = @ \ {a}],
         old |-> bk.old,
         nNew |-> IF gone THEN bk.nNew - 1 ELSE bk.nNew,
         nOld |-> bk.nOld]

\* The addresses expireNew may evict: a bad one, else one of the oldest (the
\* iteration order of a Go map is arbitrary).
Evictable(bk, idx) ==
    LET bad == {a \in bk.new[idx] : isBad(bk.lookup[a])}
    IN  IF bad # {} THEN bad
        ELSE {a \in bk.new[idx] : \A b \in bk.new[idx] :
                bk.lookup[a].last <= bk.lookup[b].last}

expireNew(bk, idx) == {removeFromBucket(bk, a, idx) : a \in Evictable(bk, idx)}

\* Mutant of putInNewBucket: every bucket of an address is counted.
putAndCount(bk, a, ka, idx) ==
    [lookup |-> [bk.lookup EXCEPT ![a] = [ka EXCEPT !.buckets = ka.buckets \cup {idx}]],
     new |-> [bk.new EXCEPT ![idx] = @ \cup {a}],
     old |-> bk.old,
     nNew |-> bk.nNew + 1,
     nOld |-> bk.nOld]

\* The rest of addToNewBucket, once there is room.
putInNewBucket(bk, a, ka, idx) ==
    [lookup |-> [bk.lookup EXCEPT ![a] = [ka EXCEPT !.buckets = ka.buckets \cup {idx}]],
     new |-> [bk.new EXCEPT ![idx] = @ \cup {a}],
     old |-> bk.old,
     nNew |-> IF ka.buckets = {} THEN bk.nNew + 1 ELSE bk.nNew,
     nOld |-> bk.nOld]

addToNewBucket(bk, a, ka, idx) ==
    IF a \in bk.new[idx] THEN {bk}
    ELSE {putInNewBucket(roomy, a, ka, idx) :
            roomy \in IF Cardinality(bk.new[idx]) > NewBucketSize
                      THEN expireNew(bk, idx) ELSE {bk}}

putInOldBucket(bk, a, ka, idx) ==
    [lookup |-> [bk.lookup EXCEPT ![a] = [ka EXCEPT !.buckets = {idx}]],
     new |-> bk.new,
     old |-> [bk.old EXCEPT ![idx] = @ \cup {a}],
     nNew |-> bk.nNew,
     nOld |-> bk.nOld + 1]

\* addToOldBucket; a full bucket is an error, which MarkGood only logs.
addToOldBucket(bk, a, ka, idx) ==
    IF Cardinality(bk.old[idx]) > OldBucketSize
    THEN bk
    ELSE putInOldBucket(bk, a, ka, idx)

moveToOld(bk, a, ka) ==
    addToOldBucket(removeFromAllBuckets(bk, a), a, [ka EXCEPT !.type = "old"],
                   calcOldBucket(key, a))

\* loadFromFile: buckets and counters are rebuilt from the addresses.
loadFromFile(addrs) ==
    LET typed(t) == {a \in Addrs : addrs[a] # None /\ addrs[a].type = t}
    IN  [lookup |-> addrs,
         new |-> [b \in NewBuckets |-> {a \in typed("new") : b \in addrs[a].buckets}],
         old |-> [b \in OldBuckets |-> {a \in typed("old") : b \in addrs[a].buckets}],
         nNew |-> Cardinality(typed("new")),
         nOld |-> Cardinality(typed("old"))]

-----------------------------------------------------------------------------
(* The exported operations.                                                *)

\* AddAddress where it changes the book: not one of ours, routable, and
\* unknown, or new and chosen by the random test to go into one more bucket.
AddAddress(a, src) ==
    /\ a \notin ourAddrs
    /\ RoutabilityStrict => a \in Routable
    /\ LET ka == IF a \in Known(book) THEN book.lookup[a] ELSE newKnownAddress
       IN  /\ ka.type = "new"
           /\ Cardinality(ka.buckets) # MaxNewBucketsPerAddress
           /\ book' \in addToNewBucket(book, a, ka, calcNewBucket(key, a, src))
    /\ UNCHANGED <<key, ourAddrs, file, now, delSelf>>

MarkGood(a) ==
    /\ a \in Known(book)
    /\ LET ka == markGood(book.lookup[a])
       IN  book' = IF ka.type = "new" THEN moveToOld(book, a, ka)
                                      ELSE [book EXCEPT !.lookup[a] = ka]
    /\ UNCHANGED <<key, ourAddrs, file, now, delSelf>>

MarkAttempt(a) ==
    /\ a \in Known(book)
    /\ book.lookup[a].attempts < MaxAttempts
    /\ book' = [book EXCEPT !.lookup[a] = markAttempt(@)]
    /\ UNCHANGED <<key, ourAddrs, file, now, delSelf>>

Without(a) == IF a \in Known(book) THEN removeFromAllBuckets(book, a) ELSE book

\* Switch.addrBookDelSelf: RemoveAddress, then, in another critical section,
\* AddOurAddress.
DelSelfRemove ==
    /\ delSelf \in {"idle", "done"}
    /\ book' = Without(Self)
    /\ delSelf' = "between"
    /\ UNCHANGED <<key, ourAddrs, file, now>>

DelSelfAddOurs ==
    /\ delSelf = "between"
    /\ ourAddrs' = ourAddrs \cup {Self}
    /\ delSelf' = "done"
    /\ UNCHANGED <<key, book, file, now>>

\* Mutant of SaveToFile: only old addresses are saved.
SaveOldOnly ==
    /\ MaySave
    /\ file' = [key |-> key, addrs |-> [a \in Addrs |->
                  IF a \in OfType(book, "old") THEN book.lookup[a] ELSE None]]
    /\ UNCHANGED <<key, book, ourAddrs, now, delSelf>>

\* SaveToFile, from saveRoutine or dialSeeds; the file is replaced atomically.
SaveToFile ==
    /\ MaySave
    /\ file' = [key |-> key, addrs |-> book.lookup]
    /\ UNCHANGED <<key, book, ourAddrs, now, delSelf>>

\* Mutant of Restart: the key of the file is not used.
RestartFreshKey ==
    /\ MaySave
    /\ file # None
    /\ key' \in BookKeys /\ book' = loadFromFile(file.addrs)
    /\ ourAddrs' = {}
    /\ delSelf' = "idle"
    /\ UNCHANGED <<file, now>>

\* The process ends, with or without a last save, and starts again: NewAddrBook
\* with a fresh key, then OnStart.
Restart ==
    /\ MaySave
    /\ IF file = None
       THEN key' \in BookKeys /\ book' = EmptyBook
       ELSE key' = file.key /\ book' = loadFromFile(file.addrs)
    /\ ourAddrs' = {}
    /\ delSelf' = "idle"
    /\ UNCHANGED <<file, now>>

\* PickAddress once it has chosen between old and new: from any non-empty bucket,
\* for which it looks until it finds one.
PickAddress(old) ==
    IF old THEN UNION {book.old[b] : b \in OldBuckets}
           ELSE UNION {book.new[b] : b \in NewBuckets}

size == book.nNew + book.nOld

\* How many addresses GetSelection draws, without repetition, from addrLookup.
GetSelection ==
    LET atLeast == IF size < 32 THEN size ELSE 32
        percent == (size * 23) \div 100
        wanted == IF atLeast > percent THEN atLeast ELSE percent
    IN  IF wanted < 250 THEN wanted ELSE 250

Tick ==
    /\ now < MaxTime
    /\ now' = now + 1
    /\ UNCHANGED <<key, book, ourAddrs, file, delSelf>>

Next ==
    \/ \E a \in Addrs : \/ \E src \in Addrs : AddAddress(a, src)
                        \/ MarkGood(a)
                        \/ MarkAttempt(a)
    \/ DelSelfRemove \/ DelSelfAddOurs
    \/ SaveToFile \/ Restart
    \/ Tick

Spec == Init /\ [][Next]_vars

-----------------------------------------------------------------------------
(* Properties.                                                             *)

Books == [lookup : Lookups, new : [NewBuckets -> SUBSET Addrs],
          old : [OldBuckets -> SUBSET Addrs], nNew : Int, nOld : Int]

TypeOK ==
    /\ key \in BookKeys
    /\ book \in Books
    /\ ourAddrs \subseteq Addrs
    /\ file \in [key : BookKeys, addrs : Lookups] \cup {None}
    /\ now \in Int
    /\ delSelf \in {"idle", "between", "done"}

Consistent(bk) ==
    /\ \A b \in NewBuckets :
         bk.new[b] = {a \in OfType(bk, "new") : b \in bk.lookup[a].buckets}
    /\ \A b \in OldBuckets :
         bk.old[b] = {a \in OfType(bk, "old") : b \in bk.lookup[a].buckets}
    /\ \A a \in Known(bk) :
         /\ bk.lookup[a].buckets # {}
         /\ bk.lookup[a].buckets \subseteq
              IF bk.lookup[a].type = "new" THEN NewBuckets ELSE OldBuckets

\* The buckets and the bucket lists of the known addresses describe the same
\* relation, and no known address is without a bucket: addAddress would call
\* Int31n(0) for it, and no eviction would ever free it.
BucketsConsistent == Consistent(book)

Counted(bk) ==
    /\ bk.nNew = Cardinality(OfType(bk, "new"))
    /\ bk.nOld = Cardinality(OfType(bk, "old"))

\* nNew and nOld count the known addresses.  PickAddress loops until it meets a
\* non-empty bucket and GetSelection draws size() elements from addrLookup, so
\* a counter that is too high means an endless loop or a panic.
CountsExact == Counted(book)

\* The two readers rely on the counters: PickAddress, called with a counter that
\* is not zero, finds a non-empty bucket, and GetSelection has enough addresses
\* to draw from.
ReadersReturn ==
    /\ book.nOld # 0 => PickAddress(TRUE) # {}
    /\ book.nNew # 0 => PickAddress(FALSE) # {}
    /\ GetSelection <= Cardinality(Known(book))

\* No bucket exceeds its size by more than the one that the test "> size" lets
\* in, and no new address is in more than MaxNewBucketsPerAddress buckets.
BucketsBounded ==
    /\ \A b \in NewBuckets : Cardinality(book.new[b]) <= NewBucketSize + 1
    /\ \A b \in OldBuckets : Cardinality(book.old[b]) <= OldBucketSize + 1
    /\ \A a \in OfType(book, "new") :
         Cardinality(book.lookup[a].buckets) <= MaxNewBucketsPerAddress

\* An old address is in the bucket that calcOldBucket gives for the current key,
\* also after a restart: the key travels with the addresses in the file.
OldWherePlaced ==
    \A a \in OfType(book, "old") : book.lookup[a].buckets = {calcOldBucket(key, a)}

\* What SaveToFile writes is enough for loadFromFile to rebuild the book exactly,
\* buckets and counters included.
SaveLosesNothing == loadFromFile(book.lookup) = book

\* A new address has never been reached: MarkGood makes it old or drops it.  So
\* the test of LastSuccess against minBadDays in isBad is never decisive.
NewNeverSucceeded == \A a \in OfType(book, "new") : book.lookup[a].success = Never

SavedTable ==
    IF file = None THEN [new |-> {}, old |-> {}]
    ELSE LET typed(t) == {a \in Addrs : file.addrs[a] # None /\ file.addrs[a].type = t}
         IN  [new |-> typed("new"), old |-> typed("old")]

Table == INSTANCE AddrTable WITH new <- OfType(book, "new"), old <- OfType(book, "old"),
                                 ours <- ourAddrs, saved <- SavedTable

\* With all its buckets, counters and bucket lists the book is to its callers a
\* set of new and a set of old addresses: adding an address costs at most one
\* other, only a new address becomes old, and a restart brings back the last
\* save.
ImplementsAddrTable == Table!Spec
=============================================================================
