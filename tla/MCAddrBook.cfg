CONSTANTS
    a1 = a1
    me = me
    k1 = k1
    k2 = k2
    g1 = g1
    g2 = g2
    None = None
    Addrs = {a1, me}
    Self = me
    Routable = {a1, me}
    Local = {}
    RoutabilityStrict = FALSE
    Groups = {g1, g2, "local", "unroutable"}
    Subnet <- MCSubnet
    Slots = {1, 2}
    BookKeys = {k1, k2}
    NewBuckets = {1, 2}
    OldBuckets = {1, 2}
    NewSlot <- MCNewSlot
    NewBucket <- MCNewBucket
    OldSlot <- MCOldSlot
    OldBucket <- MCOldBucket
    NewBucketSize = 0
    OldBucketSize = 0
    MaxNewBucketsPerAddress = 2
    Minute = 1
    MissingSpan = 0
    BadSpan = 1
    NumRetries = 1
    MaxFailures = 3
    MaxTime = 2
    MaxAttempts = 1
    MaySave = TRUE
SPECIFICATION Spec
INVARIANTS
    BucketsConsistent
    CountsExact
    OldWherePlaced
PROPERTIES
    ImplementsAddrTable
