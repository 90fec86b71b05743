CONSTANTS
    a = a
    b = b
    d = d
    ka = ka
    kb = kb
    kd = kd
    self = self
    h1 = h1
    h2 = h2
    h3 = h3
    here = here
    Conns = {a, b}
    Inbound = {a}
    KeyOf <- SameKey
    HostOf <- SameHost
    SelfKey = self
    SelfHost = here
    MaxNumPeers = 1
    NumListeners = 1
    SyncerRuns = TRUE
    Graceful = {}
    Bannable = {h1}
    MayStop = TRUE
SPECIFICATION FairSpec
INVARIANTS
    DeadPeerBeingRemoved
PROPERTIES
    AddPeerReturns
    FailedPeerStops
    ClosedPeerDelisted
CHECK_DEADLOCK FALSE
