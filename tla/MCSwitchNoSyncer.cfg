CONSTANTS
    a = a
    b = b
    d = d
    ka = ka
    kb = kb
    kd = kd
    self = self
    h1 = h1
    h2 = h2
    h3 = h3
    here = here
    Conns = {a, b}
    Inbound = {a}
    KeyOf <- DistinctKeys
    HostOf <- DistinctHosts
    SelfKey = self
    SelfHost = here
    MaxNumPeers = 1
    NumListeners = 1
    SyncerRuns = FALSE
    Graceful = {}
    Bannable = {}
    MayStop = FALSE
SPECIFICATION FairSpec
PROPERTIES
    AddPeerReturns
CHECK_DEADLOCK FALSE
