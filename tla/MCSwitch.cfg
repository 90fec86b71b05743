CONSTANTS
    a = a
    b = b
    d = d
    ka = ka
    kb = kb
    kd = kd
    self = self
    h1 = h1
    h2 = h2
    h3 = h3
    here = here
    Conns = {a, b, d}
    Inbound = {a, d}
    KeyOf <- MixedKeys
    HostOf <- ThreeHosts
    SelfKey = self
    SelfHost = here
    MaxNumPeers = 1
    NumListeners = 1
    SyncerRuns = TRUE
    Graceful = {d}
    Bannable = {}
    MayStop = FALSE
SPECIFICATION Spec
INVARIANTS
    AddedPeerKnown
    InboundBounded
CHECK_DEADLOCK FALSE
