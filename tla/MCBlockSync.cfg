CONSTANTS
    p = p
    q = q
    g = g
    a1 = a1
    a2 = a2
    x3 = x3
    b2 = b2
    b3 = b3
    u2 = u2
    Blocks = {g, a1, a2, x3, b2, b3, u2}
    Genesis = g
    ParentOf <- MCParentOf
    HeightOf <- MCHeightOf
    WorkOf <- MCHeightOf
    Invalid = {x3}
    Unspendable = {u2}
    Callers <- MCCallers
    Nil = Nil
    Peers = {p, q}
    TipOf <- MCTipOf
    Announced <- MCAnnounced
    MaxPending = 1
    MaxQuitReq = 1
    MaxQueueDist = 2
    MaxRetries = 1
    MaxJoins <- MCMaxJoins
    MaxSyncs = 2
    MayCrash = TRUE
SPECIFICATION FairSpec
INVARIANTS
    DiskRebuildsIndex
    MainChainExact
    OrphansApart
    BestChosen
    FetcherNeverOrphans
    

    
CHECK_DEADLOCK FALSE
