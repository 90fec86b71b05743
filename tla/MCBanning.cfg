CONSTANTS
    p = p
    q = q
    oneHost = oneHost
    NetPeers = {p, q}
    HostOf <- MCHostOf
    Workers = {keeper, txs}
    Keeper = keeper
    Offences <- MCOffences
    Threshold = 2
    BanDuration = 2
    Lifetime = 2
    MaxTime = 4
    MaxScore = 3
    MayRestart = TRUE
    None = None
SPECIFICATION FairSpec
INVARIANTS
    NoOffenderMissed
PROPERTIES
    BannedStayOut
    OffenderDisconnected
