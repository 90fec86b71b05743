CONSTANTS
    a = a
    b = b
    c = c
    me = me
    Addrs = {a, b, c, me}
    Self = me
    Refused = {}
    Seeds = {b, me}
    MinOutbound = 2
    DialFactor = 1
    FewPeers = 1
    MaxNumPeers = 2
    NeedAddrs = 2
    MsgLimit = 2
    Inbound = {a}
    Senders = {b}
    Lists <- AddrLists
    MaxRounds = 2
SPECIFICATION FairSpec
INVARIANTS
    OutboundBounded
    DialsNewNodes
    HandledBounded

    
CHECK_DEADLOCK FALSE
