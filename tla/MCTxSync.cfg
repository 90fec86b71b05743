CONSTANTS
    p = p
    q = q
    r = r
    f = f
    node1 = node1
    node2 = node2
    node3 = node3
    t1 = t1
    t2 = t2
    t3 = t3
    Conns = {p, q, r, f}
    KeyOf <- MCKeyOf
    Txs = {t1, t2, t3}
    SizeOf <- MCSizeOf
    Batches <- MCBatches
    PackSize = 2
    Failing = {q}
    MayQuit = TRUE
    Foreign = {node3}
    MaxAsked <- MCMaxAsked
    MayLeave = {p}
    Earlier <- MCEarlier
SPECIFICATION FairHandshakeSpec
INVARIANTS
    OneSendAtATime
    RelayInOrder
    
PROPERTIES
    RelayComplete
CHECK_DEADLOCK FALSE
