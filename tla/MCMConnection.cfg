CONSTANTS
    x = x
    y = y
    Channels = {x, y}
    Priority <- Weights
    Lengths <- Traffic
    PayloadSize = 2
    QueueCap <- SendCapacities
    RecvCap <- RecvCapacities
    NumBatch = 2
    MaxPings <- OnlyA
    MayStop = {"a"}
    MayPanic = {"a"}
SPECIFICATION FairSpec
INVARIANTS
    InOrderDelivery
PROPERTIES
    
    CloseIsNoticed
CHECK_DEADLOCK FALSE
