CONSTANTS
    DataMax = 3
    AuthSize = 2
    NonceMod = 16
    PipeCap = 1
    Writes <- MCWrites
    ReadSizes = {1, 3}
    Ephs = {1, 2}
    Hashes = {3, 14}
    MayFail = TRUE
SPECIFICATION FairSpec
INVARIANTS
    NoncesAgree
    StreamIntact
PROPERTIES
    StreamArrives
CHECK_DEADLOCK FALSE
