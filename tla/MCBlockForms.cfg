CONSTANTS
    Base = 8
    MaxInt31 = 63
    MaxInt63 = 100
    HashLen = 1
    Digit = 4
    AssetIDOf <- MCAssetIDOf
    BlockData <- MCBlockData
    Inputs <- MCInputs
    Outputs <- MCOutputs
    MaxPuts = 2
    MaxTxs = 2
    BTMAssetID = "BTM"
    IsUnspendable <- MCIsUnspendable
    MaxLeaves = 33
SPECIFICATION Spec
INVARIANTS
    BlockTextExact
    EntriesLinked
    RootByLevels
CHECK_DEADLOCK FALSE
