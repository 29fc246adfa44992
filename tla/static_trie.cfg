SPECIFICATION Spec
CONSTANTS
    BlockSize = 4
    XorLow <- MCXorLow
    FreeBlocks = 2
    MaxKeys = 4
    KeyLists <- MCKeyLists
    Probes <- MCProbes
INVARIANTS
    StaticTypeOK
    FreeListSound
    EveryKeyIsFound
    OtherWordsAreRefused
    PredictiveFindsItsKeys
PROPERTIES
    NodesKeepTheirUnits
CHECK_DEADLOCK FALSE
