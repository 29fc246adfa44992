SPECIFICATION Spec
CONSTANTS
    BlockSize = 4
    XorLow <- MCXorLow
    FreeBlocks = 2
    MaxKeys = 2
    KeyLists <- MCKeyLists
    Probes <- MCProbes
INVARIANT NulWordsAreRefused
CHECK_DEADLOCK FALSE
