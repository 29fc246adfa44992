SPECIFICATION Spec
CONSTANTS
    Chars = {1, 2}
    Keys <- MCKeys
    Hash <- MCHash
    v1 = v1
    v2 = v2
    Vals = {v1, v2}
    ValsFor <- MCValsFor
    NoValue = NoValue
    MaxKeySize = 3
    BurstThreshold = 3
    InitBuckets = 1
    MaxBuckets = 1

    MaxLoad = 1
    GrowthFactor = 4
    MaxIndex = 3
INVARIANTS
    TypeOK
    NoEmptyNodes
    TablesSound
    SizeIsExact
    PrefixRangeIsExact
    PrefixesAreFound
PROPERTIES
    ImplementsMap
    InsertReturns
