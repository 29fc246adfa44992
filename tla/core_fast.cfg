\* hash maps in both segments, an arena large enough for every live string
SPECIFICATION Spec
CONSTANTS
    a = a
    b = b
    c = c
    Values <- MCValues
    Policies <- MCPolicies
    LongValues = {}
    NoString = NoString
    kInvalidId = 5
    ArenaCap = 3
    Profile = "FastLookup"
INVARIANTS
    TypeOK
    FindIdInvertsGetString
    LiveSizeCountsLiveIds
    PrefixFindsLiveMatches
    PrefixReportsOnce
    DeltaSizeIsExact
    IInv
PROPERTIES
    IdsAreNeverReused
    CompactionSettles
    ImplementsAbstract
