\* one string is too long for the 16-bit key size of the hat-trie
SPECIFICATION LongSpec
CONSTANTS
    a = a
    b = b
    c = c
    Values <- MCValues
    LongValues = {c}
    Policies <- MCPolicies
    NoString = NoString
    kInvalidId = 5
    ArenaCap = 3
    Profile = "CompactMemory"
INVARIANTS
    LiveSizeCountsLiveIds
