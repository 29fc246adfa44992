\* an array-hash index in the delta, three saves, one removal that fails unnoticed
SPECIFICATION FilesSpec
CONSTANTS
    a = a
    b = b
    Values <- MCOneValue
    KeyNumber <- MCKeyNumber
    Policies <- MCPolicies
    LongValues = {}
    NoString = NoString
    Absent = Absent
    Torn = Torn
    kInvalidId = 2
    ArenaCap = 4
    Profile = "FastLookupArrayMap"
    MaxSaves = 3
    MaxFaults = 1
    Faults = {"lost_remove"}
INVARIANTS
    LiveStringsAreFound
