\* one save with a trie, one crash
SPECIFICATION FilesSpec
CONSTANTS
    a = a
    b = b
    Values <- MCValues
    KeyNumber <- MCKeyNumber
    Policies <- MCPolicies
    LongValues = {}
    NoString = NoString
    Absent = Absent
    Torn = Torn
    kInvalidId = 3
    ArenaCap = 4
    Profile = "CompactMemoryMarisa"
    MaxSaves = 1
    MaxFaults = 1
    Faults = {"crash"}
INVARIANTS
    FindIdInvertsGetString
