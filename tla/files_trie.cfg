\* static trie with its sidecars and hat-trie delta, three saves, every fault but a
\* removal that fails unnoticed
SPECIFICATION FilesSpec
CONSTANTS
    a = a
    b = b
    Values <- MCValues
    KeyNumber <- MCKeyNumber
    Policies <- MCPolicies
    LongValues = {}
    NoString = NoString
    Absent = Absent
    Torn = Torn
    kInvalidId = 3
    ArenaCap = 4
    Profile = "CompactMemoryMarisa"
    MaxSaves = 3
    MaxFaults = 1
    Faults = {"crash", "throw", "lost_write"}
INVARIANTS
    FilesTypeOK
    LoadAnswersLogical
    LiveStringsAreFound
