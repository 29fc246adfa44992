\* hash maps, every kind of fault
SPECIFICATION FilesSpec
CONSTANTS
    a = a
    b = b
    Values <- MCValues
    KeyNumber <- MCKeyNumber
    Policies <- MCPolicies
    LongValues = {}
    NoString = NoString
    Absent = Absent
    Torn = Torn
    kInvalidId = 3
    ArenaCap = 4
    Profile = "FastLookup"
    MaxSaves = 3
    MaxFaults = 1
    Faults = {"crash", "throw", "lost_write", "lost_remove"}
INVARIANTS
    LoadAnswersLogical
    AcknowledgedSaveSurvives
    FindIdInvertsGetString
    SavedTablesReload
