\* tries in both segments, two strings fill an arena: insertions and compactions throw
SPECIFICATION Spec
CONSTANTS
    a = a
    b = b
    c = c
    Values <- MCValues
    Policies <- MCPolicies
    LongValues = {}
    NoString = NoString
    kInvalidId = 5
    ArenaCap = 2
    Profile = "CompactMemory"
PROPERTIES
    ImplementsAbstract
