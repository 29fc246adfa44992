\* three strings against thresholds of one and two ids, four seeds, two lambdas
SPECIFICATION Spec
CONSTANTS
    a = a
    b = b
    c = c
    Values <- MCValues
    EmptyString = EmptyString
    Seeds = {0, 1, 2, 3}
    Lambdas = {4, 5}
    DefaultLambda = 4
    Options <- MCOptions
    Phf <- MCPhf
    NoFunction = NoFunction
    U8Ids = 1
    U16Ids = 2
    Absent = Absent
    Torn = Torn
INVARIANTS
    PthashTypeOK
    FindInvertsById
    CompactIdsRoundTrip
    DefaultLambdaNeedsNoSidecar
    CompletedSaveLoads
