SPECIFICATION Spec
CONSTANTS
    Calls <- MCCalls
    ColumnName <- MCColumnName
    Number <- MCNumber
INVARIANTS
    JsonReaderIsExact
    CsvColumnIsExact
PROPERTIES
    OrderlyCallsAreAnswered
CHECK_DEADLOCK FALSE
