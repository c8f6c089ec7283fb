SPECIFICATION FairSpec
CONSTANTS
    Response <- MCResponse
    MaxRead = 12
    SizeT = 65536
INVARIANTS
    FetchesTheBody
PROPERTIES
    FetchReturns
CHECK_DEADLOCK FALSE
