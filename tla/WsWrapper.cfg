SPECIFICATION FairSpec
CONSTANTS
    MaxBytes = 4
    MaxMessage = 3
    MaxMessages = 3
    MaxRead = 2
    MaxWrites = 1
INVARIANTS
    CallbacksFindWrapper
PROPERTIES
    ImplementsByteStream
    ClosedEndsHandler
    ArrivedIsRead
CHECK_DEADLOCK FALSE
