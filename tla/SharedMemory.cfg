SPECIFICATION FairSpec
CONSTANTS
    ServerThread = {s1, s2}
    ClientThread = {c1}
    Payload = {p, q}
    NoPayload = NoPayload
    BufferSize = 2
    MaxCalls = 4
    MaxCrashes = 1
INVARIANTS
    TypeOK
    ExclusiveAccess
    ReadsWholeMessage
PROPERTIES
    TokenDiesOnlyWithItsHolder
    ImplementsMailbox
    AwaitedMessageIsTaken
    WriterIsReleased
CHECK_DEADLOCK FALSE
