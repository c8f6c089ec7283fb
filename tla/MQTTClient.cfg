SPECIFICATION FairSpec
CONSTANTS
    Topic = {t1, t2}
    NoTopic = NoTopic
    MaxCalls = 3
    MaxPackets = 2
INVARIANTS
    UnsubscribedIsSilent
    ReaderEndsBeforeSocket
PROPERTIES
    SubscribedIsCalled
    CloseReturns
CHECK_DEADLOCK FALSE
