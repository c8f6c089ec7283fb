SPECIFICATION FairSpec
CONSTANTS
    Conn = {c1, c2}
    NoConn = NoConn
    MaxSends = 1
    Faults = {"accept", "throw", "bad", "lost", "wrong"}
INVARIANTS
    FreedAfterOnClose
    NothingSurvives
PROPERTIES
    NothingIsLostLater
    DestructorReturns
CHECK_DEADLOCK FALSE
