SPECIFICATION FairSpec
CONSTANTS
    Client = {c1, c2, c3}
    NoClient = NoClient
    MaxRequests = 2
    Faults = {"accept", "thread"}
INVARIANTS
    ThreadsEndFirst
PROPERTIES
    DestructorReturns
CHECK_DEADLOCK FALSE
