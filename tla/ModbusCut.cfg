SPECIFICATION Spec
CONSTANTS
    Client = {c1, c2}
    Size = 2
    Unit = 17
    MaxSets = 1
    c1 = c1
    c2 = c2
    MaxCalls <- MCMaxCalls
    Op <- MCOp
    Cut <- MCCut
    Value32 <- MCValue32
INVARIANTS
    WholeRequestsOnly
CHECK_DEADLOCK FALSE
