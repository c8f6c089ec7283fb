SPECIFICATION FairSpec
CONSTANTS
    Client = {c1, c2}
    Topic = {t1}
    NoTopic = NoTopic
    NoClient = NoClient
    Sends = {"publish", "subscribe"}
    OutCap = 1
    MaxPackets = 2
    Faults = {"stop", "hangup", "accept"}
PROPERTIES
    BrokenIsForgotten
    
    StopReturns
CHECK_DEADLOCK FALSE
