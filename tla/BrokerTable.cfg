SPECIFICATION Spec
CONSTANTS
    Client = {c1, c2}
    Topic = {t1}
    NoTopic = NoTopic
    NoClient = NoClient
    Sends = {"publish", "subscribe", "unsubscribe", "pingreq", "disconnect", "other"}
    OutCap = 1
    MaxPackets = 4
    Faults = {"stop", "hangup", "accept"}
SYMMETRY Symmetry
INVARIANTS
    TypeOK
    NoDangling
    SameOrder
PROPERTIES
    OnlyToSubscribers
    SubscriptionLostOnlyToFailedWrite
CHECK_DEADLOCK FALSE
