SPECIFICATION FairSpec
CONSTANTS
    Role = "Client"
    App = {a1, a2}
    Owner = a1
    Listener = listener
    NoThread = NoThread
    PeerFrame <- Frames
    MaxFrames = 3
    MaxSends = 1
INVARIANTS
    OnCloseOnce
    ListenerEndsFirst
    NoSilentClose
    MessagesAsSent
PROPERTIES
    SilentAfterOnClose
    CloseReturns
    PeerCloseIsReported
CHECK_DEADLOCK FALSE
