SPECIFICATION Spec
CONSTANTS
    Conn = {c1}
    NoConn = NoConn
    MaxSends = 1
    Faults = {}
PROPERTIES
    GreetingArrives
CHECK_DEADLOCK FALSE
