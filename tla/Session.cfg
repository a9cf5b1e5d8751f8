CONSTANTS
    MaxAttach = 2
    Conns = {c0, c1}
    NoConn = none
    MaxSend = 2
    NumDevices = 2
    MaxList = 1
    MaxFail = 1
SPECIFICATION Spec
INVARIANTS TypeOK Routed 
 
CHECK_DEADLOCK FALSE
