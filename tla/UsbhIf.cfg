CONSTANTS
    Pipes = {"in1", "out2", "setup0"}
    SetupPipes = {"setup0"}
    MaxPkts = 4
SPECIFICATION Spec
INVARIANTS TypeOK TransfersKept ResetParts
PROPERTY Served
CHECK_DEADLOCK FALSE
