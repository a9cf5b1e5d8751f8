CONSTANTS
    IdxMod = 2
    MaxTx = 4
    MaxRx = 4
SPECIFICATION Spec
INVARIANTS TypeOK TxInOrder RxOneAtATime
PROPERTIES BothServed
CHECK_DEADLOCK FALSE
