CONSTANTS
    RxBuf = 6
    CtrMod = 12
    Word = 2
    Hdr = 2
    MaxPkt = 4
    Lens = {2, 3, 5}
    MaxSent = 4
    MaxFail = 1
SPECIFICATION Spec
INVARIANTS TypeOK RingIsWindow
 
CHECK_DEADLOCK FALSE
