CONSTANTS
    FIFO_SIZE = 4
    CtrMod = 8
    Selects = {"X", "XYZ"}
    Formats = {8, 12, 16}
    Levels = {2}
    MaxTicks = 3
    MaxWrites = 7
SPECIFICATION Spec
INVARIANTS TypeOK FifoIsWindow NibblesInOrder
 
CHECK_DEADLOCK FALSE
