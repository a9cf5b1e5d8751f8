CONSTANTS
    Types = {"I2C", "SPI"}
    Chunk = 2
    MaxLen = 3
    MaxPkts = 3
    MaxEarly = 1
SPECIFICATION Spec
CHECK_DEADLOCK FALSE
INVARIANTS TypeOK AnsweredInOrder 
PROPERTY AllAnswered
