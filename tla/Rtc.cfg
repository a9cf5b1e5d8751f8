CONSTANTS
    Chips = {"ds3231", "ds3234"}
    Starts = {129599}
    Steps = {1}
    MaxSteps = 1
    Addrs = {2, 9, 12, 15}
    Bytes = {3, 128, 96}
    MaxData = 3
    MaxLen = 2
    SramSize = 2
SPECIFICATION RtcSpec
INVARIANTS RtcTypeOK  Kept
PROPERTIES  AlarmsStick
