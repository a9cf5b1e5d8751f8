CONSTANTS
    Types = {"UART", "ETH"}
    UartSenders = {"loop", "app"}
    EthSenders = {"app"}
    Window = 2
    CredMod = 16
    MaxLen = 3
    MaxSaid = 5
    MaxUsed = 4
SPECIFICATION Spec
INVARIANTS TypeOK UnstalledStreamKept CreditsKept
PROPERTIES Progress
CHECK_DEADLOCK FALSE
