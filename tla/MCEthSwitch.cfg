CONSTANTS
    Clients = {c1, c2, c3}
    c1 = c1
    c2 = c2
    c3 = c3
    Macs = {m1, m2, m3}
    m1 = m1
    m2 = m2
    m3 = m3
    Places <- OneStationEach
    Purge = 1
    MaxEntries = 3
    Losses = TRUE
SPECIFICATION SwitchSpec
INVARIANTS SwitchTypeOK WalkSafe Forwarded
CHECK_DEADLOCK FALSE
