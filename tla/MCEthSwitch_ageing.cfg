CONSTANTS
    Clients = {c1, c2}
    c1 = c1
    c2 = c2
    c3 = c3
    Macs = {m1, m2, m3}
    m1 = m1
    m2 = m2
    m3 = m3
    Places <- TwoStations
    Purge = 1
    MaxEntries = 4
    Losses = FALSE
SPECIFICATION SwitchSpec
INVARIANTS WalkSafe
CHECK_DEADLOCK FALSE
