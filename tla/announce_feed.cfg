\* A ring of three, rows and batches of two, two turns of user, browser or network.
SPECIFICATION Spec
CONSTANTS
    p1 = p1  p2 = p2
    Packets = {p1, p2}
    Unhashed = {p2}
    Filters = {0, 1}
    KnownHops = {1}
    RingSize = 3
    Limit = 2
    MaxRecords = 4
    MaxTurns = 2
INVARIANTS TypeOK OneRecordPerPacket RingIsNewest StreamSkipsNothing RowShownOrComing SettledListInOrder
CHECK_DEADLOCK FALSE
