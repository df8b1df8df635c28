CONSTANTS
    c1 = c1
    c2 = c2
    c3 = c3
    g1 = g1
    g2 = g2
    g3 = g3
    NoConn = NoConn
    Null = Null
    LIST_POISON1 = LIST_POISON1
    LIST_POISON2 = LIST_POISON2
    FDs <- SharedFDs
    Pollers <- OnePoller
    N = 1
    Events <- TwoEvents
    Conns <- TwoConns
    MaxFail = 0
    MaxData = 1
    MaxSpurious = 0
    Warm = TRUE
SPECIFICATION SafeSpec
INVARIANTS
    ElistListsEvents
CHECK_DEADLOCK FALSE
