CONSTANTS
    c1 = c1
    c2 = c2
    c3 = c3
    g1 = g1
    g2 = g2
    g3 = g3
    NoConn = NoConn
    Null = Null
    LIST_POISON1 = LIST_POISON1
    LIST_POISON2 = LIST_POISON2
    FDs <- SharedFDs
    Pollers <- OnePoller
    N = 1
    Events <- ThreeEvents
    Conns <- ThreeConns
    MaxFail = 1
    MaxData = 1
    MaxSpurious = 1
    Warm = FALSE
SPECIFICATION SafeSpec
SYMMETRY Symmetry
PROPERTY ServesConnections
INVARIANTS
    TypeOK
    KernelPointersLive
    ElistNotDangling
    BatchStaysLive
    DestroysItsOwn
CHECK_DEADLOCK FALSE
