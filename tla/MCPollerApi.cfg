CONSTANTS
    c = c
    g1 = g1
    g2 = g2
    f1 = f1
    f2 = f2
    gpoller = gpoller
    NoConn = NoConn
    Null = Null
    LIST_POISON1 = LIST_POISON1
    LIST_POISON2 = LIST_POISON2
    FDs <- MCFDs
    Pollers <- MCPollers
    Events <- MCEvents
    Conns <- MCConns
    MaxFail = 2
SPECIFICATION Spec
SYMMETRY Symmetry
INVARIANT TypeOK
PROPERTIES WatchesAsTold NoFalseAlarm
