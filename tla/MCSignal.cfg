CONSTANTS
    main = main
    worker = worker
    NoThread = NoThread
    Threads <- MCThreads
    Main = main
    Custom <- MCCustom
    Core <- MCCore
    Faults <- MCFaults
    Capacity = 2
    MaxRaise = 2
SPECIFICATION Spec
CHECK_DEADLOCK FALSE
INVARIANTS TypeOK BytesInStep ReadNeverBlocks ErrnoPreserved
PROPERTIES NothingInvented HandlerReturns MessagesRead
