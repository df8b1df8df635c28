CONSTANTS
    Pids <- MCPids
    Shell = 1
    MsgLens <- MCMsgLens
    MaxFail = 3
SPECIFICATION Spec
CHECK_DEADLOCK FALSE
INVARIANTS
    TypeOK
    Detached
    TidRight
    LogTarget
    LineSafe
    SignalBytes
    WatchesReadEnd
    ColdPollerRefused
