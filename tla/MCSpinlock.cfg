CONSTANTS
    Threads <- MCThreads
    Api <- MCApi
    Val <- MCVal
    Iterations <- MCIterations
SPECIFICATION Spec
INVARIANTS
    TypeOK
    MutualExclusion
    WordNamesHolder
    NoLostUpdate
PROPERTY AtomicIncrements
CHECK_DEADLOCK FALSE
