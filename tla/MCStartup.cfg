CONSTANTS
    business = business
    network = network
    datanet0 = datanet0
    datanet1 = datanet1
    BusinessTable <- MCBusinessTable
    DatanetTable <- MCDatanetTable
    Nobody = Nobody
    MaxFail = 2
    MaxSpurious = 1
    Prompt = TRUE
SPECIFICATION Spec
CHECK_DEADLOCK FALSE
INVARIANTS TypeOK MainRunsOnReady PhasesInOrder MaskInherited HeldBack
PROPERTY AllThreadsRun
