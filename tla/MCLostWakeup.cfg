CONSTANTS
    business = business
    network = network
    datanet0 = datanet0
    datanet1 = datanet1
    BusinessTable <- MCBusinessTable
    DatanetTable <- MCDatanetTable
    Nobody = Nobody
    MaxFail = 0
    MaxSpurious = 0
    Prompt = FALSE
SPECIFICATION Spec
CHECK_DEADLOCK FALSE
PROPERTY AllThreadsRun
