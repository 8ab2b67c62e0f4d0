SPECIFICATION FairSpec
CONSTANTS
    a = a
    Names <- OneName
    Sizes = {1, 2}
    Programs <- AllPrograms
    MaxDepth = 2
    MaxOps = 5
    MaxMemory = 3
    MaxStdout = 1
    CheckEvery = 2
INVARIANTS
    Balanced
    AccountingExact
PROPERTIES
    RunsEnd
CHECK_DEADLOCK FALSE
