SPECIFICATION Spec
CONSTANTS
    Types = {"E1"}
    Other = "Other"
    Handlers = {"E1", "any"}
    MaxHandlers = 1
    MaxManagers = 2
    MaxIterations = 1
    MaxBlocks = 3
    EnterFails = {1}
    ExitFails = "no signal"
INVARIANTS
    ActiveIsHandled
PROPERTIES
    FinallyAlwaysRuns
    BlocksMeetPython
