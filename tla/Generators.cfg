CONSTANTS
    Bodies <- MCBodies
    Methods = {"next", "send", "throw", "close"}
    MaxCalls = 4
SPECIFICATION Spec
INVARIANTS
    SuspendedAgrees
    EagerAgrees
    CleanedUp
CHECK_DEADLOCK FALSE
