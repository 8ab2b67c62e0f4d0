SPECIFICATION Spec
CONSTANTS
    x = x
    y = y
    Names <- TwoNames
    ModuleNames <- JustX
    Vals = {1, 2}
    Programs <- MCPrograms
    MaxFuns = 2
    MaxCalls = 3
    MaxDepth = 3
    NoVal = NoVal
INVARIANTS
    LexicalReads
    CellsAreLive
CHECK_DEADLOCK FALSE
