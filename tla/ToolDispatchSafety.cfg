SPECIFICATION Spec
CONSTANTS
    c1 = c1
    c2 = c2
    c3 = c3
    NoCall = NoCall
    Calls <- CallsDef
    MaxConcurrentTools = 1
    HasBudget = TRUE
    MaxExecutionTime = 2
    MaxArgs = 2
    Cancellable = FALSE
SYMMETRY Symmetry
INVARIANTS
    PermitsConserved
    ArgsMaterialised
    ResolveIdempotent
    InlineWithinBudget
