SPECIFICATION BudgetSpec
CONSTANTS
    c1 = c1
    c2 = c2
    c3 = c3
    NoCall = NoCall
    Calls <- TwoCalls
    MaxConcurrentTools = 1
    HasBudget = TRUE
    MaxExecutionTime = 2
    MaxArgs = 2
    Cancellable = TRUE
PROPERTIES
    TasksDrain
    AwaitEnds
