SPECIFICATION FairSpec
CONSTANTS
    i1 = i1
    i2 = i2
    r1 = r1
    r2 = r2
    r3 = r3
    a1 = a1
    w1 = w1
    w2 = w2
    Free = Free
    Interps <- TwoInterps
    Runs <- ThreeRuns
    Of <- OfDef
    Readers <- OneReader
    Workers <- TwoWorkers
    MaxToolCalls = 2
    Apis <- BindingsAndRust
INVARIANTS
    RunsExclusive
    NeverQueuesBehindRun
PROPERTIES
    CallsReturn
