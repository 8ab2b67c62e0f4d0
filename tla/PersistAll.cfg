SPECIFICATION Spec
CONSTANTS
    f = f
    g = g
    u = u
    C = C
    Names <- ThreeNames
    Internal <- Underscore
    Classes <- OneClass
    Programs <- AllPrograms
SYMMETRY Swap
INVARIANTS
    BodyIsOwn
PROPERTIES
    RoundTrips
    NeverMixed
CHECK_DEADLOCK FALSE
