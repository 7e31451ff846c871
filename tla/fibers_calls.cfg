CONSTANTS
    Fibers = {f1, f2}
    NULL = NULL
    Arities = {1}
    MaxFrames = 1
    MaxArgs = 1
    MaxTemps = 2
    MaxCalls = 2
    MaxInterprets = 1
    Callees = {"closure", "native", "frame", "fiber"}
    SwitchInCalls = TRUE
SPECIFICATION FairSpec
CONSTRAINT StackBound
INVARIANTS
    TypeOK
    CachedFiberIsCurrent
    YieldsOnlyOutsideCalls
PROPERTY
    ErrorSettles
