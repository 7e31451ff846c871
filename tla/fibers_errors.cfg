CONSTANTS
    Fibers = {f1, f2, f3}
    NULL = NULL
    Arities = {1}
    MaxFrames = 1
    MaxArgs = 1
    MaxTemps = 2
    MaxCalls = 2
    MaxInterprets = 2
    Callees = {"native","closure"}
    SwitchInCalls = FALSE
SPECIFICATION Spec
SYMMETRY FiberSymmetry
VIEW LiveView
INVARIANTS
    DormantIsResumable
    TriedFiberIsNotSkipped
PROPERTY
    ImplementsFiberStack
