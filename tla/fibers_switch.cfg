CONSTANTS
    Fibers = {f1, f2, f3}
    NULL = NULL
    Arities = {1}
    MaxFrames = 1
    MaxArgs = 2
    MaxTemps = 3
    MaxCalls = 2
    MaxInterprets = 1
    Callees = {"closure", "native"}
    SwitchInCalls = TRUE
SPECIFICATION Spec
SYMMETRY FiberSymmetry
VIEW LiveView
INVARIANTS
    RunsAreOnChain
    ChainIsAlive
    FrameLayout
    VmCallRunsToCompletion
