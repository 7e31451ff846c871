CONSTANTS
    Fibers = {f1, f2}
    NULL = NULL
    Arities = {0}
    MaxFrames = 1
    MaxArgs = 1
    MaxTemps = 2
    MaxCalls = 1
    MaxInterprets = 1
    Callees = {"frame", "fiber"}
    SwitchInCalls = TRUE
SPECIFICATION Spec
INVARIANT VmCallRunsToCompletion
