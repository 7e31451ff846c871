SPECIFICATION Spec
CONSTANTS
    f1 = f1
    f2 = f2
    Fibers = {f1, f2}
    x1 = x1
    x2 = x2
    Values = {x1}
    NULL = NULL
    u1 = u1
    u2 = u2
    Upvals = {u1}
    v1 = v1
    v2 = v2
    v3 = v3
    Vars = {v1}
    MaxHeight = 1
    MaxFrames = 1
    FreesCaptured = TRUE
INVARIANT CapturedVariablesExist
