CONSTANTS
    Objs = {o1, o2, o3, o4, o5}
    Handles = {h1}
    NULL = NULL
    FREED = FREED
    MAX_ROOTS = 8
    MaxHeld = 3
    MaxRefs = 4
    Functions = {"grow", "copy", "concat", "native", "extension", "method",
                 "clone", "object", "list", "add", "map", "msg", "forward", "notfound",
                 "callWith", "perform", "fiber", "closure", "handle", "openFile",
                 "emptyScript", "syntaxError", "interpret"}
SPECIFICATION Spec
SYMMETRY HeapSymmetry
INVARIANTS
    TypeOK
    LocalsAreAlive
    NothingDangles
    TriColour
    RootsAreTemporary
PROPERTY
    CollectionIsExact
