SPECIFICATION ObjectsSpec
CONSTANTS
    k1 = k1
    k2 = k2
    k3 = k3
    Keys = {k1, k2, k3}
    NIL = NIL
    UNDEFINED = UNDEFINED
    val = val
    Values = {NIL, val}
    MinCapacity = 2
    Hash <- MCHash
    number = number
    one = one
    Objects = {object, number, a}
    Others = {one}
    ObjectProto = object
    WellKnown <- MCWellKnown
    NONE = NONE
    MaxLinks = 3
    Elements = {x, y}
    MaxSize = 4
    Limit = 8
    Top = 40
    FileObjects = {f, g}
    Chunk = 3
    MaxReads = 5
    MaxCloses = 2
INVARIANTS
    ObjectsTypeOK KeysAreFound CountIsExact
    VisitedIsPath SlotIsFirst IsFindsAncestors
    RangeIsExact ClosedOnce BufferFits
PROPERTIES
    ImplementsMap IterationIsExact LookupEnds ImplementsList LoopVisitsAll RangeEnds
