CONSTANTS
    Compiler <- MCCompiler
    Typing <- MCTyping
    Programs <- MCPrograms
    MAX_LOCALS = 255
    MAX_UPVALUES = 2
    MAX_ARGS = 1
    UINT16_MAX = 60
SPECIFICATION Spec
CHECK_DEADLOCK FALSE
INVARIANTS
    TypeOK
    HeightIsSlotCount
    ReadsTheRightVariable
    NoUpvalueIsLeft
    StackFits
