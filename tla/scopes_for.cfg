CONSTANTS
    Compiler <- MCCompiler
    Typing <- MCTyping
    Programs <- ForLoops
    MAX_LOCALS = 4
    MAX_UPVALUES = 2
    MAX_ARGS = 1
    UINT16_MAX = 65535
SPECIFICATION Spec
CHECK_DEADLOCK FALSE
INVARIANT
    LocalsFit
