SPECIFICATION Spec
CONSTANTS
    WIDTH <- MCWidth
    BYTE <- MCByte
    Declarations <- MCDeclarations
    Functions <- MCFunctions
    Fields <- MCFields
    Enumerators <- MCEnumerators
    Result <- MCResult
    InitialStore <- MCStore
    InitialHeap <- MCHeap
    Programs <- MCPrograms
INVARIANTS
    Agrees
    NeverUndefined
    FlagsRight
    Balanced
    StackFits
CHECK_DEADLOCK FALSE
