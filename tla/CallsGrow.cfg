CONSTANTS
  Programs <- MCGrowPrograms
  Arrays <- MCArrays
  Delegates <- MCDelegates
  StackAllocSize = 12
  CallInfoSize = 2
  ArrayAllocSize = 2
SPECIFICATION Spec
INVARIANTS
  NeverOverrun
CHECK_DEADLOCK FALSE
