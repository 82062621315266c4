CONSTANTS
  Programs <- MCPrograms
  Arrays <- MCArrays
  Delegates <- MCDelegates
  StackAllocSize = 12
  CallInfoSize = 2
  ArrayAllocSize = 2
SPECIFICATION Spec
INVARIANTS
  FramesIntact
  NeverOverrun
  FlagsRight
  ArraysAgree
  BlockFits
CHECK_DEADLOCK FALSE
