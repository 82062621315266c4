CONSTANTS
  Programs <- MCPrograms
  MaxDepth = 6
  OnlyRegular = TRUE
SPECIFICATION Spec
INVARIANTS
  TypeOK
  Dispatch
  NeverUndefined
  ViewFits
  FieldsAgree
  CastsRight
  SuperEnds
CHECK_DEADLOCK FALSE
