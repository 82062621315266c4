SPECIFICATION FairSpec
CONSTANTS
    Programs <- ConformingPrograms
    Fuel = 2
INVARIANTS TypeOK Agrees PendingOnlyInFinally ReturnAddress FrameIntact StackFits
PROPERTY Terminates
CHECK_DEADLOCK FALSE
