SPECIFICATION Spec
CONSTANTS
    Programs <- TryInCatch
    Fuel = 2
INVARIANT OpcodeValid
CHECK_DEADLOCK FALSE
