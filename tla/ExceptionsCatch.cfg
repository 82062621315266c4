SPECIFICATION Spec
CONSTANTS
    Programs <- ThrowInCatch
    Fuel = 2
PROPERTY HandlesTryAndCatch
CHECK_DEADLOCK FALSE
