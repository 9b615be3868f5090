SPECIFICATION Spec
CONSTANTS
    Params <- MCParams
    Sources <- MCSources
INVARIANTS
    ScopesAreRespected
    InStep
CHECK_DEADLOCK FALSE
