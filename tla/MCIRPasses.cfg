\* The compiler is sequential and stops when the result has run.
SPECIFICATION Spec
CONSTANTS
    Sources <- MCSources
    Inputs = {0, 1}
    CallResults = {0, 2}
    MaxSteps = 40
INVARIANTS
    SameEffects
    HeapsAgree
    GraphIsCurrent
PROPERTY
    Compiles
CHECK_DEADLOCK FALSE
