SPECIFICATION Spec
CONSTANTS
    Sources <- Doubled
    MaxEffects = 8
INVARIANTS
    SameEffects
CHECK_DEADLOCK FALSE
