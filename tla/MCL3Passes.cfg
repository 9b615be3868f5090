SPECIFICATION Spec
CONSTANTS
    Sources <- MCSources
    MaxEffects = 8
INVARIANTS
    TilesSuffice
    LabelsAreDistinct
    SameEffects
CHECK_DEADLOCK FALSE
