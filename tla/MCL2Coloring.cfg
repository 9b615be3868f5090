SPECIFICATION FairSpec
CONSTANTS
    r1 = r1
    r2 = r2
    NumVars = 4
    NoReg = noreg
    GPR <- MCGPR
    Names <- MCNames
    ColorOrder <- MCColorOrder
    Graphs <- MCGraphs
INVARIANTS
    ProperColoring
    DegreeExact
    Complete
    SpillOnlyIfBlocked
    SimplifiableNeverSpills
PROPERTIES
    Terminates
CHECK_DEADLOCK FALSE
