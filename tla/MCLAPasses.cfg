SPECIFICATION Spec
CONSTANTS
    Sources <- MCSources
    Signatures <- MCSignatures
INVARIANTS
    ComputesTheSame
    AccessIsChecked
    ReportsTheAccess
    BlocksAreFormed
CHECK_DEADLOCK FALSE
