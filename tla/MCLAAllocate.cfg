SPECIFICATION Spec
CONSTANTS
    Sources <- AllocateBetween
    Signatures <- MCSignatures
INVARIANTS
    NoRawAcrossAllocate
CHECK_DEADLOCK FALSE
