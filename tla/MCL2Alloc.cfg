SPECIFICATION FairSpec
CONSTANTS
    GPR = {"rax", "rcx", "rdi", "r12"}
    RSP = "rsp"
    RAX = "rax"
    RCX = "rcx"
    ArgRegs <- MCArgRegs
    CallerSaved = {"rax", "rcx", "rdi"}
    CalleeSaved = {"r12"}
    Names <- MCNames
    Imm = "imm"
    Labels = {"l", "m", "none"}
    NoLabel = "none"
    NoReg = "noreg"
    ColorOrder <- MCColorOrder
    SpillName <- MCSpillName
    Sources <- MCSources
INVARIANTS
    AllocationSound
    OnlyRegistersLeft
    GraphIsWellFormed
    OnlySourceVariablesSpill
PROPERTIES
    Terminates
CHECK_DEADLOCK FALSE
