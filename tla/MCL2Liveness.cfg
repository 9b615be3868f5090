SPECIFICATION FairSpec
CONSTANTS
    GPR = {"rax", "rcx", "rdi", "r12"}
    RSP = "rsp"
    RAX = "rax"
    RCX = "rcx"
    ArgRegs <- MCArgRegs
    CallerSaved = {"rax", "rcx", "rdi"}
    CalleeSaved = {"r12"}
    Names = {"a", "b"}
    Imm = "imm"
    Labels = {"k", "l", "m", "none"}
    NoLabel = "none"
    Programs <- MCPrograms
INVARIANTS
    TypeOK
    Solved
    LiveIffUseReachable
PROPERTIES
    SetsOnlyGrow
    Terminates
CHECK_DEADLOCK FALSE
