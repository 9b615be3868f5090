SPECIFICATION Spec
CONSTANTS
    Sources <- MCSources
    Layouts <- MCLayouts
    WordBits = 8
    ByteBits = 4
    Addresses <- MCAddresses
    Machines <- MCMachines
INVARIANTS
    ReadsBack
    OwnPushesOnly
    SameMachine
CHECK_DEADLOCK FALSE
