SPECIFICATION Spec
CONSTANTS
    Addr <- LoopAddr
    Marks = {1, 2}
    Flow <- LoopFlow
    Kind <- LoopKind
    ResetPc = 1
    Rev = "0110"
    Protected = FALSE
    Link = "serial"
    Faults = {}
PROPERTY TempIsSet
