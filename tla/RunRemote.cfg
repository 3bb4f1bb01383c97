SPECIFICATION LiveSpec
CONSTANTS
    Addr <- LoopAddr
    Marks = {2}
    Flow <- LoopFlow
    Kind <- LoopKind
    ResetPc = 1
    Rev = "later"
    Protected = FALSE
    Link = "tcpip"
    Faults = {}
PROPERTY StopsAreSeen
