SPECIFICATION VariantSpec
CONSTANTS
    Addr <- LoopAddr
    Marks = {2}
    Flow <- LoopFlow
    Kind <- LoopKind
    ResetPc = 1
    Rev = "0120"
    Protected = FALSE
    Link = "serial"
    Faults = {"break", "noise"}
    BreakAt = {1, 2, 4}
INVARIANTS VariantsTypeOK KnownStopped PcCoherent BreaksKnown InterruptsKept PromptStopped QuitClean
PROPERTY StopsSeen
