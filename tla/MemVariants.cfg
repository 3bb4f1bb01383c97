SPECIFICATION VariantSpec
CONSTANTS
    Pages = 2
    PageSize = 3
    b1 = b1
    b2 = b2
    Bit <- OneBit
    CrcOf <- ImageAsCrc
    CacheOn = FALSE
    Faults = {}
    Writes <- WideWrites
    Reads <- WideReads
    Marks <- WideMarks
    Loaded <- WideLoaded
INVARIANT ArmedWithoutFaults
PROPERTY ImplementsProgramMemory
