SPECIFICATION ImplSpec
CONSTANTS
    Pages = 2
    PageSize = 2
    b1 = b1
    b2 = b2
    Bit <- TwoBits
    CrcOf <- ImageAsCrc
    CacheOn = TRUE
    Faults = {"flash"}
    Writes <- NarrowWrites
    Reads <- NarrowReads
    Marks <- NarrowMarks
    Loaded <- NarrowLoaded
INVARIANT WritesAreVerified
