SPECIFICATION FlashLevelsSpec
CONSTANTS
    Pages = {"last", "other"}
    Cells = {1, 2}
    Short = {1}
    OldRevision = FALSE
    Freq = 8
    Programs <- UserPrograms
    Data <- Blocks
    FlashFaults = {"link"}
    Parts = {"large"}
    SizeOf <- PartSize
    MaxMem = 1
    SerialEnd = 2
    FirstSerial = 1
    Serials = 1
    SerialRange = 1
    UtilFaults = {}
    BuffSize = 6
    Segment = 4
    Wrap = 16
    Paragraph = 1
    Row = 2
    Fill = "ff"
    WrittenImages <- SavedImages
    GivenFiles <- LineFiles
INVARIANT RegistersRestored
CHECK_DEADLOCK FALSE
