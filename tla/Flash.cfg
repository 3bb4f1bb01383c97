SPECIFICATION FlashLevelsSpec
CONSTANTS
    Pages = {"last", "other"}
    Cells = {1, 2}
    Short = {1}
    OldRevision = FALSE
    Freq = 8
    Programs <- UserPrograms
    Data <- Blocks
    FlashFaults = {"link", "slow"}
    Parts = {"large", "medium", "small"}
    SizeOf <- PartSize
    MaxMem = 1
    SerialEnd = 2
    FirstSerial = 1
    Serials = 3
    SerialRange = 2
    UtilFaults = {"link", "flash"}
    BuffSize = 6
    Segment = 4
    Wrap = 16
    Paragraph = 1
    Row = 2
    Fill = "ff"
    WrittenImages <- SavedImages
    GivenFiles <- LineFiles
INVARIANTS LevelsTypeOK WritesExact ReportedGood SerialsUnique HexPlaced HexReadBack
PROPERTIES InfoKept PassesEnd
CHECK_DEADLOCK FALSE
