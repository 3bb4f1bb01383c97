SPECIFICATION LinksSpec
CONSTANTS
    Jobs <- LinkJobs
    Answers <- LinkAnswers
    Events = 3
    Faults = {"noise", "late", "lose", "write"}
    Buf = 4
    Socket = 3
    Messages <- Formats
    Prints = 3
    Longest = 4
    VaList = "copied"
    RegBuf = 3
    MemSize = 8
    Mtus = {0, 1, 2, 3, 4, 5, 6, 7}
INVARIANTS LinksTypeOK UpIsListening AckIsStop NoOverrun BlockExact FitsMtu
PROPERTIES ImplementsLink ImplementsQueue CallsReturn AllArrives
CHECK_DEADLOCK FALSE
