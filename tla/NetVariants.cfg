SPECIFICATION VariantSpec
CONSTANTS
    AuthNeeded = TRUE
    MaxRequests = 10
    Faults = {"read", "write", "reset", "net"}
INVARIANTS TypeOK OwnAnswers TrulyUp OnlyAuthorized NoCrash
PROPERTIES Answers ImplementsOcd
