SPECIFICATION Spec
CONSTANTS
    AuthNeeded = FALSE
    MaxRequests = 10
    Faults = {"write"}
INVARIANT AnswersAreOwn
