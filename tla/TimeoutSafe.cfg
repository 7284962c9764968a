SPECIFICATION FairSpec
CONSTANTS
    Codes <- MCCodes
    Informational <- MCInformational
    HandlerPanics = TRUE
INVARIANTS
    TypeOK
    OneAuthor
    IInv
    TimeoutIsAnswered
    RaceNeedsTimeout
PROPERTIES
    SealedAfterReturn
    MiddlewareReturns
    ImplementsOneAnswer
CHECK_DEADLOCK FALSE
