SPECIFICATION Spec
CONSTANTS
    Orders <- MCOrders
    Codes <- MCCodes
    Informational <- MCInformational
    MaxWrites = 2
INVARIANTS
    TypeOK
    PanicIsAnswered
    NoMixedBody
    LogMatchesClient
PROPERTIES
    FinishedIsFinal
CHECK_DEADLOCK FALSE
