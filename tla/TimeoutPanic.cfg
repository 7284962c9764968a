SPECIFICATION Spec
CONSTANTS
    Orders <- MCRecommendedTimeout
    Codes <- MCCodes
    Informational <- MCInformational
    MaxWrites = 2
INVARIANTS
    PanicIsContained
CHECK_DEADLOCK FALSE
