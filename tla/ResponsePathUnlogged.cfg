SPECIFICATION Spec
CONSTANTS
    Orders <- MCRecommended
    Codes <- MCCodes
    Informational <- MCInformational
    MaxWrites = 2
INVARIANTS
    EveryRequestLogged
CHECK_DEADLOCK FALSE
