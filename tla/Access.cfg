SPECIFICATION Spec
CONSTANTS
    Stacks <- MCStacks
    Tokens <- MCTokens
    Params <- MCParams
    NoClaims = NoClaims
INVARIANTS
    TypeOK
    ServedIdentityMeetsGuards
    ServedWasAuthenticated
    GoodRequestsAreServed
    
    EntriesAreTraceable
    LimitedByName
    PanicsEndAtInnermost
    RequestsAreLogged
    PreflightNeedsNoIdentity
PROPERTIES
    IdentityIsStable
CHECK_DEADLOCK FALSE
