SPECIFICATION Spec
CONSTANTS
    Stacks <- MCRecommended
    Tokens <- MCTokens
    Params <- MCParams
    NoClaims = NoClaims
INVARIANTS
    EntriesNameTheUser
CHECK_DEADLOCK FALSE
