SPECIFICATION FairSpec
CONSTANTS
    Requests = {r1, r2}
    Keys = {k1}
    Limiters <- MCLimiters
    Limit <- MCLimit
    Burst <- MCBurst
    Window <- MCWindow
    Prefix <- MCPrefix
    TicksPerSecond = 2
    EvalLimiters <- MCMixed
    Faults = {"count", "expire", "ttl"}
    Crashes = TRUE
INVARIANTS
    IInv
PROPERTIES
    CounterEventuallyResets
