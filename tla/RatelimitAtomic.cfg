SPECIFICATION Spec
CONSTANTS
    Requests = {r1, r2, r3}
    Keys = {k1, k2}
    Limiters <- MCLimiters
    Limit <- MCLimit
    Burst <- MCBurst
    Window <- MCWindow
    Prefix <- MCPrefix
    TicksPerSecond = 2
    EvalLimiters <- MCLimiters
    Faults = {"count", "expire", "ttl"}
    Crashes = FALSE
SYMMETRY Symmetry
INVARIANTS
    TypeOK
    AtMostLimitPerWindow
    RejectedOnlyByOwnTraffic
    ResetUnderASecondEarly
    RetryAfterUnderASecondEarly
PROPERTIES
    ImplementsFixedWindow
