SPECIFICATION Spec
CONSTANTS
    Requests = {r1, r2, r3}
    Keys = {k1}
    Limiters <- MCLimiters
    Limit <- MCLimit
    Burst <- MCBurst
    Window <- MCFractionalWindow
    Prefix <- MCPrefix
    TicksPerSecond = 2
    EvalLimiters <- MCLimiters
    Faults = {}
    Crashes = FALSE
PROPERTIES
    ImplementsFixedWindow
