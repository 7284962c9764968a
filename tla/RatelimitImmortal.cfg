SPECIFICATION FairSpec
CONSTANTS
    Requests = {r1, r2}
    Keys = {k1}
    Limiters <- MCLimiters
    Limit <- MCLimit
    Burst <- MCBurst
    Window <- MCWindow
    Prefix <- MCPrefix
    TicksPerSecond = 2
    EvalLimiters = {}
    Faults = {"expire"}
    Crashes = FALSE
PROPERTIES
    KeysKeepWorking
