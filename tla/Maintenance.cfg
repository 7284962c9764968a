SPECIFICATION FairSpec
CONSTANTS
    Messages = {m1}
    Ends = {e1}
    Nothing = Nothing
    DefaultMessage = DefaultMessage
    Addresses = {client, proxy}
    Absent = Absent
    Blank = Blank
    Rest = Rest
    BypassIPs = {client}
    Requests <- MCRequests
INVARIANTS
    TypeOK
    BlockedOnlyInMaintenance
    ServedOnlyForCause
    NoticeIsCurrent
PROPERTIES
    BypassNeverWaits
CHECK_DEADLOCK FALSE
