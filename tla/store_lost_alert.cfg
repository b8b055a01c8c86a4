SPECIFICATION Spec
CONSTANTS
    Entries = {north}
    Keys = {meat}
    Asked = {meat}
    Texts <- OneText
    Events = {}
    NoEvent = NONE
    InitialSupply = 100
    TcpThreads = {t1}
    HttpThreads = {}
    MaxAlerts = 2
    MaxBoots = 1
    Faults = FALSE
INVARIANT AlertsKept
CHECK_DEADLOCK FALSE
