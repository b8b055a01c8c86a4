SPECIFICATION Spec
CONSTANTS
    Entries = {north, east}
    Keys = {meat}
    Asked = {meat, other}
    Texts <- AllTexts
    Events = {outage}
    NoEvent = NONE
    InitialSupply = 100
    TcpThreads = {t1}
    HttpThreads = {h1}
    MaxAlerts = 1
    MaxBoots = 2
    Faults = TRUE
INVARIANTS StoreInv ExactUntilStale
PROPERTIES ImplementsAtomicStore
CHECK_DEADLOCK FALSE
