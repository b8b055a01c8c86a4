SPECIFICATION FairSpec
CONSTANTS
    Own = Own
    Free = Free
    Clients = {c1, c2}
    MaxClients = 1
    LastFd = 5
    MaxAlerts = 1
    MaxEmergencies = 1
    MaxCommands = 1
    Resets = TRUE
INVARIANT LabInv
PROPERTIES EmergencyHandled CommandsAreRead
CHECK_DEADLOCK FALSE
