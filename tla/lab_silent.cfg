SPECIFICATION FairMainSpec
CONSTANTS
    Own = Own
    Free = Free
    Clients = {c1}
    MaxClients = 1
    LastFd = 4
    MaxAlerts = 0
    MaxEmergencies = 1
    MaxCommands = 1
    Resets = FALSE
PROPERTY EmergencyHandled
CHECK_DEADLOCK FALSE
