SPECIFICATION Spec
CONSTANTS
    Own = Own
    Free = Free
    Clients = {c1}
    MaxClients = 1
    LastFd = 4
    MaxAlerts = 0
    MaxEmergencies = 0
    MaxCommands = 0
    Resets = TRUE
INVARIANT ServerOutlivesClients
CHECK_DEADLOCK FALSE
