SPECIFICATION Spec
CONSTANTS
    Own = Own
    Free = Free
    Clients = {c1, c2, c3}
    MaxClients = 2
    LastFd = 5
    MaxAlerts = 0
    MaxEmergencies = 1
    MaxCommands = 0
    Resets = FALSE
SYMMETRY Symmetry
PROPERTY EmergencyClosesAll
CHECK_DEADLOCK FALSE
