SPECIFICATION Spec
CONSTANTS
    Own = Own
    Free = Free
    Clients = {c1, c2, c3}
    MaxClients = 2
    LastFd = 5
    MaxAlerts = 0
    MaxEmergencies = 1
    MaxCommands = 1
    Resets = TRUE
SYMMETRY Symmetry
INVARIANTS TypeOK TableInv RolesEarned SuppliesByRoot EveryClientWatched ScanNeverBlocks
PROPERTIES EmergencyEvicts ImplementsHub
CHECK_DEADLOCK FALSE
