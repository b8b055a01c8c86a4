SPECIFICATION Spec
CONSTANTS
    Root = Root
    Guest = Guest
    Clients = {Root, Guest}
    Family <- ByFamily
    Says <- Lines
    Fds = {f1, f2}
    MaxEmergencies = 1
    Nobody = Nobody
SYMMETRY Numbers
INVARIANTS ServerInv NumbersMatch EntriesHaveThreads NoClientOverlooked RightConnection RolesEarned
PROPERTIES OnlyNewcomersSurvive
CHECK_DEADLOCK FALSE
