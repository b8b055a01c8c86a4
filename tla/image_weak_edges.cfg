SPECIFICATION Spec
CONSTANTS
    Rows = 4
    Cols = 4
    m_lowThreshold = 50
    m_highThreshold = 150
    Inputs <- FaintInputs
    Looks <- ZipLooks
    MAX_BUFFER = 2
    MAX = 4
    MaxTyped = 0
    MaxAlerts = 0
INVARIANT WeakEdgesConnected
CHECK_DEADLOCK FALSE
