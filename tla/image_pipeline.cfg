SPECIFICATION FairSpec
CONSTANTS
    Rows = 4
    Cols = 4
    m_lowThreshold = 50
    m_highThreshold = 150
    Inputs <- ImageInputs
    Looks <- ZipLooks
    MAX_BUFFER = 2
    MAX = 4
    MaxTyped = 2
    MaxAlerts = 1
INVARIANTS EdgesAreMaxima StaysInside ReceivedInOrder NoByteLost ImageExact EdgesDelivered
PROPERTIES ReceiptEnds
CHECK_DEADLOCK FALSE
