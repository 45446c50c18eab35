SPECIFICATION FairSpec
CONSTANTS
    u1 = u1
    u2 = u2
    w1 = w1
    w2 = w2
    URL <- MCURL
    Worker <- MCWorker
    MaxDbConnections = 2
    Faults = {}
PROPERTIES
    ShutdownEnds
CHECK_DEADLOCK FALSE
