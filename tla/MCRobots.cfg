SPECIFICATION Spec
CONSTANTS
    a1 = a1
    a2 = a2
    b1 = b1
    A = A
    B = B
    w1 = w1
    w2 = w2
    noURL = noURL
    URL <- MCURL
    Host <- MCHost
    Worker <- MCWorker
    HostOf <- MCHostOf
    Disallow <- MCDisallow
    Answers = {"rules", "ignored", "timeout", "error"}
    NoURL = noURL
INVARIANTS
    RobotsInv
    DisallowedNotVisited
PROPERTIES
    NoRefetch
    EntriesFinal
