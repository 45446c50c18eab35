SPECIFICATION SpecQueued
CONSTANTS
    a1 = a1
    a2 = a2
    b1 = b1
    b2 = b2
    b3 = b3
    A = A
    B = B
    w1 = w1
    w2 = w2
    scheduler = scheduler
    noURL = noURL
    URL <- ThreeURLs
    Host <- MCHost
    Worker <- TwoWorkers
    Scheduler = scheduler
    NoURL = noURL
    HostOf <- MCHostOf
    Scheme <- AllGemini
    Root = {a1, b1}
    GopherEnable = FALSE
    SkipRecent = TRUE
    DryRun = FALSE
    Blacklist = {}
    Whitelist = {}
    Disallowed = {}
    Unparseable = {}
    PageLinks <- LinkA2
    Redirects = {a2}
    Ageing = {a1}
    Faults = {"signal"}
    MayAbandon = FALSE
SYMMETRY WorkerSymmetry
INVARIANTS
    TypeOK
    NoDoubleClaim
    ClaimedRowsMarked
    RoundBarrier
    HostPoolExact
PROPERTIES
    ImplementsFrontier
