SPECIFICATION SpecLeftOver
CONSTANTS
    a1 = a1
    a2 = a2
    b1 = b1
    b2 = b2
    b3 = b3
    A = A
    B = B
    w1 = w1
    w2 = w2
    scheduler = scheduler
    noURL = noURL
    URL <- FiveURLs
    Host <- MCHost
    Worker <- TwoWorkers
    Scheduler = scheduler
    NoURL = noURL
    HostOf <- MCHostOf
    Scheme <- GopherB1B3
    Root = {a1}
    GopherEnable = FALSE
    SkipRecent = TRUE
    DryRun = FALSE
    Blacklist = {a1}
    Whitelist = {a1}
    Disallowed = {a2}
    Unparseable = {b2}
    PageLinks <- LinkA2B3
    Redirects = {noURL, b2}
    Ageing = {}
    Faults = {"db", "timeout"}
    MayAbandon = TRUE
SYMMETRY WorkerSymmetry
INVARIANTS
    IInv
    TxInv
    WaitGroupExact
PROPERTIES
    RemovedOnlyWithRecord
    OtherSchemesUntouched
    ImplementsFrontier
CHECK_DEADLOCK FALSE
