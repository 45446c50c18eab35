SPECIFICATION FairSpecMixed
CONSTANTS
    a1 = a1
    a2 = a2
    b1 = b1
    b2 = b2
    b3 = b3
    A = A
    B = B
    w1 = w1
    w2 = w2
    scheduler = scheduler
    noURL = noURL
    URL <- FiveURLs
    Host <- MCHost
    Worker <- TwoWorkers
    Scheduler = scheduler
    NoURL = noURL
    HostOf <- MCHostOf
    Scheme <- MixedSchemes
    Root = {a1, b1}
    GopherEnable = TRUE
    SkipRecent = TRUE
    DryRun = FALSE
    Blacklist = {}
    Whitelist = {}
    Disallowed = {}
    Unparseable = {}
    PageLinks <- LinkA2B2
    Redirects = {}
    Ageing = {}
    Faults = {"newtx"}
    MayAbandon = TRUE
INVARIANTS
    LinksQueuedOrCrawled
PROPERTIES
    RoundEnds
    FatalStopsMain
CHECK_DEADLOCK FALSE
