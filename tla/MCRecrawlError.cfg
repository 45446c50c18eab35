SPECIFICATION Spec
CONSTANTS
    root = root
    menu = menu
    A = A
    G = G
    empty = empty
    text = text
    oops = oops
    null = null
    nobody = nobody
    URL = {root, menu}
    Root = {root}
    Gopher = {menu}
    HostOf <- MCHostOf
    Body = {empty, text, oops}
    Empty = empty
    ErrorText = {oops}
    Null = null
    Nobody = nobody
    Limit = 2
    SkipDays = 2
    MaxTime = 5
    MaxRows = 3
PROPERTY
    RecrawlsOnlyOldAttempts
CONSTRAINT
    OneAtATime
CHECK_DEADLOCK FALSE
