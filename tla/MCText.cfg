SPECIFICATION Spec
CONSTANTS
    Segment <- MCSegment
    MaxSegments = 2
    MaxDepth = 5
    NoText = NoText
    NoPath = NoPath
    NoSelector = NoSelector
INVARIANTS TextInv OnePath FragmentFates
PROPERTIES RowLeavesWithVisit RequestNamesPage SelectorIsSent DisallowedNotRequested RedirectFollowed NotQueuedAgain
CHECK_DEADLOCK FALSE
