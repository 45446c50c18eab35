SPECIFICATION Spec
CONSTANTS
    Segment <- MCSegment
    MaxSegments = 2
    MaxDepth = 5
    NoText = NoText
    NoPath = NoPath
    NoSelector = NoSelector
PROPERTIES RequestCarriesQuery
CHECK_DEADLOCK FALSE
