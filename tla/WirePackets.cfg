SPECIFICATION Spec
CONSTANTS
    WordBytes = 2
    TagBits = 8
    MaxFrameBytes = 140
    MaxDepth = 4
    MaxElements = 18
    MaxIntegerBytes = 3
    MaxTagNumber = 255
    Requests <- UnevenRequests
    Replacements = {127}
    Reach = 4
INVARIANTS
    RoundTrip
CHECK_DEADLOCK FALSE
