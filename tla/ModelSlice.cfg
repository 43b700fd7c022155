CONSTANTS
    a = a
    b = b
    c = c
    Feature = {a, b, c}
    Model <- MCModel
    Query <- MCQuery
SPECIFICATION FairSpec
CHECK_DEADLOCK FALSE
INVARIANT TypeOK SliceExact AssertExact SliceIsLeastClosure
PROPERTY Ends Promised
