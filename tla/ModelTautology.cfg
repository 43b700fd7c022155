CONSTANTS
    a = a
    b = b
    c = c
    Feature = {a, b, c}
    Model <- MCModel
    Query <- MCQuery
SPECIFICATION Spec
CHECK_DEADLOCK FALSE
INVARIANT TautologyReported
