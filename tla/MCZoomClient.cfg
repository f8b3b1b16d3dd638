SPECIFICATION Spec
CONSTANTS
    Calls = {c1, c2}
    Asked <- SmallAsked
    Methods = {"GET", "POST"}
    Statuses = {503}
    Bodies = {}
    MaxRetries = 1
    AttemptTimeout = 1
    BackoffBase = 1
    BackoffMax = 1
    WordBits = 64
    Lifetimes = {2}
    Skew = 1
    Timeout = 1
    Jumps = {1}
    MaxTime = 3
    NoToken = NoToken
    Free = Free
INVARIANTS TypeOK
PROPERTIES BearerMargin
\* The calls are made once each.
CHECK_DEADLOCK FALSE
SYMMETRY Symmetry
