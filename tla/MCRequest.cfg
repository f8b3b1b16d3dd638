SPECIFICATION Spec
CONSTANTS
    Calls = {c1}
    Methods = {"GET", "POST"}
    Statuses = {200, 204, 401, 503}
    Bodies = {"empty", "json", "garbage", "oversize", "truncated"}
    MaxRetries = 2
    AttemptTimeout = 2
    BackoffBase = 4
    BackoffMax = 6
    WordBits = 64
    Jumps = {1}
INVARIANTS TypeOK CallTakesAtMost RetryOnlyTransient
PROPERTIES RemotePromise
\* A call that has returned does nothing more.
CHECK_DEADLOCK FALSE
