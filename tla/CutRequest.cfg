SPECIFICATION Spec
\* The retries and waits play no part.
CONSTANTS
    Calls = {c1}
    Methods = {"GET"}
    Statuses = {200}
    Bodies = {"json", "oversize"}
    MaxRetries = 0
    AttemptTimeout = 1
    BackoffBase = 1
    BackoffMax = 1
    WordBits = 64
    Jumps = {1}
INVARIANTS SoundBodyReturned
CHECK_DEADLOCK FALSE
