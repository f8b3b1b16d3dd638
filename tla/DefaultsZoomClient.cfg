\* DefaultSettings in half seconds, with a token of one hour.
SPECIFICATION Spec
CONSTANTS
    Calls = {c1, c2}
    Asked <- DefaultsAsked
    Methods = {"GET", "POST"}
    Statuses = {401}
    Bodies = {}
    MaxRetries = 3
    AttemptTimeout = 60
    BackoffBase = 1
    BackoffMax = 16
    WordBits = 64
    Lifetimes = {7200}
    Skew = 120
    Timeout = 60
    Jumps = {1, 2, 60, 7079}
    MaxTime = 7080
    NoToken = NoToken
    Free = Free
PROPERTIES LiveOnTheWire
CHECK_DEADLOCK FALSE
SYMMETRY Symmetry
CONSTRAINT SecondCallLate
