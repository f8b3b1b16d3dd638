SPECIFICATION Spec
CONSTANTS
    Callers = {c1, c2}
    Lifetimes = {0, 3}
    Skew = 1
    Timeout = 2
    Jumps = {1}
    MaxTime = 4
    NoToken = NoToken
    Free = Free
INVARIANTS TypeOK SingleFlight FetchOnlyWhenStale
PROPERTIES MarginAtHandOut EveryCallReturns AtomicSource
\* The callers stop calling at MaxTime, and then the model stops.
CHECK_DEADLOCK FALSE
