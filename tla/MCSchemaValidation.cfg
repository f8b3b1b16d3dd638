SPECIFICATION Spec
CONSTANTS
    Components <- SmallComponents
    Cases <- SmallCases
    Schemata <- SmallSchemata
    Prepared <- SmallPrepared
    Payloads <- SmallPayloads
    Size <- SmallSize
INVARIANTS TypeOK OnlyBlanksForgiven BlanksForgiven
\* A call returns once.
CHECK_DEADLOCK FALSE
