SPECIFICATION Spec
CONSTANTS
    Tokens = {"t1", "t2"}
    Paths = {"userId"}
    Headers = {"accept"}
    Filters = {"page_size", "status"}
    Allowed = {"page_size"}
    Listings <- SmallListings
    MaxPages = 5
INVARIANTS TypeOK SameQuestion AllPagesOrNone EveryItemOnce
PROPERTIES WalkEnds
\* A walk that has returned does nothing more, nor does an endless one at the bound.
CHECK_DEADLOCK FALSE
