\* Listings of which a page has two arrays.
SPECIFICATION Spec
CONSTANTS
    Tokens = {"t1"}
    Paths = {}
    Headers = {}
    Filters = {"page_size"}
    Allowed = {"page_size"}
    Listings <- MixedListings
    MaxPages = 2
INVARIANTS OneCollection
CHECK_DEADLOCK FALSE
