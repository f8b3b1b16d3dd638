SPECIFICATION Spec
CONSTANTS
    NFamilies = 2
    Paths <- SmallPaths
    Contents = {"v1", "v2"}
    Complete = {"v2"}
    Checkouts <- SmallCheckouts
INVARIANTS TypeOK SyncedMeansEqual CheckIsExact BrokenInOnePlace
PROPERTY CommandEnds
