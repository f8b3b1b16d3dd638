SPECIFICATION Spec
CONSTANTS
    MaxWork = 3
    MaxMain = 3
    Labellings <- SmallLabellings
INVARIANTS TypeOK PromotionsAdvance VersionsUnique HighestImpact VersionsRise
\* The works and the pushes to main are bounded.
CHECK_DEADLOCK FALSE
