\* Two minor changes, promoted one after the other.
SPECIFICATION Spec
CONSTANTS
    MaxWork = 2
    MaxMain = 2
    Labellings <- MinorLabellings
INVARIANTS EveryMergeReleased
CHECK_DEADLOCK FALSE
