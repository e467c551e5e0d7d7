\* RestoreDurability
SPECIFICATION Spec
CONSTANTS
    MaxCrashes = 2
    MaxErrors = 1
INVARIANTS
    TypeOK
    LiveIsWhole
    UnmarkedIsRestored
PROPERTIES
    RestoreConverges
\* a node that has been restored may rest
CHECK_DEADLOCK FALSE
