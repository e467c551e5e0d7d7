\* Lifecycle
SPECIFICATION Spec
CONSTANTS
    d1 = d1
    d2 = d2
    d3 = d3
    Deployments = {d1, d2, d3}
    NoDeployment = none
    VersionOf <- MCVersionOf
    MaxBoots = 6
    MaxAttempts = 2
    EagerSwitch = FALSE
    IOErrors = FALSE
    PruneInterrupts = FALSE
INVARIANTS
    TypeOK
    QuiescentSnapshot
    NoReconcileOnHalfRestore
    LabelFaithful
    NoDowngradedData
    RollbackFindsBackup
    OnlyHealthyBootsAreNamed
PROPERTIES
    SnapshotIsPointInTime
    PruneKeepsTheMostRecent
\* the bound on boots stops the node
CHECK_DEADLOCK FALSE
