\* Faults
SPECIFICATION Spec
CONSTANTS
    d1 = d1
    d2 = d2
    d3 = d3
    Deployments = {d1, d2}
    NoDeployment = none
    VersionOf <- MCVersionOf
    MaxBoots = 3
    MaxAttempts = 1
    EagerSwitch = TRUE
    IOErrors = TRUE
    PruneInterrupts = TRUE
INVARIANTS
    OnlyHealthyBootsAreNamed
\* the bound on boots stops the node
CHECK_DEADLOCK FALSE
