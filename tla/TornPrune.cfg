\* TornPrune
SPECIFICATION Spec
CONSTANTS
    d1 = d1
    d2 = d2
    d3 = d3
    Deployments = {d1, d2}
    NoDeployment = none
    VersionOf <- MCVersionOf
    MaxBoots = 4
    MaxAttempts = 1
    EagerSwitch = FALSE
    IOErrors = FALSE
    PruneInterrupts = TRUE
PROPERTIES
    PruneKeepsTheMostRecent
\* the bound on boots stops the node
CHECK_DEADLOCK FALSE
