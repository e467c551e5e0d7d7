\* NodeSetup
SPECIFICATION Spec
CONSTANTS
    StableRelease = 9
    Configs <- MCConfigs
    MaxImage = 2
    MaxFaults = 2
    MaxRebuilds = 1
INVARIANTS
    TypeOK
    LeftoversAreDetected
    RecordedIsAdministrable
    KubeletRunsImageVersion
PROPERTIES
    OneClusterAtATime
    RecoveryPathWorks
\* an initialised node may rest
CHECK_DEADLOCK FALSE
