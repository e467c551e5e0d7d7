\* CertRotation
SPECIFICATION Spec
CONSTANTS
    CAValidity = 5
    LeafValidity = 3
    ShortLivedCutoff = 5
    MonthsShort = 2
    MonthsLong = 3
    MaxTime = 6
INVARIANTS
    TypeOK
    PKIChains
    NoLeafOutlivesItsCA
    StartsFresh
    KubeconfigsChain
