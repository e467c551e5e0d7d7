\* KubeletCredential
SPECIFICATION Spec
CONSTANTS
    CAValidity = 6
    LeafValidity = 3
    ShortLivedCutoff = 5
    MonthsShort = 2
    MonthsLong = 3
    MaxTime = 5
INVARIANTS
    KubeletCanConnect
