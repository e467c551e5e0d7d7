\* ControlPlaneWait
SPECIFICATION Spec
CONSTANTS
    Checks = {"node", "kube-apiserver", "kube-controller-manager", "kube-scheduler"}
INVARIANTS
    TypeOK
PROPERTIES
    ImplementsReadiness
    WaitEnds
