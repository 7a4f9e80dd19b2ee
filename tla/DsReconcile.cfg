\* Two namespaces, two versions, every failure of every call.
SPECIFICATION Spec
CONSTANTS
    Namespace = {n1, n2}
    Version = {v1, v2}
    None = None
    Torn = Torn
    Requests <- EveryVerb
    Faults = TRUE
INVARIANTS TypeOK DeploymentsHaveMarker StartReconciles StopReachesAll OthersDeployed
SYMMETRY Symmetry
