\* Generation and doctor: nine manifests, two stores, one change by others.
SPECIFICATION Spec
CONSTANTS
    n1 = n1
    n2 = n2
    s = s
    t = t
    j = j
    k = k
    None = None
    Broken = Broken
    Namespace = {n1, n2}
    Service = {s, t}
    Key = {j, k}
    Value = {"1", "2", "3", "4", "5", "6", "own", "set"}
    Ref <- Refs
    Manifests <- AllManifests
    Store <- Stores
    Later <- LaterSources
    Changes = 1
    Runs = 2
    Faults = TRUE
INVARIANTS TypeOK Precedence AuditExplains MountsServed NamespacesApart DoctorForesees
\* When the runs are used up, and doctor has looked, nothing is left to do.
CHECK_DEADLOCK FALSE
