\* An existing value of environment, and spec.env: no change by others.
SPECIFICATION Spec
CONSTANTS
    n1 = n1
    n2 = n2
    s = s
    t = t
    j = j
    k = k
    None = None
    Broken = Broken
    Namespace = {n1, n2}
    Service = {s, t}
    Key = {j, k}
    Value = {"1", "2", "3", "4", "5", "6", "own", "set"}
    Ref <- Refs
    Manifests <- AllManifests
    Store <- Stores
    Later <- LaterSources
    Changes = 0
    Runs = 1
    Faults = FALSE
INVARIANT ExistingEnvKept
CHECK_DEADLOCK FALSE
