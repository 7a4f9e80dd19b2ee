\* Every file with one process, single documents with two; both backends.
SPECIFICATION Spec
CONSTANTS
    Process = {p1, p2}
    n1 = n1
    n2 = n2
    v1 = v1
    v2 = v2
    Namespace = {n1, n2}
    Version = {v1, v2}
    None = None
    Object <- Objects
    Offers <- Scenarios
    Faults = TRUE
INVARIANTS TypeOK CompleteSetsApply AppliedAll DeletedIsStopped
PROPERTIES ExportIsTrue StoreSpec
