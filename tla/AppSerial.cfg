\* Commands one at a time, every failure; one host, two services.
SPECIFICATION Spec
CONSTANTS
    Proc = {p1}
    Host = {h1}
    Service = {a, b}
    Secret = {s1, s2}
    None = None
    Empty = Empty
    Torn = Torn
    Requests <- EveryVerb
    Others = {"apply secret", "apply namespace", "delete namespace"}
    Exclusive = TRUE
    Faults = TRUE
INVARIANTS TypeOK ContainersHaveHandle StartConverges StopLeavesOnlyStrays
SYMMETRY Symmetry
