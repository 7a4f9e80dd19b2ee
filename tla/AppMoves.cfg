\* Commands one at a time, every failure; the namespace moves between two hosts.
SPECIFICATION Spec
CONSTANTS
    Proc = {p1}
    Host = {h1, h2}
    Service = {a}
    Secret = {s1}
    None = None
    Empty = Empty
    Torn = Torn
    Requests <- EveryVerb
    Others = {"apply secret", "apply namespace", "delete namespace"}
    Exclusive = TRUE
    Faults = TRUE
INVARIANTS FilesAccounted ReadsAreCurrent
SYMMETRY Symmetry
