\* What the prompt of delete promises.
SPECIFICATION Spec
CONSTANTS
    Proc = {p1}
    Host = {h1}
    Service = {a}
    Secret = {s1}
    None = None
    Empty = Empty
    Torn = Torn
    Requests <- OneAtATime
    Others = {}
    Exclusive = TRUE
    Faults = TRUE
INVARIANT DeleteStopsContainers
