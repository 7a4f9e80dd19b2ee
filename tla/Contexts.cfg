\* Two processes, two names and the empty one, every failure, edits by hand.
SPECIFICATION Spec
CONSTANTS
    Process = {p1, p2}
    c1 = c1
    Name = {c1, c2}
    NoName = NoName
    Requests <- EveryVerb
    Faults = TRUE
    HandEdits = TRUE
INVARIANTS TypeOK FileSound NothingLost SelectionKept 
SYMMETRY Symmetry
