\* Overlapping applies, stops and deletes, with dry runs and refused deletes.
SPECIFICATION FairSpec
CONSTANTS
    Proc = {p1, p2}
    Host = {h1}
    Service = {a, b}
    Secret = {s1}
    None = None
    Empty = Empty
    Torn = Torn
    Requests <- DryBesideEarnest
    Others = {}
    Exclusive = FALSE
    Faults = FALSE
PROPERTIES EveryCommandReturns HarmlessCommands 
