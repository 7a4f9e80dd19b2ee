\* Two namespaces, on one host or two; every kind of status command.
SPECIFICATION FairSpec
CONSTANTS
    h1 = h1
    h2 = h2
    a = a
    None = None
    Namespace = {1, 2}
    Host = {h1, h2}
    Name = {a}
    Container <- Containers
    Command <- Commands
    World <- Worlds
    Reached <- StatesReached
    Changes = 2
    Faults = TRUE
INVARIANTS TypeOK StatusWasTrue UnknownExplained ListingWasTrue OrphansWereOrphans
PROPERTY EveryStatusReturns
\* A behaviour is one command; after it nothing happens.
CHECK_DEADLOCK FALSE
