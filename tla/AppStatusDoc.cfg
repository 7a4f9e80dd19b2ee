\* Two namespaces on one host or two, nothing changes and nothing fails.
SPECIFICATION Spec
CONSTANTS
    h1 = h1
    h2 = h2
    a = a
    None = None
    Namespace = {1, 2}
    Host = {h1, h2}
    Name = {a}
    Container <- Containers
    Command <- Commands
    World <- Worlds
    Reached <- StatesReached
    Changes = 0
    Faults = FALSE
INVARIANT AppsAreFound
CHECK_DEADLOCK FALSE
