\* What the comment on matchingNamespaces says.
SPECIFICATION Spec
CONSTANTS
    Namespace = {n1, n2}
    Version = {v1, v2}
    None = None
    Torn = Torn
    Requests <- EveryVerb
    Faults = TRUE
INVARIANT StartCoversMatching
