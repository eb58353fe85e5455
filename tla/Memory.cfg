SPECIFICATION Spec
CONSTANTS
    Runs = {"r1", "r2"}
    Callers = {"c1"}
    Items <- MCItems
    StateAtStart <- FreshOrEstablished
    LargeArtifacts = {"r1"}
    DigestLines = 3
    Attempts = 3
    ContextLines = 4
    Threshold = 5
    MaxFaults = 1
INVARIANTS NewestWritesKept DigestHasHistory BatchAnswered
PROPERTIES ImplementsContract
CHECK_DEADLOCK FALSE
