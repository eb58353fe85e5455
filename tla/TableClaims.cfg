SPECIFICATION Spec
CONSTANTS
    Operators = {op1}
    NoOne = NoOne
    Lease = 1
    Ttl = 2
    c1 = c1
    c2 = c2
    c3 = c3
    replica1 = replica1
    replica2 = replica2
    Callers = {c1, c2, c3}
    Replicas = {replica1, replica2}
    ReplicaOf <- ThreeCallers
    Runs = {run1, run2}
    run1 = run1
    run2 = run2
    EtagVisible = FALSE
    MaxCalls = 3
    MaxTime = 2
    MaxFaults = 1
SYMMETRY Symmetry
PROPERTIES OneWinner
CHECK_DEADLOCK FALSE
