SPECIFICATION Spec
CONSTANTS
    Tenants = {t1}
    Operators = {op1}
    NoOne = NoOne
    NoRun = NoRun
    Lease = 1
    Stages = 1
    w1 = w1
    w2 = w2
    replica1 = replica1
    replica2 = replica2
    run1 = run1
    run2 = run2
    Runs = {run1, run2}
    Requests <- AnyHeld
    Web = {w1, w2}
    Workers = {}
    Replicas = {replica1, replica2}
    ReplicaOf <- TwoReplicas
    DriveOnPoll = TRUE
    MaxHeld = 1
    Concurrency = 1
    Remote = TRUE
    Expiring = TRUE
    DrivesFitLease = FALSE
    BatchSize = 2
    MaxFaults = 1
SYMMETRY Symmetry
VIEW WithoutContested
INVARIANTS TypeOK GateHolds OneLiveLease QuotaBalanced
PROPERTIES HeldNeedsApproval TerminalStays
CHECK_DEADLOCK FALSE
