SPECIFICATION FairSpec
CONSTANTS
    Tenants = {t1}
    Operators = {op1}
    NoOne = NoOne
    NoRun = NoRun
    Lease = 1
    Stages = 1
    w1 = w1
    w2 = w2
    replica1 = replica1
    replica2 = replica2
    run1 = run1
    run2 = run2
    Runs = {run1}
    Requests <- HeldPipeline
    Web = {w1}
    Workers = {wk1, wk2}
    Replicas = {replica1}
    ReplicaOf <- Alone
    DriveOnPoll = FALSE
    MaxHeld = 2
    Concurrency = 1
    Remote = TRUE
    Expiring = FALSE
    DrivesFitLease = FALSE
    BatchSize = 2
    MaxFaults = 1
PROPERTIES ApprovedRunFinishes
CHECK_DEADLOCK FALSE
