SPECIFICATION FairSpec
CONSTANTS
    Tenants = {t1}
    Operators = {op1}
    NoOne = NoOne
    NoRun = NoRun
    Lease = 1
    Stages = 3
    w1 = w1
    w2 = w2
    replica1 = replica1
    replica2 = replica2
    run1 = run1
    run2 = run2
    Runs = {run1}
    Requests <- HeldAndSingle
    Web = {w1, w2}
    Workers = {}
    Replicas = {replica1, replica2}
    ReplicaOf <- TwoReplicas
    DriveOnPoll = TRUE
    MaxHeld = 2
    Concurrency = 1
    Remote = TRUE
    Expiring = FALSE
    DrivesFitLease = TRUE
    BatchSize = 2
    MaxFaults = 2
INVARIANTS SingleDriver ArtifactMatchesStages
PROPERTIES ResultIsFinal ApprovedRunFinishes
CHECK_DEADLOCK FALSE
