SPECIFICATION Spec
CONSTANTS
    Deployments <- OverflowServed
    Served <- OverflowServed
    Asks <- OverflowAsks
    c1 = c1
    c2 = c2
    Conns = {c1, c2}
    Sids = {"s1"}
    Runs = {"r1"}
    Audience = "squad"
    AllowedIssuers = {"entra"}
    AllowedTenants = {"t1", "t2"}
    IdleTime = 1
    MaxTime = 3
    MaxCrashes = 1
    NoSid = NoSid
    NoRun = NoRun
INVARIANT NeverSilentDefault
SYMMETRY Symmetric
CHECK_DEADLOCK FALSE
