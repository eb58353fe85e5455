SPECIFICATION Spec
CONSTANTS
    Runs = {"r1", "r2"}
    Processes = {"p1", "p2"}
    Homes <- SameOrApart
    SeededAs = {"product"}
    Asked <- MCAsked
    Stages <- MCStages
    Profiles = {"default", "product"}
    Roles <- MCRoles
    RootOf <- MCRootOf
    Attempts = 4
    Capacity = 4
    MaxFaults = 1
    Unseeded = "unseeded"
INVARIANTS TypeOK AppendsKept ClobberNeedsRace OneRoster TurnCountsClosedRuns
PROPERTIES ConsumptionCoversRecorded
CHECK_DEADLOCK FALSE
