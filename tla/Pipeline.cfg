SPECIFICATION FairSpec
CONSTANTS
    ProfileRows <- Rosters
    CatalogRows <- Catalog
    IntentRows <- Intents
    ThinCharter = "-"
    HeroAgents <- Heroes
    c1 = c1
    Conditions = {c1}
    Requests <- MixedRequests
    Tools <- SquadTools
    Casts <- DeployedCasts
    NoProfile = "no team.md"
    AutopilotRelease = TRUE
    Prices = {0, 1}
    CeilingUsd = 2
INVARIANTS TypeOK VerdictMostRestrictive SectionsFollowPlan SpendIsRecorded
PROPERTIES  RunEnds
CHECK_DEADLOCK FALSE
