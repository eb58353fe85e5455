SPECIFICATION Spec
CONSTANTS
    Targets = {"main", "other"}
    DefaultTarget = "main"
    KindsOf <- MCKindsOf
    Named = {"", "other", "typo"}
    c1 = c1
    c2 = c2
    Callers = {c1, c2}
    Listers = {"l1"}
    Names <- MCNames
    FolderOf <- MCFolderOf
    PageSize = 1
    MaxCalls = 3
    MaxTroubles = 1
INVARIANTS TypeOK ConflictGivesNewer ListComplete
PROPERTIES CompareSeesContent ErrorNeedsTrouble
SYMMETRY Symmetric
CHECK_DEADLOCK FALSE
