SPECIFICATION FairSpec
CONSTANTS
    Pids = {p1, p2}
    Shell = shell
    MaxStages = 2
CHECK_DEADLOCK FALSE
INVARIANTS
    JobsInv
    BackgroundIsChild
    WaitsForChild
PROPERTIES
    LeavesListReapedOrToFg
    FinishedLeaves
