SPECIFICATION Spec
CONSTANTS
    Client = {c1, c2}
    Nodes = 2
    MaxLines = 2
    Typed = {"echo"}
    Calm = FALSE
SYMMETRY ClientSymmetry
CHECK_DEADLOCK FALSE
INVARIANTS
    ClusterInv
