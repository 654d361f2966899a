CONSTANTS
    c1 = c1  c2 = c2  c3 = c3
    Clients <- ThreeClients
    Killed <- ThreeClients
    MAX_CLIENTS = 1
    CleanStarts = FALSE
    Lines <- AllLines
    MaxStarts = 2
SPECIFICATION Spec
SYMMETRY ClientSymmetry
INVARIANT TokensAddUp
INVARIANT ServedByCurrentToken
CHECK_DEADLOCK FALSE
