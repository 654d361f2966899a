CONSTANTS
    c1 = c1  c2 = c2  c3 = c3
    Clients <- ThreeClients
    Killed = {}
    MAX_CLIENTS = 1
    CleanStarts = TRUE
    Lines <- ExitOnly
    MaxStarts = 2
SPECIFICATION FairSpec
INVARIANT TypeOK
INVARIANT AtMostMaxClients
PROPERTY WaitersGetIn
CHECK_DEADLOCK FALSE
