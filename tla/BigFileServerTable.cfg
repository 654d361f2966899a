SPECIFICATION FairSpec
CONSTANTS
    Client = {c1, c2}
    Patient = TRUE
    MaxSent = 2
    MaxTyped = 2
CHECK_DEADLOCK FALSE
INVARIANTS
    ServerInv
    AllWatched
    PatientClientsHarmless
PROPERTY
    MessagesRead
