SPECIFICATION FairSpec
CONSTANTS
    Client = {c1, c2}
    Nodes = 3
    MaxLines = 2
    Typed = {"ls", "echo", "cd", "twoIn"}
    Calm = TRUE
CHECK_DEADLOCK FALSE
INVARIANTS
    
    LocalOutputIsLocal
    
PROPERTY
    EveryClientServed
