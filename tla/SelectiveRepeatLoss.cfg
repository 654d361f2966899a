SPECIFICATION FairSpec
CONSTANTS
    NUM_CHANNELS = 2
    PACKET_SIZE = 3
    Lengths = {0, 3, 5, 7, 8, 11}
    MaxLate = 2
CHECK_DEADLOCK FALSE
INVARIANTS
    TypeOK
    NoCorruption
    AckMeansWritten
    EofDelivered
PROPERTY
    FinIsSent
