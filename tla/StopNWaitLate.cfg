CONSTANTS
    NUM_CHANNELS = 2
    PACKET_SIZE = 3
    Inputs <- Texts11
    LateAcks = TRUE
    MaxInFlight = 3
SPECIFICATION Spec
INVARIANT NoCorruption
INVARIANT AckMeansWritten
INVARIANT EofDelivered
PROPERTY WrittenOnce
