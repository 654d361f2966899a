CONSTANTS
    NUM_CHANNELS = 2
    PACKET_SIZE = 2
    Inputs <- Texts6
    LateAcks = TRUE
    MaxInFlight = 3
SPECIFICATION Spec
INVARIANT RoundDelivered
