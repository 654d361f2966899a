CONSTANTS
    NUM_CHANNELS = 3
    PACKET_SIZE = 3
    Inputs <- Texts11
    LateAcks = FALSE
    MaxInFlight = 1
SPECIFICATION FairSpec
INVARIANT TypeOK
INVARIANT OneInFlight
INVARIANT RoundDelivered
PROPERTY UploadEnds
PROPERTY ImplementsUpload
