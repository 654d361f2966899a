SPECIFICATION FairSpec
CONSTANTS
    Client = {c1, c2}
    Subject <- TwoSubjects
    Prefixes <- ShortInLong
    MAX_SUBJECTS = 5
    MaxLines = 4
    Prompt = TRUE
CHECK_DEADLOCK FALSE
INVARIANTS
    ChatInv
    NoneDies
PROPERTY
    HeadersHeard
