SPECIFICATION Spec
CONSTANTS
    MaxHeight = 2
    MaxReplies = 2
    MaxTokens = 2
    MaxOrphans = 1
    Framed = FALSE
CHECK_DEADLOCK FALSE
INVARIANTS
    TypeOK
    CoinbaseUnderWay
PROPERTIES
    PendingClears
    AgreementRestored
