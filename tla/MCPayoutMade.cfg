SPECIFICATION Spec
CONSTANTS
    MaxHeight = 3
    MaxReplies = 3
    MaxTokens = 2
    MaxOrphans = 0
    Framed = TRUE
CHECK_DEADLOCK FALSE
INVARIANT PaidAsBooked
