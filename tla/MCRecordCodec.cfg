SPECIFICATION Spec
CONSTANTS
    Byte = 4
    BitOr <- MachineOr
    Addresses <- SortedStrings
    Heaps <- ZeroHeap
    Hashes <- TwoHashes
    AccountInputs <- SomeAccounts
    BlockInputs <- SomeBlocks
    MaxRecords <- Records
    MaxWrites = 2
INVARIANTS
    TypeOK
    RestartKeepsAmounts
    RestartNeverGains
    RestartFindsRecords
    RestartIsStable
    StillComplete
