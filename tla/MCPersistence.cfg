SPECIFICATION Spec
CONSTANTS
    a1 = a1
    a2 = a2
    b1 = b1
    b2 = b2
    Accounts = {a1, a2}
    Blocks = {b1, b2}
    MaxCrashes = 1
CHECK_DEADLOCK FALSE
INVARIANTS
    TypeOK
    BookingDurable
    DatabasesAgree
    SharesPaidOnce
PROPERTIES
    RefundReachesDisk
    AcctDurable
    BlkDurable
