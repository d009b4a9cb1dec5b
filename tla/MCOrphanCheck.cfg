SPECIFICATION Spec
CONSTANTS
    a1 = a1
    a2 = a2
    h1 = h1
    h2 = h2
    h3 = h3
    c1 = c1
    c2 = c2
    Accounts = {a1, a2}
    Conns = {c1, c2}
    Hashes = {h1, h2}
    Rewards = {50}
    MaxShares = 1
    PoolFee = 0
    Word = 1024
    CreditWord = 64
    Overflows = {0, 63}
    Precision = 64
    RoundWord = 16
    CheckDepth = 5
    Quiet = TRUE
INVARIANT
    UnrefundedIsChecked
