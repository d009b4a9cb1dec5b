SPECIFICATION Spec
CONSTANTS
    c1 = c1
    c2 = c2
    h1 = h1
    a1 = a1
    a2 = a2
    ip1 = ip1
    ip2 = ip2
    Conns = {c1, c2}
    Hashes = {h1}
    Nonces = {1, 2, 3}
    Accounts = {a1, a2}
    Banned = {}
    MaxHeight = 3
    Addresses = {ip1, ip2}
    Verdict <- Quality
SYMMETRY Symmetry
INVARIANTS
    TypeOK
    OnlyIssuedBlocksPass
    RememberedWhileWorkable
    CountedAtMostThrice
    SubmissionIsGenuine
    LookupSucceeds
    FinderKeepsBonus
