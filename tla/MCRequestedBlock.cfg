SPECIFICATION Spec
CONSTANTS
    c1 = c1
    c2 = c2
    ip1 = ip1
    ip2 = ip2
    Conns = {c1, c2}
    Addresses = {ip1, ip2}
    Word = 4
    MaxHeight = 1
    MaxAsks = 2
    Framed = TRUE
CHECK_DEADLOCK FALSE
PROPERTIES
    Served
