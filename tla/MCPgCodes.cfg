SPECIFICATION Spec
CONSTANTS
    c1 = c1
    w1 = w1
    w2 = w2
    w3 = w3
    a = a
    b = b
    ra = ra
    Codes = {c1}
    Grants <- MCGrants
    Clients = {a, b}
    Redirects = {ra}
    Workers = {w1, w2, w3}
    Offset <- MCOffset
    DbOffset = 0
    Skew = 1
    CodeTTL = 1
    MaxClock = 4
INVARIANTS
    TypeOK
    OnePlace
PROPERTIES
    RefinesOneShot
    CallsEnd
