SPECIFICATION PgSpec
CONSTANTS
    h1 = h1
    j1 = j1
    acme = acme
    ann = ann
    Handlers = {h1}
    Jtis = {j1}
    Users <- MCOneUser
    Second = 2
    CodeTTL = 1
    AccessTokenTTL = 2
    Leeway = 1
    Skew = 1
    MaxStatements = 2
    MaxClock = 4
    MaxLogins = 1
    MaxRestarts = 1
INVARIANTS
    TypeOK
    CutoffIsFinal
    RevokedUntilExpiry
    LaterSecondUnaffected
PROPERTY CutoffsOnlyAdvance
