SPECIFICATION Spec
CONSTANTS
    h1 = h1
    h2 = h2
    r1 = r1
    r2 = r2
    a = a
    b = b
    x = x
    ua = ua
    ub = ub
    ux = ux
    k = k
    m = m
    Handlers = {h1, h2}
    Rids = {r1, r2}
    Clients = {a, x}
    Uris = {ua, ux}
    Registered <- MCOneClient
    Params <- MCOneParam
    Creds = {k}
    Counting = {k}
    Ceremonies <- MCUntouched
    PublicKeys <- MCOwnKeys
    Exchange = FALSE
    PendingTTL = 2
    ChallengeTTL = 1
    MaxClock = 3
    MaxChallenges = 2
    MaxSignatures = 2
    MaxRestarts = 0
PROPERTY SignCountNeverGoesBack
CHECK_DEADLOCK FALSE
