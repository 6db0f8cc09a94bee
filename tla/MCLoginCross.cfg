SPECIFICATION FairSpec
CONSTANTS
    h1 = h1
    h2 = h2
    r1 = r1
    r2 = r2
    a = a
    b = b
    x = x
    ua = ua
    ub = ub
    ux = ux
    k = k
    m = m
    Handlers = {h1}
    Rids = {r1, r2}
    Clients = {a, b}
    Uris = {ua, ub}
    Registered <- MCTwoClients
    Params <- MCCrossParams
    Creds = {k, m}
    Counting = {k}
    Ceremonies <- MCElsewhere
    PublicKeys <- MCOneUnusable
    Exchange = TRUE
    PendingTTL = 1
    ChallengeTTL = 1
    MaxClock = 0
    MaxChallenges = 2
    MaxSignatures = 1
    MaxRestarts = 0
INVARIANT CodeProvesLogin
PROPERTY FinishEnds
CHECK_DEADLOCK FALSE
