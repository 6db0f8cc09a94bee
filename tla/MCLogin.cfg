SPECIFICATION Spec
CONSTANTS
    h1 = h1
    h2 = h2
    r1 = r1
    r2 = r2
    a = a
    b = b
    x = x
    ua = ua
    ub = ub
    ux = ux
    k = k
    m = m
    Handlers = {h1, h2}
    Rids = {r1}
    Clients = {a, x}
    Uris = {ua, ux}
    Registered <- MCOneClient
    Params <- MCAllParams
    Creds = {k}
    Counting = {k}
    Ceremonies <- MCUntouched
    PublicKeys <- MCOwnKeys
    Exchange = FALSE
    PendingTTL = 2
    ChallengeTTL = 1
    MaxClock = 3
    MaxChallenges = 3
    MaxSignatures = 2
    MaxRestarts = 1
INVARIANTS
    TypeOK
    OneCodePerRequest
    ChallengeAnsweredOnce
    NoOpenRedirect
    CodeProvesLogin
PROPERTY PendingSurvivesFailure
SYMMETRY MCSymmetry
CHECK_DEADLOCK FALSE
