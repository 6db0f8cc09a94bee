SPECIFICATION EndpointSpec
CONSTANTS
    t1 = t1
    t2 = t2
    c1 = c1
    c2 = c2
    a = a
    b = b
    r = r
    s = s
    v1 = v1
    v2 = v2
    j1 = j1
    j2 = j2
    k1 = k1
    k2 = k2
    noJti = noJti
    noTok = noTok
    Threads = {t1, t2}
    Codes = {c1, c2}
    Grants <- MCGrants
    Clients = {a, b}
    Redirects = {r, s}
    Verifiers = {v1, v2}
    Jtis = {j1, j2}
    Proofs <- MCProofs
    NoJti = noJti
    TokenURL = "token"
    NoProof = NoProof
    NoToken = noTok
    NoKey = NoKey
    CodeTTL = 1
    MaxAge = 1
    CacheMax = 1
    MaxClock = 2
    MaxRestarts = 1
INVARIANTS
    OneAttempt
    NeverTwice
    EndpointTypeOK
    TokenProvesClient
    RefusedCodeYieldsNothing
    OneTokenPerCodeAndProof
PROPERTY RefinesOneShot
SYMMETRY MCSymmetry
CHECK_DEADLOCK FALSE
