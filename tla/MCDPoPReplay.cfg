SPECIFICATION Spec
CONSTANTS
    t1 = t1
    t2 = t2
    j1 = j1
    j2 = j2
    j3 = j3
    tok = tok
    noTok = noTok
    noJti = noJti
    k1 = k1
    k2 = k2
    Threads <- MCThreads
    Jtis <- MCJtis
    Proofs <- MCProofs
    Requests <- MCRequests
    NoToken = noTok
    NoJti = noJti
    MaxAge = 1
    CacheMax = 2
    MaxClock = 4
    MaxRestarts = 1
INVARIANT NoReplay
SYMMETRY MCSymmetry
CHECK_DEADLOCK FALSE
