SPECIFICATION GuardSpec
CONSTANTS
    t1 = t1
    acme = acme
    beta = beta
    secret = secret
    pin = pin
    Threads = {t1}
    Tenants = {acme, beta}
    Ops <- MCOps
    Values = {secret, pin}
    Capacity = 1
    Refill = 1
    GlobalFactor = 2
    MaxBuckets = 2
    MaxClock = 1
    MaxRequests = 3
    MaxBoots = 2
    Environments <- MCEnvironments
INVARIANTS
    CeilingPerThread
    BucketsBounded
    GuardTypeOK
    OnlyOwnPlaintexts
    RowsReadable
    IndexIdentifies
    FailuresAlike
    WorkWithinBudget
    AnsweredIsAudited
    AnswerMeansHealthy
    ProfileHonest
    HeadroomKept
SYMMETRY MCSymmetry
