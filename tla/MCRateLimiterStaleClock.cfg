SPECIFICATION Spec
CONSTANTS
    t1 = t1
    t2 = t2
    acme = acme
    decrypt = decrypt
    Threads = {t1, t2}
    Tenants = {acme}
    Ops = {decrypt}
    Capacity = 1
    Refill = 1
    GlobalFactor = 1
    MaxBuckets = 2
    MaxClock = 2
INVARIANT GlobalCeiling
