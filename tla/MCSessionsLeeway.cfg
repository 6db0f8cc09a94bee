SPECIFICATION Spec
CONSTANTS
    h1 = h1
    j1 = j1
    acme = acme
    ann = ann
    Handlers = {h1}
    Jtis = {j1}
    Users <- MCOneUser
    Second = 2
    CodeTTL = 1
    AccessTokenTTL = 2
    Leeway = 1
    MaxClock = 6
    MaxLogins = 1
    MaxRestarts = 0
INVARIANT RevokedForGood
