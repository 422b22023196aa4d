SPECIFICATION Spec
CONSTANTS
    r1 = r1
    r2 = r2
    home = home
    proxy = proxy
    other = other
    aino = aino
    nobody = nobody
    bad = bad
    Requests = {r1, r2}
    Arrivals <- Clients
    NoAccount = nobody
    Invalid = bad
    Trusted = {proxy}
    Budgets <- Limits
    Window = 3
    MaxRequests = 9
    MaxNow = 4
SYMMETRY Interchangeable
CONSTRAINT Enough
INVARIANT BurstBounded
PROPERTY RetryAfterIsHonest
