CONSTANTS
    client = client
    proxy = proxy
    noHeader = noHeader
    Addresses <- Both
    Loopback <- Proxy
    NoHeader <- noHeader
    TrustProxy = TRUE
    Senders <- ClientOnly
    Requests = {r1, r2}
    Rate = 1
    Burst = 2
    EvictAfter = 4
    MaxSkew = 1
    MaxClock = 5
SPECIFICATION ServerSpec
INVARIANTS
    ServerTypeOK WithinQuota
PROPERTIES
    KeepsPromise
CHECK_DEADLOCK FALSE
