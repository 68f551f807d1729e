CONSTANTS
    client = client
    proxy = proxy
    noHeader = noHeader
    Addresses <- Both
    Loopback <- Proxy
    NoHeader <- noHeader
    TrustProxy = TRUE
    Senders <- ClientOnly
    Requests = {r1}
    Rate = 1
    Burst = 2
    EvictAfter = 4
    MaxSkew = 1
    MaxClock = 1
SPECIFICATION ServerSpec
INVARIANTS
    DrainsInFlight
CHECK_DEADLOCK FALSE
