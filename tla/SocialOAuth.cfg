SPECIFICATION Spec
CONSTANTS
    s1 = s1
    s2 = s2
    t1 = t1
    k1 = k1
    k2 = k2
    Sessions = {s1, s2}
    Tenants = {t1}
    TenantOf <- MCTenantOf
    Channels = {"x", "instagram"}
    Requests = {r1, r2}
    Keyrings <- MCKeyrings
    Bootstrapped <- MCBootstrapped
    None = None
    Ttl = 1
    MaxClock = 1
    MaxStarts = 2
    MaxDisconnects = 1
    MaxRestarts = 1
SYMMETRY MCSymmetry
INVARIANTS ExchangesHappenOnce ConnectionsAreOfTheirSession EventsAreTrue
PROPERTIES SupersededAreRefused
CHECK_DEADLOCK FALSE
