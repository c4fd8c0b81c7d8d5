SPECIFICATION Spec
SYMMETRY MCSymmetry
CONSTANTS
    k1 = k1
    k2 = k2
    Clients = {c1, c2}
    Keys = {k1, k2, k3}
    Sessions = {s1}
    Configurations <- MCConfigurations
    Workloads <- MCWorkloads
    None = None
    Window = 2
    Ttl = 2
    CredentialLimit = 1
    SourceLimit = 2
    PrincipalLimit = 2
    TenantLimit = 2
    MaxClock = 3
    MaxTokens = 2
    MaxRestarts = 1
INVARIANTS QuotaIsKept FailuresAreLimited LatestTabIsTrusted
CHECK_DEADLOCK FALSE
