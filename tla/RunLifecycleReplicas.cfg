SPECIFICATION Spec
CONSTANTS
    r1 = r1
    r2 = r2
    w1 = w1
    w2 = w2
    c1 = c1
    c2 = c2
    None = None
    Replicas = {r1, r2}
    Workers = {w1, w2}
    Clients = {c1, c2}
    Home <- MCPair
    Keys = {k1}
    Artifacts = {a1}
    Steps = 2
    SharedDatabase = TRUE
    Workloads <- MCReplicas
INVARIANTS LeaseIsExclusive DecisionsAreReceipted
PROPERTIES StationsRunOnce DecidedBundleIsFixed
