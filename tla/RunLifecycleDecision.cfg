SPECIFICATION Spec
CONSTANTS
    r1 = r1
    r2 = r2
    w1 = w1
    w2 = w2
    c1 = c1
    c2 = c2
    None = None
    Replicas = {r1}
    Workers = {w1}
    Clients = {c1}
    Home <- MCSingle
    Keys = {k1}
    Artifacts = {a1}
    Steps = 2
    SharedDatabase = TRUE
    Workloads <- MCApprovals
INVARIANTS DecisionsAreReceipted
