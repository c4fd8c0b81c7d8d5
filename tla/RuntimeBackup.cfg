SPECIFICATION Spec
CONSTANTS
    t1 = t1
    t2 = t2
    e1 = e1
    e2 = e2
    e3 = e3
    a1 = a1
    Tenants = {t1, t2}
    Events = {e1, e2, e3}
    TenantOf <- MCTenantOf
    Writers = {w1, worker}
    Worker = worker
    Auditors = {a1}
    Legacies <- MCLegacies
    Workloads <- MCWorkloads
    Operator = operator
    Watcher = watcher
    None = None
    Forged = Forged
    MaxSerial = 3
INVARIANTS ChainsAreWhole PagesMissNothing AnnouncedBackupsLoad StateIsBackedUp
           RestoresLast RestoredLedgersOpen
PROPERTIES CheckpointsAreTrue
