SPECIFICATION Spec
CONSTANTS
    r1 = r1
    Procs = {p1, p2}
    Replicas = {r1}
    Home <- MCHome
    Keys = {k1, k2}
    Requests = {q1, q2}
    Evidence = {e1, e2}
    None = None
    MaxFaults = 2
INVARIANTS OutputsAreDurable EventsHaveOutputs
PROPERTIES ApprovalCoversWhatItListed ImplementsEffectOnce
CHECK_DEADLOCK FALSE
