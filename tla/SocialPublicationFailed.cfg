CONSTANTS
    Procs = {p1}
    Keys = {k1}
    Runs = {r1}
    Channels = {"x"}
    Accounts = {a1}
    None = None
    CanCrash = FALSE
SPECIFICATION Spec
INVARIANT FailedMeansNoPost
