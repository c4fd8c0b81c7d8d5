CONSTANTS
    Procs = {p1, p2}
    Keys = {k1, k2}
    Runs = {r1}
    Channels = {"instagram"}
    Accounts = {a1, a2}
    None = None
    CanCrash = TRUE
SPECIFICATION Spec
SYMMETRY Symmetry
INVARIANTS OneProviderCall SuccessIsReal FailedBeforeLookup ContainerBeforePost
    OnlyLostRequestsAbandon RevocationsReach
PROPERTIES ImplementsEffectOnce
