CONSTANTS
    Procs = {p1, p2}
    Keys = {k1}
    Runs = {r1}
    Channels = {"x", "instagram"}
    Accounts = {a1}
    None = None
    CanCrash = TRUE
SPECIFICATION FairSpec
PROPERTIES ReservationsSettle RevocationDrains
