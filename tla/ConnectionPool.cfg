SPECIFICATION FairSpec
CONSTANTS
    Threads = {t1, t2, t3, t4}
    MinSize = 1
    MaxSize = 2
INVARIANTS ConnectionsAreBounded NoLostWakeup
PROPERTIES CheckoutsEnd
