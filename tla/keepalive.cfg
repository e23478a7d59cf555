SPECIFICATION FairSpec
CONSTANTS
    Threads = {t1, t2, t3}
    MaxConnects = 2
    DispatchOutcomes = {"ok", "failed"}
INVARIANTS
    TypeOK
    CountFollowsHost
    ClientKeepsDisplayAwake
    LateDispatchAtMostOnce
PROPERTIES
    DisplayComesBack
    KeepaliveEnds
CHECK_DEADLOCK FALSE
