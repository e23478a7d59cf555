SPECIFICATION TurnSpec
CONSTANTS
    Shells = {s1}
    Units = {u1}
    Daemons = {d1, d2}
    Outside = {d2}
    Bus = bus
    None = none
    Foreground = FALSE
CONSTRAINT
    NotActivated
INVARIANTS
    TypeOK
    OneDaemon
    RecordedChildrenEnd
    StopReachesEverything
CHECK_DEADLOCK FALSE
