SPECIFICATION FairSpec
CONSTANTS
    Shells = {s1}
    Units = {u1}
    Daemons = {d1}
    Outside = {}
    Bus = bus
    None = none
    Foreground = TRUE
PROPERTIES
    DaemonEnds
CHECK_DEADLOCK FALSE
