SPECIFICATION Spec
CONSTANTS
    Sessions = {s1, s2}
    Apps = {}
    MarkerTTL = 2
    RuntimeDir = TRUE
    None = None
SYMMETRY Symmetry
INVARIANTS
    TypeOK
    MarkerNotOutlived
    SelectSourcesFindsPairedSession
    ClosedReachesXdph
PROPERTIES
    SharesAgainstPermit
    UnattendedUnlessDisturbed
CHECK_DEADLOCK FALSE
