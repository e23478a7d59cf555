SPECIFICATION FairSpec
CONSTANTS
    Sessions = {s1}
    Apps = {a1, a2}
    MarkerTTL = 2
    RuntimeDir = TRUE
    None = None
PROPERTIES
    PortalAnswers
CHECK_DEADLOCK FALSE
