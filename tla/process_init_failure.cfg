SPECIFICATION Spec
CONSTANTS
    EisThreads = {e1}
INVARIANTS
    NeverAborts
CHECK_DEADLOCK FALSE
