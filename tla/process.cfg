SPECIFICATION FairSpec
CONSTANTS
    EisThreads = {e1, e2}
INVARIANTS
    TypeOK
    JoinedThreadsAreSafe
    NameImpliesDevices
PROPERTIES
    ShutdownCompletes
CHECK_DEADLOCK FALSE
