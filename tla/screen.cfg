SPECIFICATION Spec
CONSTANTS
    Instances = {i1, i2}
    Layouts <- MCLayouts
    Default <- MCDefault
    UintRange = 32
    None = None
INVARIANTS
    TypeOK
    WakesWhatIsShared
    SharedIsRegion
    LandsWhereMeant
