SPECIFICATION Spec
CONSTANTS
    Instances = {i1}
    Layouts <- MCLayouts
    Default <- MCDefault
    UintRange = 32
    None = None
INVARIANTS
    PositionsInExtent
