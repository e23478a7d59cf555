SPECIFICATION ShimSpec
CONSTANTS
    Handles = {h1, h2, h3}
    Cap = 2
    NoHandle = NoHandle
    Threads = {t1, t2}
SYMMETRY Symmetry
INVARIANTS
    ShimTypeOK
    TrackedAreOpenCRD
    OpenCRDAreTracked
    StreamingSurvives
    SourcesAccepted
