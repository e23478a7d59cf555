SPECIFICATION Spec
CONSTANTS
    EisThreads = {e1}
    Buttons = {left, right}
    Amounts = {0, 1}
    Wrap = 4
INVARIANTS
    TypeOK
    EventsCompleted
    NoPhantomButton
    ScrollsInFull
