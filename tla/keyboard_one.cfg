SPECIFICATION Spec
CONSTANTS
    Keys = {42, 54, 29, 58, 30}
    Injectors = {eis}
INVARIANTS
    TypeOK
    CompositorInSync
    KeysAccountedFor
    NoPhantomModifier
PROPERTIES
    AtomicDelivery
