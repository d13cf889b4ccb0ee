CONSTANTS
    None = None
    e1 = e1
    e2 = e2
    Entities = {e1, e2}
    ChunkSize = 2
    MaxRetries = 1
    MaxEvents = 4
CONSTANTS
    States <- MCStates
    RegistryEntries <- MCPlainRegistryEntries
    Settings <- MCSettings
SYMMETRY MCSymmetry
SPECIFICATION Spec
INVARIANTS
    TypeOK
    EachEventOnce
    DocumentsInOrder
PROPERTIES
    LossIsBounded
    OutagesKeepTheQueue
    DeliversAtMostOnce
    NothingGatheredAfterUnload
