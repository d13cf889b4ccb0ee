CONSTANTS
    None = None
    e1 = e1
    e2 = e2
    Entities = {e1}
    ChunkSize = 1
    MaxRetries = 1
    MaxEvents = 2
CONSTANTS
    States <- MCPlainStates
    RegistryEntries <- MCPlainRegistryEntries
    Settings <- MCListenOnly
SPECIFICATION Spec
INVARIANTS
    TeardownStopsPublisher
