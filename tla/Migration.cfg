CONSTANTS
    None = None
    Entities = {light}
SPECIFICATION Spec
INVARIANTS
    EntryWithFrequencyIsUsable
    DetectionIsPreserved
    TargetsArePreserved
PROPERTIES
    MigrationIsAllOrNothing
