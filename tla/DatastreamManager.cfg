CONSTANTS
    None = None
    Version = 9
    OldVersion = 8
    Instances = {h1, h2}
    Streams = {s1, s2}
    MaxDeletions = 1
SPECIFICATION FairSpec
INVARIANTS
    TypeOK
    RolloversAreBounded
    UndisturbedUpdateIsComplete
    OnlyDeletionsAreFatal
PROPERTIES
    SetupConverges
