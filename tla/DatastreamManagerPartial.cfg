CONSTANTS
    None = None
    Version = 9
    OldVersion = 8
    Instances = {h1}
    Streams = {s1, s2}
    MaxDeletions = 0
SPECIFICATION Spec
INVARIANTS
    ReadyMeansRolledOver
