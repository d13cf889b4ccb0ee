CONSTANTS
    Options = {full, polling, off}
    Publishing = {full, polling}
    Detecting = {full, off}
    MaxErrors = 2
    MaxBroken = 1
SPECIFICATION FairSpec
INVARIANTS
    TypeOK
    ClientsAreClosed
    OnePipelineAtATime
PROPERTIES
    RefusalReachesTheUser
    RetriesUntilLoaded
    OptionsTakeEffect
