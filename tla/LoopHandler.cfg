CONSTANTS
    Frequency = 3
SPECIFICATION FairSpec
INVARIANTS
    TypeOK
    StopAllowsOneMoreRun
PROPERTIES
    RunsAreSpaced
    StopEndsTheLoop
    KeepsRunning
