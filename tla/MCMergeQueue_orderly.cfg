\* Three direct merges, which no waiter can take for dead.
CONSTANTS
    a = a
    b = b
    c = c
    Threads <- Three
    Runners <- Three
    RunnerOf <- Own
    JobOf <- AllDirect
    Visible <- Three
    MaxAttempts = 1
    FaultKinds = {}
    MaxFaults = 0
SPECIFICATION FairSpec
INVARIANTS
    MergesSerialized
    NoStrandedFront
PROPERTY
    EveryTurnComes
