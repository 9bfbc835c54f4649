\* Inline merges: is only one of them running at a time?
CONSTANTS
    a = a
    b = b
    c = c
    Threads <- Three
    Runners <- Three
    RunnerOf <- Own
    JobOf <- AllInline
    Visible <- Three
    MaxAttempts = 1
    FaultKinds = {}
    MaxFaults = 0
SPECIFICATION Spec
INVARIANT
    MergesSerialized
