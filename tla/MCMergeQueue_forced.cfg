\* The heartbeat forces a turn; waiting ends with the deadline at the latest.
CONSTANTS
    a = a
    b = b
    c = c
    Threads <- Three
    Runners <- AC
    RunnerOf <- Shared
    JobOf <- Forced
    Visible <- AC
    MaxAttempts = 1
    FaultKinds = {"deadline"}
    MaxFaults = 0
SPECIFICATION TimedSpec
PROPERTY
    AcquireReturns
