\* An inline merge, a retry of it, a manual merge, and one fault of any kind.
CONSTANTS
    a = a
    b = b
    c = c
    Threads <- Three
    Runners <- AC
    RunnerOf <- Shared
    JobOf <- Retried
    Visible <- AC
    MaxAttempts = 1
    FaultKinds = {"exception", "flush", "crash", "deadline"}
    MaxFaults = 1
SPECIFICATION Spec
INVARIANTS
    TypeOK
    QueuedOnce
    FrontHolds
PROPERTY
    ImplementsMergeTurn
