\* The listener by itself, with two faults and no user.
CONSTANTS
    Threads <- Automatic
    JobOf <- Named
    Visible = TRUE
    ExitCodes = {0, 1, 3, 5}
    ExitStatuses <- Unmerged
    Overlap = FALSE
    MaxJobs = 1
    FaultKinds = {"crash", "exception", "done", "log"}
    MaxFaults = 2
SPECIFICATION Spec
INVARIANTS
    ActiveIsAttended
    MergedPlanIsDone
