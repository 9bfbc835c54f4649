\* A runner no user sees, whose keys its cleanup deletes.
CONSTANTS
    Threads <- Restarted
    JobOf <- Named
    Visible = FALSE
    ExitCodes = {0, 2, 3, 5}
    ExitStatuses <- Unmerged
    Overlap = FALSE
    MaxJobs = 1
    FaultKinds = {"crash", "exception", "pid"}
    MaxFaults = 2
SPECIFICATION Spec
PROPERTIES
    ApprovalHeld
