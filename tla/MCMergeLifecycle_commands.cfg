\* The user repeats the merge, after each of the ways it can end.
CONSTANTS
    Threads <- Commanded
    JobOf <- Named
    Visible = TRUE
    ExitCodes = {0, 2, 3, 5}
    ExitStatuses <- Unmerged
    Overlap = FALSE
    MaxJobs = 1
    FaultKinds = {"exception"}
    MaxFaults = 1
SPECIFICATION FairSpec
INVARIANTS
    TypeOK
    ResultMatchesStatus
PROPERTIES
    ApprovalHeld
    OutcomeStays
    RequestSettles
