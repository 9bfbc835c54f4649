\* Three requests, one profile, a user, and one fault of any kind.
CONSTANTS
    Requests <- Three
    KindOf <- Kinds3
    System = {3}
    Profiles = {"main"}
    CandidatesOf <- Main3
    Capacity = 1
    ExecTimeout = 1
    StaleAfter = 1
    UserOps = {"cancel", "retry", "batch"}
    MaxOps = 1
    FaultKinds = {"crash", "chat crash", "release"}
    MaxFaults = 1
SPECIFICATION FairSpec
INVARIANTS
    TypeOK
    CapacityKept
    NothingLeftBehind
    ExecutingIsNotStale
PROPERTIES
    AnswerStands
    RequestSettles
