CONSTANTS
  Requests = {1, 2}
  Slots = 1
  RecoverLimit = 1
  MaxUserOps = 2
  FaultKinds = {"push", "reply", "recover", "poll", "api", "process", "worker"}
  MaxFaults = 2
SPECIFICATION FairSpec
CHECK_DEADLOCK FALSE
INVARIANTS
  TypeOK
  QueuedIsListed
  RunAsAsked
PROPERTIES
  CancelStands
  QueuedIsServed
