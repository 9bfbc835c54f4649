\* Three slots, a user's run, and two faults of any kind.
CONSTANTS
  Slots <- ThreeSlots
  Tolerance = 1
  MinInterval = 2
  StaleAfter = 1
  Horizon = 6
  MaxManual = 1
  FaultKinds = {"crash", "closed", "unwritten"}
  MaxFaults = 2
SPECIFICATION FairSpec
INVARIANTS
  TypeOK
  RunsAlone
PROPERTY
  ImplementsService
CHECK_DEADLOCK FALSE
