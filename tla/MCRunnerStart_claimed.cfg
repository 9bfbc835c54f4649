CONSTANTS
  Starts = {s1, s2}
  FaultKinds = {"claim", "race", "reply", "admin", "launch", "quick", "crash", "torn"}
  MaxFaults = 1
SPECIFICATION FairSpec
INVARIANTS
  TypeOK
  OneProcess
  RunningIsClaimed
  HeaderIsNotDangling
PROPERTIES
  ReleasedStaysReleased
  ClaimReturns
