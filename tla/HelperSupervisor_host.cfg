SPECIFICATION FairSpec
CONSTANTS
  Calls = {c1, c2}
  FailureLimit = 2
  MaxOps = 2
  MaxFaults = 3
INVARIANTS HelperIsOwned RecoversAtItsPace
PROPERTY EnabledComesUp
CHECK_DEADLOCK FALSE
