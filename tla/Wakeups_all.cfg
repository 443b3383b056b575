SPECIFICATION FairSpec
CONSTANTS
  Msgs = {m1, m2}
  Starts <- One
  MaxTime = 2
  DueAt <- Times12
  Period = 1
  EndOnce = 1
  Spacing = 1
  MaxFires = 2
  MaxUpsets <- TwoForTimed
INVARIANTS RingsOnce WatchesFire
PROPERTIES DueIsHeard
CHECK_DEADLOCK FALSE
