\* One update by two roles; each fault once.
SPECIFICATION FairSpec
CONSTANTS
  Role = {"host", "remote"}
  MaxLaunches = 4
  MaxUpdates = 1
  MaxFaults = 1
  MaxSlow = 1
  MaxCrashes = 1
  MaxLost = 1
  MaxOwner = 1
INVARIANTS RolesRunSafely StoppedRoleIsNotForgotten
PROPERTY StoppedRolesComeBack
CHECK_DEADLOCK FALSE
