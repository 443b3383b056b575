\* Two of a pause, a restart and a failing call, at any moment.
SPECIFICATION FairSpec
CONSTANTS
  MaxMessages = 2
  MaxPauses = 1
  MaxRestarts = 1
  MaxFaults = 1
  MaxUpsets = 2
INVARIANTS MarkCoversRouted GapIsRemembered WokenOnce
PROPERTY EveryMessageIsHeard
CHECK_DEADLOCK FALSE
