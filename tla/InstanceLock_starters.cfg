\* Four processes, all at a time if they like; each may die between any two of
\* its file operations.
SPECIFICATION LockSpec
CONSTANTS
  Proc = {p1, p2, p3, p4}
  NoFile = NoFile
  MaxAttempts = 5
SYMMETRY Processes
INVARIANTS OneHost LockIsInPlace
PROPERTY RefusedForAReason
CHECK_DEADLOCK FALSE
