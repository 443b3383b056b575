CONSTANTS
  r1 = r1
  r2 = r2
  r3 = r3
  plain = plain
  invitation = invitation
  b1 = b1
  b2 = b2
  Requests <- AllRequests
  Keys <- AllKeys
  Bodies <- AllBodies
  Recoverable <- Invitations
  None = None
  Capacity = 1
  Completed = 1
  Unresolved = 2
  Horizon = 2
  MaxFails = 2
  MaxCrashes = 1
  MaxAborts = 1
SPECIFICATION Spec
SYMMETRY Symmetry
INVARIANTS ResentIsTheSame RecordsAgree
PROPERTY ReceiptsAreKept
CHECK_DEADLOCK FALSE
