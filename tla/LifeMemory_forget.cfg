CONSTANTS
  theirs = theirs
  others = others
  Facts <- AllFacts
  About <- AboutThem
  Named <- NoFacts
  Deletable <- AboutThem
  KeptTurns = 1
  MaxAsks = 1
  MaxFaults = 1
  MaxModelChanges = 2
SPECIFICATION Spec
CONSTRAINT TwoUpsets
INVARIANTS ForgottenIsGone DeletedIsLeftOut
PROPERTY MemoryIsKept
CHECK_DEADLOCK FALSE
