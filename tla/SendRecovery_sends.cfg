SPECIFICATION Spec
CONSTANTS
  Plan <- TwoCalls
  Texts = {t1, t2}
  Places = {p1, p2}
  MaxFaults = 2
INVARIANTS ToldAsItIs ClaimedIsSent
CHECK_DEADLOCK FALSE
