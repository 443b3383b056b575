\* One wake, of the person the owner may forget, and three disturbances, under fairness.
SPECIFICATION FairSpec
CONSTANTS
    w1 = w1
    w2 = w2
    Wakes <- First
    OwnerWakes <- None
    ForgottenWakes <- First
    MaxTurns = 8
    MaxRounds = 1
    MaxFaults = 3
    HasBudget = TRUE
PROPERTIES
    WakesServed
    ForgetCompletes
CHECK_DEADLOCK FALSE
