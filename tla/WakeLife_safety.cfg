\* Two wakes, the first the owner's nudge, the second of the person to forget; two faults.
SPECIFICATION Spec
CONSTANTS
    w1 = w1
    w2 = w2
    Wakes <- Both
    OwnerWakes <- First
    ForgottenWakes <- Second
    MaxTurns = 8
    MaxRounds = 2
    MaxFaults = 2
    HasBudget = TRUE
INVARIANTS
    TypeOK
    WakesAccounted
    NeverAnsweredTwice
    NothingEndsUnheard
    
    QueuedWakesArePoked
    OpenTurnIsRecorded

    
CHECK_DEADLOCK FALSE
