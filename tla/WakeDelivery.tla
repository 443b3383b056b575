---------------------------- MODULE WakeDelivery ----------------------------
(***************************************************************************)
(* What a life promises for the wakes it admits, without turns, files or   *)
(* crashes: a wake waits, is held by the one open turn, and is settled     *)
(* with every other wake that turn holds, once.  A turn that comes to      *)
(* nothing gives all of them back.  Module WakeLife implements this.       *)
(***************************************************************************)
CONSTANTS
    Wakes,         \* the wakes the router may admit
    ForgottenWakes \* those of the person the owner may forget

VARIABLES
    waiting,   \* in the queue or the budget batch
    held,      \* taken out of the queue by the open turn
    settled,   \* their turn ended by itself
    forgotten, \* removed with their person
    lost       \* gone with a turn an error, a second overflow or a crash ended

vars == <<waiting, held, settled, forgotten, lost>>

Seen == waiting \union held \union settled \union forgotten \union lost

Init == waiting = {} /\ held = {} /\ settled = {} /\ forgotten = {} /\ lost = {}

Admit(w) ==
    /\ w \notin Seen
    /\ waiting' = waiting \union {w}
    /\ UNCHANGED <<held, settled, forgotten, lost>>

Take(S) ==
    /\ S \subseteq waiting
    /\ waiting' = waiting \ S
    /\ held' = held \union S
    /\ UNCHANGED <<settled, forgotten, lost>>

GiveBack ==
    /\ waiting' = waiting \union held
    /\ held' = {}
    /\ UNCHANGED <<settled, forgotten, lost>>

Settle ==
    /\ settled' = settled \union held
    /\ held' = {}
    /\ UNCHANGED <<waiting, forgotten, lost>>

Lose ==
    /\ lost' = lost \union held
    /\ held' = {}
    /\ UNCHANGED <<waiting, settled, forgotten>>

\* Only a wake that waits is forgotten: the open turn is ended first.
Forget(S) ==
    /\ S \subseteq waiting \intersect ForgottenWakes
    /\ waiting' = waiting \ S
    /\ forgotten' = forgotten \union S
    /\ UNCHANGED <<held, settled, lost>>

Next ==
    \/ \E w \in Wakes : Admit(w)
    \/ \E S \in SUBSET Wakes : Take(S) \/ Forget(S)
    \/ GiveBack \/ Settle \/ Lose

Spec == Init /\ [][Next]_vars
=============================================================================
