------------------------------ MODULE WakeLife ------------------------------
(***************************************************************************)
(* One waifu's life: the wakes waiting for her, the turn that handles them *)
(* and what survives a crash.  The queue file (wakes.json), the life state *)
(* (state.json: currentTurn, failedTurn) and the life log are durable; the *)
(* cycle of src/life/lifeLoop.ts, its timers and its copies of what it     *)
(* read are lost with the process.  Boot repair, a pause, an owner's       *)
(* forget, a provider cooldown, a spent budget, a failed call and a        *)
(* mid-turn compaction interleave with it at every await.                  *)
(*                                                                         *)
(* Fewer than MAX_IMMEDIATE_WAKES wakes are pending here: what the queue   *)
(* does at its limit is module WakeQueue.                                  *)
(***************************************************************************)
EXTENDS Naturals, FiniteSets

CONSTANTS
    Wakes,             \* the wakes the router may admit, one id each
    OwnerWakes,        \* the owner's nudges, exempt from the daily budget
    ForgottenWakes,    \* the wakes of the person the owner may forget
    MaxTurns,          \* turns in one cycle (8 in runCycle)
    MaxRounds,         \* rounds before the turn's time cap is reached
    MaxFaults,         \* how many disturbances a behaviour meets
    HasBudget          \* her daily budget is set (dailyBudgetUsd)

ASSUME LifeAssumption ==
    /\ OwnerWakes \subseteq Wakes
    /\ ForgottenWakes \subseteq Wakes
    /\ MaxTurns \in Nat \ {0}
    /\ MaxRounds \in Nat \ {0}
    /\ MaxFaults \in Nat
    /\ HasBudget \in BOOLEAN

VARIABLES
    \* wakes.json and state.json
    immediate,    \* wakes waiting for her next turn
    deferred,     \* wakes put off until her budget's next day
    inTurn,       \* state.status = "turn"
    turnWakes,    \* state.currentTurn.wakes
    follow,       \* state.failedTurn: none, its follow-up due, or done
    memoryFull,   \* her last request passed the rest trigger (restDue)
    paused,       \* the runtime is paused
    scrub,        \* a pending scrub: none, its owner's call runs, or boot must run it
    \* the process
    pc,           \* where the cycle is
    run,          \* the running turn's wakes
    peek,         \* the immediate wakes last read
    rest,         \* the running turn is a rest turn
    followUp,     \* this turn is a failed turn's follow-up
    reason,       \* why the turn ends
    turns,        \* turns this cycle
    rounds,       \* rounds this turn
    compactions,  \* mid-turn compactions this cycle
    aborted,      \* the turn's abort signal
    rerun,        \* a poke came while a cycle ran
    timer,        \* the coalesce timer is armed
    retry,        \* the retry timer is armed
    followTimer,  \* the follow-up timer is armed
    toPoke,       \* a wake was written and its poke is still to come
    repair,       \* where boot is with her life
    repairWakes,  \* the open turn's wakes boot repair read
    owner,        \* where a forget is
    faults,       \* disturbances so far
    \* history
    admitted,     \* wakes ever queued or deferred
    answered,     \* wakes whose turn ended by itself (or failed: they stay consumed)
    forgotten,    \* wakes a forget removed
    dropped,      \* wakes of a turn a second overflow or an error ended
    crashLost,    \* wakes a crash took that only a compacting turn held
    heard,        \* wakes that were in a model call that answered
    owed,         \* wakes of failed turns whose follow-up turn has not started
    threw,        \* the last turn threw
    missed,       \* a resume met the turn its pause aborted still ending
    leftOpen,     \* a turn that is over may stay in her state while she goes on: a cycle
                  \* began before boot repair was done, or repair or runCycle's catch failed
    overtook      \* a cycle began before boot had queued the scrub it must run

durable == <<immediate, deferred, inTurn, turnWakes, follow, memoryFull, paused, scrub>>
turnVars == <<run, peek, rest, followUp, reason, rounds>>
cycleVars == <<turns, compactions, aborted>>
pokeVars == <<rerun, timer, retry, followTimer, toPoke>>
bootVars == <<repair, repairWakes>>
history == <<admitted, answered, forgotten, dropped, crashLost, heard, owed, threw, missed,
             leftOpen, overtook>>
vars == <<durable, pc, turnVars, cycleVars, pokeVars, bootVars, owner, faults, history>>

-----------------------------------------------------------------------------
(* Control states *)

BeforeTurn == {"check", "prepare", "peeked"}
OpenTurn == {"recorded", "taken", "round", "tools", "foldPeeked", "foldRecorded",
             "foldTaken", "interrupted", "failed", "finish"}
AfterTurn == {"compacting", "restEnd", "outcome"}
TurnPcs == BeforeTurn \union OpenTurn \union AfterTurn
LockQueue == {"lock", "behind"}      \* waits for life:<id>; "behind" a forget
CyclePcs == TurnPcs \union LockQueue \union {"slot", "end"}
PCs == CyclePcs \union {"down", "idle"}

Up == pc # "down"
Repairing == repair \in {"read", "requeue", "idle"}
InCycle == pc \in CyclePcs
Abortable == pc \in TurnPcs \union {"slot"}       \* this.controller is set
HoldsLock == pc \in CyclePcs \ LockQueue
ForgetHoldsLock == owner \in {"scrubbing", "clearing"}

Waiting == immediate \union deferred
OnDisk == Waiting \union turnWakes

\* Mutants: a requeue of what the model has not seen yet; a take that leaves the queue file alone.
RequeueUnheard == immediate \union (run \ heard)
TakeNothing == immediate

\* requeueWakes and takeWakes on the immediate wakes.
Requeue == immediate \union run
Take == immediate \ peek

Disturb == faults < MaxFaults /\ faults' = faults + 1

Init ==
    /\ immediate = {} /\ deferred = {} /\ inTurn = FALSE /\ turnWakes = {}
    /\ follow = "none" /\ memoryFull = FALSE /\ paused = FALSE /\ scrub = "none"
    /\ pc = "idle" /\ run = {} /\ peek = {} /\ rest = FALSE /\ followUp = FALSE
    /\ reason = "done" /\ turns = 0 /\ rounds = 0 /\ compactions = 0 /\ aborted = FALSE
    /\ rerun = FALSE /\ timer = FALSE /\ retry = FALSE /\ followTimer = FALSE
    /\ toPoke = FALSE /\ repair = "none" /\ repairWakes = {} /\ owner = "none"
    /\ faults = 0 /\ admitted = {} /\ answered = {} /\ forgotten = {}
    /\ dropped = {} /\ crashLost = {} /\ heard = {} /\ owed = {} /\ threw = FALSE /\ missed = FALSE
    /\ leftOpen = FALSE /\ overtook = FALSE

-----------------------------------------------------------------------------
(* Wakes and pokes *)

\* Discord's events reach the router also while boot repair still runs.
MayArrive(w) == Up /\ ~paused /\ w \notin admitted

\* WakeRouter.admit: the wake is in the queue file, then her life is poked.
Arrive(w) ==
    /\ MayArrive(w)
    /\ immediate' = immediate \union {w}
    /\ admitted' = admitted \union {w}
    /\ toPoke' = TRUE
    /\ UNCHANGED <<deferred, inTurn, turnWakes, follow, memoryFull, paused, scrub, pc,
                   turnVars, cycleVars, rerun, timer, retry, followTimer, bootVars, owner,
                   faults, answered, forgotten, dropped, crashLost, heard, owed, threw,
                   missed, leftOpen, overtook>>

\* Guard 5 of the router: her budget is spent and the wake is not the owner's.
ArriveOverBudget(w) ==
    /\ HasBudget /\ MayArrive(w) /\ w \notin OwnerWakes /\ Disturb
    /\ deferred' = deferred \union {w}
    /\ admitted' = admitted \union {w}
    /\ UNCHANGED <<immediate, inTurn, turnWakes, follow, memoryFull, paused, scrub, pc,
                   turnVars, cycleVars, pokeVars, bootVars, owner, answered, forgotten,
                   dropped, crashLost, heard, owed, threw, missed, leftOpen, overtook>>

\* Mutant: the batch is queued and stays in the deferred set.
ReleaseTwice ==
    /\ Up /\ ~paused /\ repair \in {"none", "resume"} /\ deferred # {}
    /\ immediate' = immediate \union deferred
    /\ toPoke' = TRUE
    /\ UNCHANGED <<deferred, inTurn, turnWakes, follow, memoryFull, paused, scrub, pc,
                   turnVars, cycleVars, rerun, timer, retry, followTimer, bootVars, owner,
                   faults, history>>

\* LifeScheduler.releaseDeferred on her next day under budget: the batch is one wake.
ReleaseDeferred ==
    /\ Up /\ ~paused /\ repair \in {"none", "resume"} /\ deferred # {}
    /\ immediate' = immediate \union deferred
    /\ deferred' = {}
    /\ toPoke' = TRUE
    /\ UNCHANGED <<inTurn, turnWakes, follow, memoryFull, paused, scrub, pc, turnVars,
                   cycleVars, rerun, timer, retry, followTimer, bootVars, owner, faults,
                   history>>

\* Mutant: a poke during a cycle is ignored.
PokeWhenIdle ==
    /\ timer' = (timer \/ ~InCycle)
    /\ UNCHANGED rerun

\* Life.poke: during a cycle it asks for another, else it arms the coalesce timer.
PokeLife ==
    /\ rerun' = (rerun \/ InCycle)
    /\ timer' = (timer \/ ~InCycle)

Poke ==
    /\ Up /\ toPoke
    /\ PokeLife
    /\ toPoke' = FALSE
    /\ UNCHANGED <<durable, pc, turnVars, cycleVars, retry, followTimer, bootVars, owner,
                   faults, history>>

RetryFires ==
    /\ Up /\ retry
    /\ PokeLife
    /\ retry' = FALSE
    /\ UNCHANGED <<durable, pc, turnVars, cycleVars, followTimer, toPoke, bootVars, owner,
                   faults, history>>

FollowUpFires ==
    /\ Up /\ followTimer
    /\ PokeLife
    /\ followTimer' = FALSE
    /\ UNCHANGED <<durable, pc, turnVars, cycleVars, retry, toPoke, bootVars, owner, faults,
                   history>>

-----------------------------------------------------------------------------
(* The cycle: her life lock, then a turn slot, then up to MaxTurns turns *)

StartCycle ==
    /\ pc = "idle" /\ timer
    /\ timer' = FALSE
    /\ pc' = IF owner \in {"waiting", "scrubbing", "clearing"} THEN "behind" ELSE "lock"
    /\ threw' = FALSE /\ missed' = FALSE
    /\ leftOpen' = (leftOpen \/ Repairing)
    /\ overtook' = (overtook \/ (scrub = "boot" /\ owner = "none"))
    /\ UNCHANGED <<durable, turnVars, cycleVars, rerun, retry, followTimer, toPoke, bootVars,
                   owner, faults, admitted, answered, forgotten, dropped, crashLost, heard,
                   owed>>

\* Mutant: a mutex that does not queue.
AnyTurnForLock == pc \in LockQueue /\ ~ForgetHoldsLock

\* The keyed mutex is first come, first served.
MyTurnForLock == pc = "lock" \/ (pc = "behind" /\ owner # "waiting" /\ ~ForgetHoldsLock)

TakeLock ==
    /\ MyTurnForLock
    /\ pc' = "slot"
    /\ aborted' = FALSE
    /\ UNCHANGED <<durable, turnVars, turns, compactions, pokeVars, bootVars, owner, faults,
                   history>>

\* Sealed for an update restart: no lease, so nothing runs and she tries again later.
Sealed ==
    /\ MyTurnForLock /\ Disturb
    /\ retry' = TRUE
    /\ pc' = "end"
    /\ UNCHANGED <<durable, turnVars, cycleVars, rerun, timer, followTimer, toPoke, bootVars,
                   owner, history>>

TakeSlot ==
    /\ pc = "slot"
    /\ pc' = IF aborted THEN "end" ELSE "check"
    /\ turns' = 1
    /\ compactions' = 0
    /\ UNCHANGED <<durable, turnVars, aborted, pokeVars, bootVars, owner, faults, history>>

EndCycle ==
    /\ pc = "end"
    /\ pc' = "idle"
    /\ timer' = (timer \/ rerun)
    /\ rerun' = FALSE
    /\ UNCHANGED <<durable, turnVars, cycleVars, retry, followTimer, toPoke, bootVars, owner,
                   faults, history>>

\* The next turn of the cycle has a controller of its own.
NextTurn ==
    IF turns < MaxTurns
    THEN pc' = "check" /\ turns' = turns + 1 /\ aborted' = FALSE
    ELSE pc' = "end" /\ UNCHANGED <<turns, aborted>>

-----------------------------------------------------------------------------
(* The start of a turn: what it checks before it takes a wake *)

\* 60 s after the failure, when the follow-up timer fires.
FollowUpDue == follow = "due" /\ ~followTimer
SomethingDue == immediate # {} \/ FollowUpDue \/ memoryFull

NothingToDo ==
    /\ pc = "check"
    /\ paused \/ ~SomethingDue
    /\ pc' = "end"
    /\ UNCHANGED <<durable, turnVars, cycleVars, pokeVars, bootVars, owner, faults, history>>

\* Her provider cools down after a quota or billing error: the wakes stay queued.
WaitForProvider ==
    /\ pc = "check" /\ ~paused /\ SomethingDue /\ Disturb
    /\ retry' = TRUE
    /\ pc' = "end"
    /\ UNCHANGED <<durable, turnVars, cycleVars, rerun, timer, followTimer, toPoke, bootVars,
                   owner, history>>

\* Her daily budget is spent: deferImmediate keeps the owner's wakes only.
BudgetSpent ==
    /\ HasBudget /\ pc = "check" /\ ~paused /\ SomethingDue /\ Disturb
    /\ immediate' = immediate \intersect OwnerWakes
    /\ deferred' = deferred \union (immediate \ OwnerWakes)
    /\ followUp' = FollowUpDue
    /\ pc' = IF immediate' = {} THEN "end" ELSE "prepare"
    /\ UNCHANGED <<inTurn, turnWakes, follow, memoryFull, paused, scrub, run, peek, rest,
                   reason, rounds, cycleVars, pokeVars, bootVars, owner, history>>

CheckTurn ==
    /\ pc = "check" /\ ~paused /\ SomethingDue
    /\ followUp' = FollowUpDue
    /\ pc' = "prepare"
    /\ UNCHANGED <<durable, run, peek, rest, reason, rounds, cycleVars, pokeVars, bootVars,
                   owner, faults, history>>

\* prepareEpoch is over: aborted meanwhile, nothing was taken.
PrepareAborted ==
    /\ pc = "prepare" /\ aborted
    /\ pc' = "end"
    /\ UNCHANGED <<durable, turnVars, cycleVars, pokeVars, bootVars, owner, faults, history>>

\* Her memory is nearly full: she rests before any queued wake is delivered.
StartRest ==
    /\ pc = "prepare" /\ ~aborted /\ memoryFull
    /\ inTurn' = TRUE /\ turnWakes' = {}
    /\ run' = {} /\ rest' = TRUE /\ rounds' = 0
    /\ pc' = "round"
    /\ UNCHANGED <<immediate, deferred, follow, memoryFull, paused, scrub, peek, followUp,
                   reason, cycleVars, pokeVars, bootVars, owner, faults, history>>

\* The queue is read, not taken; prepareEpoch's compaction may have made room meanwhile.
PeekQueue ==
    /\ pc = "prepare" /\ ~aborted
    /\ memoryFull' = FALSE
    /\ peek' = immediate
    /\ pc' = IF immediate = {} /\ ~followUp THEN "end" ELSE "peeked"
    /\ UNCHANGED <<immediate, deferred, inTurn, turnWakes, follow, paused, scrub, run, rest,
                   followUp, reason, rounds, cycleVars, pokeVars, bootVars, owner, faults,
                   history>>

\* The turn is recorded in her state before any wake leaves the queue.
RecordTurn ==
    /\ pc = "peeked"
    /\ inTurn' = TRUE /\ turnWakes' = peek
    /\ run' = peek /\ rest' = FALSE /\ rounds' = 0
    /\ follow' = IF followUp /\ follow # "none" THEN "done" ELSE follow
    /\ owed' = IF followUp THEN {} ELSE owed
    /\ pc' = "recorded"
    /\ UNCHANGED <<immediate, deferred, memoryFull, paused, scrub, peek, followUp, reason,
                   cycleVars, pokeVars, bootVars, owner, faults, admitted, answered,
                   forgotten, dropped, crashLost, heard, threw, missed, leftOpen, overtook>>

TakeWakes ==
    /\ pc = "recorded"
    /\ immediate' = Take
    /\ pc' = "taken"
    /\ UNCHANGED <<deferred, inTurn, turnWakes, follow, memoryFull, paused, scrub, turnVars,
                   cycleVars, pokeVars, bootVars, owner, faults, history>>

\* The notifications are in the life log.
ShowNotifications ==
    /\ pc = "taken"
    /\ pc' = "round"
    /\ UNCHANGED <<durable, turnVars, cycleVars, pokeVars, bootVars, owner, faults, history>>

-----------------------------------------------------------------------------
(* The rounds of a turn *)

RoundAborted ==
    /\ pc = "round" /\ aborted
    /\ pc' = "interrupted"
    /\ UNCHANGED <<durable, turnVars, cycleVars, pokeVars, bootVars, owner, faults, history>>

\* The request it sent may have passed the rest trigger (lastRequestTokens).
FillMemory == memoryFull' \in {memoryFull, TRUE}

\* The model answered with no tool call; an abort that came with the answer is not looked at.
Answer ==
    /\ pc = "round"
    /\ heard' = heard \union run
    /\ reason' = "done"
    /\ pc' = "finish"
    /\ FillMemory
    /\ UNCHANGED <<immediate, deferred, inTurn, turnWakes, follow, paused, scrub, run, peek,
                   rest, followUp, rounds, cycleVars, pokeVars, bootVars, owner, faults,
                   admitted, answered, forgotten, dropped, crashLost, owed, threw, missed, leftOpen, overtook>>

CallTools ==
    /\ pc = "round"
    /\ heard' = heard \union run
    /\ rounds' = rounds + 1
    /\ pc' = "tools"
    /\ FillMemory
    /\ UNCHANGED <<immediate, deferred, inTurn, turnWakes, follow, paused, scrub, run, peek,
                   rest, followUp, reason, cycleVars, pokeVars, bootVars, owner, faults,
                   admitted, answered, forgotten, dropped, crashLost, owed, threw, missed, leftOpen, overtook>>

\* Text but nothing sent to someone who waits for an answer: one more round, nothing folded in.
Nudge ==
    /\ pc = "round" /\ ~rest /\ run # {}
    /\ rounds < MaxRounds
    /\ rounds' = rounds + 1
    /\ heard' = heard \union run
    /\ FillMemory
    /\ UNCHANGED <<immediate, deferred, inTurn, turnWakes, follow, paused, scrub, pc, run,
                   peek, rest, followUp, reason, cycleVars, pokeVars, bootVars, owner,
                   faults, admitted, answered, forgotten, dropped, crashLost, owed, threw,
                   missed, leftOpen, overtook>>

\* The request is over her budget (or the provider says so): the turn is closed first.
Overflow ==
    /\ pc = "round" /\ Disturb
    /\ compactions' = compactions + 1
    /\ reason' = "compaction"
    /\ pc' = "finish"
    /\ UNCHANGED <<durable, run, peek, rest, followUp, rounds, turns, aborted, pokeVars,
                   bootVars, owner, history>>

CallFails ==
    /\ pc = "round" /\ Disturb
    /\ pc' = "failed"
    /\ UNCHANGED <<durable, turnVars, cycleVars, pokeVars, bootVars, owner, history>>

\* An aborted tool call: its result and the interrupt note are logged, then the turn is given up.
ToolsInterrupted ==
    /\ pc = "tools" /\ aborted
    /\ pc' = "interrupted"
    /\ UNCHANGED <<durable, turnVars, cycleVars, pokeVars, bootVars, owner, faults, history>>

\* A cap ends the turn after its tools, also an aborted one none of whose tools was interrupted;
\* it folds nothing (she could not answer it).
Capped ==
    /\ pc = "tools"
    /\ reason' = "done"
    /\ pc' = "finish"
    /\ UNCHANGED <<durable, run, peek, rest, followUp, rounds, cycleVars, pokeVars, bootVars,
                   owner, faults, history>>

\* Another round; wakes that came meanwhile are folded in, except into a rest turn.
PeekFold ==
    /\ pc = "tools" /\ ~aborted
    /\ rounds < MaxRounds
    /\ peek' = IF rest THEN {} ELSE immediate
    /\ pc' = IF peek' = {} THEN "round" ELSE "foldPeeked"
    /\ UNCHANGED <<durable, run, rest, followUp, reason, rounds, cycleVars, pokeVars,
                   bootVars, owner, faults, history>>

\* Mutant: a folded wake is not written to the open turn.
FoldUnrecorded == turnWakes

FoldedRecord == IF inTurn THEN turnWakes \union peek ELSE turnWakes

RecordFold ==
    /\ pc = "foldPeeked"
    /\ run' = run \union peek
    /\ turnWakes' = FoldedRecord
    /\ pc' = "foldRecorded"
    /\ UNCHANGED <<immediate, deferred, inTurn, follow, memoryFull, paused, scrub, peek,
                   rest, followUp, reason, rounds, cycleVars, pokeVars, bootVars, owner,
                   faults, history>>

TakeFold ==
    /\ pc = "foldRecorded"
    /\ immediate' = Take
    /\ pc' = "foldTaken"
    /\ UNCHANGED <<deferred, inTurn, turnWakes, follow, memoryFull, paused, scrub, turnVars,
                   cycleVars, pokeVars, bootVars, owner, faults, history>>

\* Mutant: the caps are looked at after the fold.
ShowFoldThenCap ==
    /\ pc = "foldTaken"
    /\ reason' = "done"
    /\ pc' = "finish"
    /\ UNCHANGED <<durable, run, peek, rest, followUp, rounds, cycleVars, pokeVars, bootVars,
                   owner, faults, history>>

ShowFold ==
    /\ pc = "foldTaken"
    /\ pc' = "round"
    /\ UNCHANGED <<durable, turnVars, cycleVars, pokeVars, bootVars, owner, faults, history>>

-----------------------------------------------------------------------------
(* The ends of a turn *)

\* endInterrupted: the wakes go back to the queue, then the turn ends.
RequeueInterrupted ==
    /\ pc = "interrupted"
    /\ immediate' = Requeue
    /\ reason' = "interrupted"
    /\ pc' = "finish"
    /\ UNCHANGED <<deferred, inTurn, turnWakes, follow, memoryFull, paused, scrub, run, peek,
                   rest, followUp, rounds, cycleVars, pokeVars, bootVars, owner, faults,
                   history>>

\* failTurn after a quota or billing error: the wakes wait for the cooldown in the queue.
FailIntoCooldown ==
    /\ pc = "failed"
    /\ immediate' = Requeue
    /\ reason' = "cooling"
    /\ pc' = "finish"
    /\ UNCHANGED <<deferred, inTurn, turnWakes, follow, memoryFull, paused, scrub, run, peek,
                   rest, followUp, rounds, cycleVars, pokeVars, bootVars, owner, faults,
                   history>>

\* failTurn otherwise: one follow-up turn, none after a turn without wakes (a follow-up).
FailWithFollowUp ==
    /\ pc = "failed"
    /\ follow' = IF run = {} THEN "done" ELSE "due"
    /\ followTimer' = (followTimer \/ run # {})
    /\ owed' = owed \union run
    /\ reason' = "error"
    /\ pc' = "finish"
    /\ UNCHANGED <<immediate, deferred, inTurn, turnWakes, memoryFull, paused, scrub, run,
                   peek, rest, followUp, rounds, cycleVars, rerun, timer, retry, toPoke,
                   bootVars, owner, faults, admitted, answered, forgotten, dropped,
                   crashLost, heard, threw, missed, leftOpen, overtook>>

\* Where finishIdle's caller goes on.
AfterFinish ==
    CASE reason = "interrupted" -> "end"
      [] reason = "compaction"  -> IF compactions > 1 THEN "end" ELSE "compacting"
      [] OTHER -> IF rest THEN "restEnd" ELSE IF reason = "done" THEN "outcome" ELSE "end"

\* Mutant: the ended turn keeps its wakes.
EndedRunKept == run

\* Only a compaction still needs the ended turn's wakes.
EndedRun == IF reason = "compaction" /\ compactions < 2 THEN run ELSE {}

\* finishIdle: the state is idle; a turn that ran its course has answered its wakes.
FinishTurn ==
    /\ pc = "finish"
    /\ inTurn' = FALSE /\ turnWakes' = {}
    /\ answered' = IF reason \in {"done", "error"} THEN answered \union run ELSE answered
    /\ dropped' = IF reason = "compaction" /\ compactions > 1 THEN dropped \union run ELSE dropped
    /\ run' = EndedRun
    /\ retry' = (retry \/ reason = "cooling")
    /\ pc' = AfterFinish
    /\ UNCHANGED <<immediate, deferred, follow, memoryFull, paused, scrub, peek, rest,
                   followUp, reason, rounds, cycleVars, rerun, timer, followTimer, toPoke,
                   bootVars, owner, faults, admitted, forgotten, crashLost, heard, owed,
                   threw, missed, leftOpen, overtook>>

\* The compaction is over (an aborted one changed nothing): the turn's wakes come back.
Regain ==
    /\ pc = "compacting"
    /\ immediate' = Requeue
    /\ run' = {}
    /\ memoryFull' = (memoryFull /\ aborted)
    /\ IF aborted THEN pc' = "end" /\ UNCHANGED <<turns, aborted>> ELSE NextTurn
    /\ UNCHANGED <<deferred, inTurn, turnWakes, follow, paused, scrub, peek, rest, followUp,
                   reason, rounds, compactions, pokeVars, bootVars, owner, faults, history>>

\* Her summary (or a compaction) starts a new epoch; an aborted rest runs again.
EndRest ==
    /\ pc = "restEnd"
    /\ memoryFull' = (memoryFull /\ aborted)
    /\ pc' = IF aborted THEN "end" ELSE "outcome"
    /\ UNCHANGED <<immediate, deferred, inTurn, turnWakes, follow, paused, scrub, turnVars,
                   cycleVars, pokeVars, bootVars, owner, faults, history>>

Outcome ==
    /\ pc = "outcome"
    /\ IF immediate # {} \/ memoryFull THEN NextTurn
       ELSE pc' = "end" /\ UNCHANGED <<turns, aborted>>
    /\ UNCHANGED <<durable, turnVars, compactions, pokeVars, bootVars, owner, faults, history>>

\* runCycle's catch: an error thrown inside the turn leaves her idle, the turn's wakes unanswered;
\* or as she was, if this write fails too.
TurnThrows ==
    /\ pc \in TurnPcs /\ Disturb
    /\ \/ inTurn' = FALSE /\ turnWakes' = {} /\ leftOpen' = leftOpen
       \/ inTurn /\ UNCHANGED <<inTurn, turnWakes>> /\ leftOpen' = TRUE
    /\ dropped' = dropped \union (run \ immediate)
    /\ run' = {}
    /\ threw' = TRUE
    /\ pc' = "end"
    /\ UNCHANGED <<immediate, deferred, follow, memoryFull, paused, scrub, peek, rest,
                   followUp, reason, rounds, cycleVars, pokeVars, bootVars, owner, admitted,
                   answered, forgotten, crashLost, heard, owed, missed, overtook>>

-----------------------------------------------------------------------------
(* Pause, forget, crash and boot *)

Abort == aborted' = (aborted \/ Abortable)

Pause ==
    /\ Up /\ ~paused /\ repair = "none" /\ Disturb
    /\ paused' = TRUE
    /\ Abort
    /\ UNCHANGED <<immediate, deferred, inTurn, turnWakes, follow, memoryFull, scrub, pc,
                   turnVars, turns, compactions, pokeVars, bootVars, owner, history>>

\* Mutant: only the batch is looked at.
BatchWaits == deferred # {}

\* pendingWakeCount > 0
WakesWait == immediate # {}

\* catchUpAndResume ends by poking her when a wake is queued.
Resume ==
    /\ Up /\ paused /\ repair = "none"
    /\ paused' = FALSE
    /\ toPoke' = (toPoke \/ WakesWait)
    /\ missed' = (missed \/ (InCycle /\ aborted))
    /\ UNCHANGED <<immediate, deferred, inTurn, turnWakes, follow, memoryFull, scrub, pc,
                   turnVars, cycleVars, rerun, timer, retry, followTimer, bootVars, owner,
                   faults, admitted, answered, forgotten, dropped, crashLost, heard, owed,
                   threw, leftOpen, overtook>>

\* prepareForget: the scrub is queued on disk; what waits for her budget goes at once.
PrepareForget ==
    /\ Up /\ owner = "none" /\ scrub = "none" /\ repair = "none" /\ ForgottenWakes # {} /\ Disturb
    /\ deferred' = deferred \ ForgottenWakes
    /\ forgotten' = forgotten \union (deferred \intersect ForgottenWakes)
    /\ scrub' = "owner"
    /\ owner' = "prepared"
    /\ UNCHANGED <<immediate, inTurn, turnWakes, follow, memoryFull, paused, pc, turnVars,
                   cycleVars, pokeVars, bootVars, admitted, answered, dropped, crashLost,
                   heard, owed, threw, missed, leftOpen, overtook>>

\* runForget aborts her turn and queues for her life lock.
AbortForForget ==
    /\ owner = "prepared"
    /\ Abort
    /\ owner' = "waiting"
    /\ UNCHANGED <<durable, pc, turnVars, turns, compactions, pokeVars, bootVars, faults,
                   history>>

\* Mutant: the scrub does not wait for her turn.
ForgetNeedsNoLock == TRUE

ForgetMayLock == ~HoldsLock /\ pc # "lock"

LockForForget ==
    /\ owner = "waiting" /\ ForgetMayLock
    /\ owner' = "scrubbing"
    /\ UNCHANGED <<durable, pc, turnVars, cycleVars, pokeVars, bootVars, faults, history>>

\* scrubWakeQueue: the person's wakes leave the queue and the batch.
ScrubQueue ==
    /\ owner = "scrubbing"
    /\ immediate' = immediate \ ForgottenWakes
    /\ deferred' = deferred \ ForgottenWakes
    /\ forgotten' = forgotten \union (Waiting \intersect ForgottenWakes)
    /\ owner' = "clearing"
    /\ UNCHANGED <<inTurn, turnWakes, follow, memoryFull, paused, scrub, pc, turnVars,
                   cycleVars, pokeVars, bootVars, faults, admitted, answered, dropped,
                   crashLost, heard, owed, threw, missed, leftOpen, overtook>>

\* The pending scrub is removed and the lock released; runForget pokes her, boot does not.
ForgetDone ==
    /\ owner = "clearing"
    /\ owner' = "none"
    /\ scrub' = "none"
    /\ toPoke' = (toPoke \/ scrub = "owner")
    /\ UNCHANGED <<immediate, deferred, inTurn, turnWakes, follow, memoryFull, paused, pc,
                   turnVars, cycleVars, rerun, timer, retry, followTimer, bootVars, faults,
                   history>>

\* What only the process knew is gone; an open compaction held the turn's wakes in memory only.
Crash ==
    /\ Up /\ Disturb
    /\ pc' = "down"
    /\ crashLost' = IF pc = "compacting" THEN crashLost \union (run \ immediate) ELSE crashLost
    /\ run' = {} /\ peek' = {} /\ rest' = FALSE /\ followUp' = FALSE /\ reason' = "done"
    /\ rounds' = 0 /\ turns' = 0 /\ compactions' = 0 /\ aborted' = FALSE
    /\ rerun' = FALSE /\ timer' = FALSE /\ retry' = FALSE /\ followTimer' = FALSE
    /\ toPoke' = FALSE /\ repair' = "none" /\ repairWakes' = {} /\ owner' = "none"
    /\ scrub' = IF scrub = "none" THEN "none" ELSE "boot"
    /\ UNCHANGED <<immediate, deferred, inTurn, turnWakes, follow, memoryFull, paused,
                   admitted, answered, forgotten, dropped, heard, owed, threw, missed, leftOpen, overtook>>

\* The process is back: Discord delivers events to it before boot repair has seen her life.
Boot ==
    /\ pc = "down"
    /\ pc' = "idle"
    /\ repair' = "read"
    /\ UNCHANGED <<durable, turnVars, cycleVars, pokeVars, repairWakes, owner, faults,
                   history>>

\* repairLife reads her state; it does not take her life lock.
RepairRead ==
    /\ repair = "read"
    /\ repairWakes' = IF inTurn THEN turnWakes ELSE {}
    /\ repair' = IF inTurn THEN "requeue" ELSE "arm"
    /\ UNCHANGED <<durable, pc, turnVars, cycleVars, pokeVars, owner, faults, history>>

\* Its calls are closed in the log; the interrupted turn's wakes go back to the queue.
RepairRequeue ==
    /\ repair = "requeue"
    /\ immediate' = immediate \union repairWakes
    /\ repair' = "idle"
    /\ UNCHANGED <<deferred, inTurn, turnWakes, follow, memoryFull, paused, scrub, pc,
                   turnVars, cycleVars, pokeVars, repairWakes, owner, faults, history>>

RepairIdle ==
    /\ repair = "idle"
    /\ inTurn' = FALSE /\ turnWakes' = {}
    /\ repair' = "arm" /\ repairWakes' = {}
    /\ UNCHANGED <<immediate, deferred, follow, memoryFull, paused, scrub, pc, turnVars,
                   cycleVars, pokeVars, owner, faults, history>>

\* An error in it is logged, and boot goes on.
RepairThrows ==
    /\ Repairing /\ Disturb
    /\ repair' = "scrub" /\ repairWakes' = {}
    /\ leftOpen' = TRUE
    /\ UNCHANGED <<durable, pc, turnVars, cycleVars, pokeVars, owner, admitted, answered,
                   forgotten, dropped, crashLost, heard, owed, threw, missed, overtook>>

\* LivingCast.start: an open follow-up is armed again, at once when it is overdue.
BootArm ==
    /\ repair = "arm"
    /\ followTimer' = (followTimer \/ follow = "due")
    /\ repair' = "scrub"
    /\ UNCHANGED <<durable, pc, turnVars, cycleVars, rerun, timer, retry, toPoke, repairWakes,
                   owner, faults, history>>

\* Mutant: boot leaves a pending scrub to maintenance.
ScrubLeft == owner

ScrubQueued == IF scrub = "boot" THEN "waiting" ELSE owner

\* Every life is repaired: a pending scrub queues for her life lock.  The scheduler starts.
BootScrub ==
    /\ repair = "scrub"
    /\ owner' = ScrubQueued
    /\ repair' = "resume"
    /\ UNCHANGED <<durable, pc, turnVars, cycleVars, pokeVars, repairWakes, faults, history>>

\* catchUpAndResume, unless she is paused: queued wakes are poked.
BootResume ==
    /\ repair = "resume"
    /\ toPoke' = (toPoke \/ (~paused /\ WakesWait))
    /\ repair' = "none"
    /\ UNCHANGED <<durable, pc, turnVars, cycleVars, rerun, timer, retry, followTimer,
                   repairWakes, owner, faults, history>>

-----------------------------------------------------------------------------

TurnStart ==
    \/ NothingToDo \/ WaitForProvider \/ BudgetSpent \/ CheckTurn \/ PrepareAborted
    \/ StartRest \/ PeekQueue \/ RecordTurn \/ TakeWakes \/ ShowNotifications

Rounds ==
    \/ RoundAborted \/ Answer \/ Nudge \/ CallTools \/ Overflow \/ CallFails \/ ToolsInterrupted
    \/ Capped \/ PeekFold \/ RecordFold \/ TakeFold \/ ShowFold

TurnEnd ==
    \/ RequeueInterrupted \/ FailIntoCooldown \/ FailWithFollowUp \/ FinishTurn
    \/ Regain \/ EndRest \/ Outcome

Cycle == StartCycle \/ TakeLock \/ TakeSlot \/ EndCycle \/ TurnStart \/ Rounds \/ TurnEnd
Timers == Poke \/ RetryFires \/ FollowUpFires
Forget == AbortForForget \/ LockForForget \/ ScrubQueue \/ ForgetDone
Repair == Boot \/ RepairRead \/ RepairRequeue \/ RepairIdle
          \/ BootArm \/ BootScrub \/ BootResume

Environment ==
    \/ \E w \in Wakes : Arrive(w) \/ ArriveOverBudget(w)
    \/ Sealed \/ TurnThrows \/ Pause \/ Resume \/ PrepareForget \/ Crash \/ RepairThrows

Next == Cycle \/ Timers \/ Forget \/ Repair \/ ReleaseDeferred \/ Environment

Spec == Init /\ [][Next]_vars

\* What the process does by itself is fair: a promise or a timer that is ready is run, a model
\* call ends (it has a timeout), a released batch and a restarted process come.  Nothing says the
\* owner resumes, that wakes arrive, or that anything fails.
Fairness ==
    /\ WF_vars(Cycle)
    /\ WF_vars(Poke) /\ WF_vars(RetryFires) /\ WF_vars(FollowUpFires)
    /\ WF_vars(Forget) /\ WF_vars(Repair) /\ WF_vars(ReleaseDeferred)

FairSpec == Spec /\ Fairness

-----------------------------------------------------------------------------
(* Properties *)

\* Every variable stays in its type, and an idle life holds no turn's wakes in memory.
TypeOK ==
    /\ immediate \in SUBSET Wakes /\ deferred \in SUBSET Wakes
    /\ inTurn \in BOOLEAN /\ turnWakes \in SUBSET Wakes
    /\ follow \in {"none", "due", "done"}
    /\ memoryFull \in BOOLEAN /\ paused \in BOOLEAN
    /\ pc \in PCs /\ run \in SUBSET Wakes /\ peek \in SUBSET Wakes
    /\ rest \in BOOLEAN /\ followUp \in BOOLEAN
    /\ reason \in {"done", "error", "cooling", "interrupted", "compaction"}
    /\ turns \in Nat /\ rounds \in Nat /\ compactions \in Nat /\ aborted \in BOOLEAN
    /\ rerun \in BOOLEAN /\ timer \in BOOLEAN /\ retry \in BOOLEAN
    /\ followTimer \in BOOLEAN /\ toPoke \in BOOLEAN
    /\ (pc \in {"idle", "down"} => run = {})
    /\ repair \in {"none", "read", "requeue", "idle", "arm", "scrub", "resume"} /\ repairWakes \in SUBSET Wakes
    /\ owner \in {"none", "prepared", "waiting", "scrubbing", "clearing"}
    /\ scrub \in {"none", "owner", "boot"}
    /\ faults \in 0..MaxFaults
    /\ admitted \in SUBSET Wakes /\ answered \in SUBSET Wakes
    /\ forgotten \in SUBSET Wakes /\ dropped \in SUBSET Wakes /\ crashLost \in SUBSET Wakes
    /\ heard \in SUBSET Wakes /\ owed \in SUBSET Wakes
    /\ threw \in BOOLEAN /\ missed \in BOOLEAN
    /\ leftOpen \in BOOLEAN /\ overtook \in BOOLEAN

\* A wake that was admitted is in the queue file or the open turn's record until its turn ends by
\* itself or its person is forgotten: only an overflow's compaction (which holds it in memory) and
\* an error thrown inside a turn lose one (peekImmediate, takeWakes, requeueWakes, repairLife), or a
\* turn that was left open in her state.
WakesAccounted ==
    leftOpen \/
    admitted \subseteq OnDisk \union answered \union forgotten \union dropped \union crashLost
                       \union (IF pc = "compacting" THEN run ELSE {})

\* A wake whose turn ended is never put back to be answered again: not by an interrupt, a
\* requeue, boot repair or the release of the batch, unless a turn was left open in her state.
NeverAnsweredTwice == leftOpen \/ answered \intersect (OnDisk \union repairWakes) = {}

\* A turn that ends by itself has put every wake it took before the model (a capped or
\* interrupted turn folds nothing in: review I1 in rounds).
NothingEndsUnheard == pc = "finish" /\ reason = "done" => run \subseteq heard

\* What a forget removed does not come back through an open turn, the batch or boot repair.
ForgottenStaysGone == forgotten \intersect (OnDisk \union run \union repairWakes) = {}

PokePending == timer \/ retry \/ toPoke

\* A queued wake is never left behind: whenever she is idle with one, something will poke her
\* (poke, the rerun flag, retryAfter, resume and runForget's poke), unless her last turn threw, a
\* resume came while the turn the pause aborted was still ending, or a turn was left open.
QueuedWakesArePoked ==
    pc = "idle" /\ immediate # {} /\ ~paused /\ repair = "none" /\ owner = "none"
    /\ ~threw /\ ~missed /\ ~leftOpen
        => PokePending

\* A crash never loses a wake (life-and-turns.md): at a crash every admitted wake is on disk.
CrashLosesNoWake ==
    pc = "down" => admitted \subseteq OnDisk \union answered \union forgotten \union dropped

\* Every turn that failed gets its follow-up turn: it is owed until that turn starts.
FailedTurnKeepsItsFollowUp == owed # {} => follow = "due"

\* While she is idle and not paused, an open follow-up has a timer (or a poke) that starts it,
\* unless boot repair failed before it could arm one.
FollowUpIsArmed ==
    pc = "idle" /\ follow = "due" /\ ~paused /\ repair = "none" /\ ~threw /\ ~leftOpen
        => followTimer \/ PokePending

\* Resuming restarts a life with queued wakes, also when the aborted turn is still ending:
\* an idle life with a queued wake is poked unless her last turn threw.
ResumeRestartsQueuedLives ==
    pc = "idle" /\ immediate # {} /\ ~paused /\ repair = "none" /\ owner = "none" /\ ~threw
        => PokePending

\* Once a turn is recorded it stays recorded with every wake it took until it is over, so that a
\* crash at any await of the turn finds them (lifeLoop.ts:1057-1060: takeWakes, foldWakes).
EveryTurnIsRecorded == pc \in OpenTurn => inTurn /\ turnWakes = run

\* The same, unless an earlier turn was left open in her state: boot repair, which takes no lock,
\* clears the record of a turn that began before it was done.
OpenTurnIsRecorded == leftOpen \/ EveryTurnIsRecorded

Held == (turnWakes \union (IF pc = "compacting" THEN run ELSE {})) \ Waiting

Delivery == INSTANCE WakeDelivery
    WITH waiting <- Waiting, held <- Held, settled <- answered, lost <- dropped \union crashLost

\* A turn's wakes leave the queue together, after its record, and come back or are settled
\* together: the life implements WakeDelivery, until a turn is left open in her state.
ImplementsDelivery == Delivery!Init /\ [][Delivery!Next \/ leftOpen']_(Delivery!vars)

\* "Owner forgets that could not run ... run before her next turn: the life lock is queued here,
\* ahead of anything catch-up or the scheduler starts" (livingCast.ts:292-293).
BootForgetPrecedesTurns == scrub = "boot" => pc \notin OpenTurn

\* What a forget removed stays gone, unless a turn was left open in her state; and one that a crash
\* cut short is run before she acts on what it should have removed, unless a cycle (of an overdue
\* follow-up, or of a wake that came while boot repaired) asked for the life lock first.
ForgetIsRespected ==
    (leftOpen \/ ForgottenStaysGone) /\ (overtook \/ BootForgetPrecedesTurns)

\* An owner's forget that was queued is carried out in the end, whatever crash or turn is in
\* its way.
ForgetCompletes == scrub # "none" ~> scrub = "none"

\* An admitted wake is answered in the end (or forgotten, or lost to one of the known causes), if
\* the owner does not leave her paused and no turn is left open in her state.
WakesServed ==
    (<>[]~paused) =>
        \A w \in Wakes :
            w \in admitted ~>
                \/ w \in answered \union forgotten \union dropped \union crashLost
                \/ threw \/ missed \/ leftOpen

=============================================================================
