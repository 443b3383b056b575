--------------------------- MODULE WakeLife_proofs ---------------------------
(***************************************************************************)
(* Proofs about WakeLife for any set of wakes, any number of turns, rounds *)
(* and disturbances, whenever wakes arrive.  What the files hold is as it  *)
(* should be until a turn is left open in her state (leftOpen); what the   *)
(* process holds, and who has her life lock, always is.                    *)
(***************************************************************************)
EXTENDS WakeLife, TLAPS

\* Where the running turn still holds a wake that only it knows in memory: the wakes of its
\* record, or of a compaction.  Everywhere else no turn's wakes are in memory.
MayHold == OpenTurn \union {"compacting"}

\* The turn's wakes are out of the queue (all but those a fold has recorded and not yet taken).
OutOfQueue ==
    \/ pc \in {"taken", "round", "tools", "foldPeeked", "foldTaken", "interrupted", "failed",
               "compacting"}
    \/ pc = "finish" /\ reason \in {"done", "error", "compaction"}

\* A forget waits for her life lock only once boot has queued it, or by its owner's call.
BootIsInOrder ==
    /\ pc = "down" => repair = "none" /\ owner = "none"
    /\ repair \notin {"none", "resume"} => owner = "none"
    /\ ~(repair \in {"requeue", "idle"}) => repairWakes = {}

\* A cycle and a forget never hold her life lock together.
LockIsExclusive ==
    /\ ~(HoldsLock /\ ForgetHoldsLock)
    /\ ~(pc = "lock" /\ ForgetHoldsLock)

\* A turn's wakes are in memory while it is open or compacts; what was read for a take is still
\* in the queue when the take comes, and is the turn's.
RunIsHeld ==
    /\ pc \notin MayHold => run = {}
    /\ pc \in {"peeked", "recorded", "foldPeeked", "foldRecorded"} => peek \subseteq immediate
    /\ pc = "recorded" => run = peek
    /\ pc = "foldRecorded" => peek \subseteq run

\* A turn that called a tool has put its wakes before the model.
ToolsHeard ==
    /\ pc = "tools" => run \subseteq heard
    /\ NothingEndsUnheard

\* A scrub that boot must run holds back her cycle, from the moment boot has queued it.
BootScrubLeads ==
    scrub = "boot" /\ Up =>
        /\ repair \in {"none", "resume"} => owner \in {"waiting", "scrubbing", "clearing"}
        /\ ~overtook => pc \in {"idle", "behind"} /\ (owner = "none" => pc = "idle")

\* The record of the open turn is its wakes, and there is none once the turn is over.
RecordIsTurn ==
    /\ EveryTurnIsRecorded
    /\ inTurn \/ turnWakes = {}
    /\ pc \notin OpenTurn \union {"down"} /\ ~Repairing => ~inTurn

\* Boot repair works on the record a crash left, before any cycle.
RepairKnows ==
    /\ Repairing => pc = "idle"
    /\ repair \in {"requeue", "idle"} => inTurn /\ repairWakes = turnWakes
    /\ repair = "idle" => repairWakes \subseteq immediate

\* A wake is in one place: the queue, the batch or (past the take) the turn.
OnePlace ==
    /\ immediate \intersect deferred = {}
    /\ OutOfQueue => run \intersect Waiting = {}
    /\ pc = "foldRecorded" => (run \ peek) \intersect Waiting = {}
    /\ pc = "finish" /\ reason \in {"interrupted", "cooling"} => run \subseteq immediate
    /\ deferred \intersect (turnWakes \union run \union repairWakes) = {}

\* Every place holds admitted wakes only.
OnlyAdmitted ==
    /\ Waiting \subseteq admitted /\ turnWakes \subseteq admitted /\ run \subseteq admitted
    /\ repairWakes \subseteq admitted /\ answered \subseteq admitted
    /\ forgotten \subseteq admitted /\ dropped \subseteq admitted
    /\ crashLost \subseteq admitted

\* An answered wake is in no place it could be answered from again.
AnsweredIsOver ==
    answered \intersect (OnDisk \union run \union repairWakes) = {}

\* What the files hold, for as long as no turn is left open in her state.
FilesInv ==
    /\ RecordIsTurn
    /\ RepairKnows
    /\ OnePlace
    /\ OnlyAdmitted
    /\ AnsweredIsOver
    /\ ForgottenStaysGone
    /\ WakesAccounted

IInv ==
    /\ TypeOK
    /\ BootIsInOrder
    /\ LockIsExclusive
    /\ RunIsHeld
    /\ ToolsHeard
    /\ BootScrubLeads
    /\ leftOpen \/ FilesInv

-----------------------------------------------------------------------------
(* The invariant is inductive *)

\* The Boolean variables, whose steps are propositional.
Flags ==
    {inTurn, memoryFull, paused, rest, followUp, aborted, rerun, timer, retry, followTimer,
     toPoke, threw, missed, leftOpen, overtook} \subseteq BOOLEAN

LEMMA InitInv ==
  ASSUME LifeAssumption, Init
  PROVE  IInv
<1>1. TypeOK
  <2>1. Flags
    BY Zenon DEF Init, Flags
  <2>2. {immediate, deferred, turnWakes, run, peek, repairWakes} \subseteq SUBSET Wakes
    BY DEF Init
  <2>3. {admitted, answered, forgotten, dropped, crashLost, heard, owed} \subseteq SUBSET Wakes
    BY DEF Init
  <2> QED BY <2>1, <2>2, <2>3 DEF LifeAssumption, Init, TypeOK, Flags, Up, BeforeTurn,
       OpenTurn, AfterTurn, TurnPcs, CyclePcs, PCs, LockQueue
<1>2. BootIsInOrder /\ LockIsExclusive /\ RunIsHeld /\ ToolsHeard /\ BootScrubLeads
  BY DEF Init, HoldsLock, ForgetHoldsLock, BootIsInOrder, LockIsExclusive, RunIsHeld, ToolsHeard,
         NothingEndsUnheard, BootScrubLeads, MayHold, Up, BeforeTurn, OpenTurn, AfterTurn,
         TurnPcs, CyclePcs, PCs, LockQueue
<1>3. RecordIsTurn /\ RepairKnows /\ OnePlace /\ OnlyAdmitted /\ AnsweredIsOver
  BY DEF Init, RecordIsTurn, EveryTurnIsRecorded, RepairKnows, Repairing, OnePlace, OnlyAdmitted,
         AnsweredIsOver, OutOfQueue, OnDisk, Waiting, OpenTurn
<1>4. ForgottenStaysGone /\ WakesAccounted
  BY DEF Init, ForgottenStaysGone, WakesAccounted, OnDisk, Waiting
<1> QED BY <1>1, <1>2, <1>3, <1>4 DEF IInv, FilesInv

\* Every action keeps the flags Boolean.
LEMMA FlagsStep ==
  ASSUME TypeOK, Next
  PROVE  Flags'
<1> USE ZenonT(60) DEF
      Flags, TypeOK, FollowUpDue, Disturb, PokeLife, Abort, Abortable, FillMemory, NextTurn,
      InCycle, WakesWait, Repairing, durable, turnVars, cycleVars, pokeVars, bootVars, history
<1>1. CASE StartCycle
  BY <1>1 DEF StartCycle
<1>2. CASE TakeLock
  BY <1>2 DEF TakeLock
<1>3. CASE Sealed
  BY <1>3 DEF Sealed
<1>4. CASE TakeSlot
  BY <1>4 DEF TakeSlot
<1>5. CASE EndCycle
  BY <1>5 DEF EndCycle
<1>6. CASE NothingToDo
  BY <1>6 DEF NothingToDo
<1>7. CASE WaitForProvider
  BY <1>7 DEF WaitForProvider
<1>8. CASE BudgetSpent
  BY <1>8 DEF BudgetSpent
<1>9. CASE CheckTurn
  BY <1>9 DEF CheckTurn
<1>10. CASE PrepareAborted
  BY <1>10 DEF PrepareAborted
<1>11. CASE StartRest
  BY <1>11 DEF StartRest
<1>12. CASE PeekQueue
  BY <1>12 DEF PeekQueue
<1>13. CASE RecordTurn
  BY <1>13 DEF RecordTurn
<1>14. CASE TakeWakes
  BY <1>14 DEF TakeWakes
<1>15. CASE ShowNotifications
  BY <1>15 DEF ShowNotifications
<1>16. CASE RoundAborted
  BY <1>16 DEF RoundAborted
<1>17. CASE Answer
  BY <1>17 DEF Answer
<1>18. CASE Nudge
  BY <1>18 DEF Nudge
<1>19. CASE CallTools
  BY <1>19 DEF CallTools
<1>20. CASE Overflow
  BY <1>20 DEF Overflow
<1>21. CASE CallFails
  BY <1>21 DEF CallFails
<1>22. CASE ToolsInterrupted
  BY <1>22 DEF ToolsInterrupted
<1>23. CASE Capped
  BY <1>23 DEF Capped
<1>24. CASE PeekFold
  BY <1>24 DEF PeekFold
<1>25. CASE RecordFold
  BY <1>25 DEF RecordFold
<1>26. CASE TakeFold
  BY <1>26 DEF TakeFold
<1>27. CASE ShowFold
  BY <1>27 DEF ShowFold
<1>28. CASE RequeueInterrupted
  BY <1>28 DEF RequeueInterrupted
<1>29. CASE FailIntoCooldown
  BY <1>29 DEF FailIntoCooldown
<1>30. CASE FailWithFollowUp
  BY <1>30 DEF FailWithFollowUp
<1>31. CASE FinishTurn
  BY <1>31 DEF FinishTurn
<1>32. CASE Regain
  BY <1>32 DEF Regain
<1>33. CASE EndRest
  BY <1>33 DEF EndRest
<1>34. CASE Outcome
  BY <1>34 DEF Outcome
<1>35. CASE Poke
  BY <1>35 DEF Poke
<1>36. CASE RetryFires
  BY <1>36 DEF RetryFires
<1>37. CASE FollowUpFires
  BY <1>37 DEF FollowUpFires
<1>38. CASE ReleaseDeferred
  BY <1>38 DEF ReleaseDeferred
<1>39. CASE PrepareForget
  BY <1>39 DEF PrepareForget
<1>40. CASE AbortForForget
  BY <1>40 DEF AbortForForget
<1>41. CASE LockForForget
  BY <1>41 DEF LockForForget
<1>42. CASE ScrubQueue
  BY <1>42 DEF ScrubQueue
<1>43. CASE ForgetDone
  BY <1>43 DEF ForgetDone
<1>44. CASE Crash
  BY <1>44 DEF Crash
<1>45. CASE Boot
  BY <1>45 DEF Boot
<1>46. CASE RepairRead
  BY <1>46 DEF RepairRead
<1>47. CASE RepairRequeue
  BY <1>47 DEF RepairRequeue
<1>48. CASE RepairIdle
  BY <1>48 DEF RepairIdle
<1>49. CASE BootArm \/ BootScrub \/ BootResume
  BY <1>49 DEF BootArm, BootScrub, BootResume
<1>50. CASE TurnThrows
  BY <1>50 DEF TurnThrows
<1>51. CASE Pause
  BY <1>51 DEF Pause
<1>52. CASE Resume
  BY <1>52 DEF Resume
<1>53. CASE \E w \in Wakes : Arrive(w) \/ ArriveOverBudget(w)
  BY <1>53 DEF Arrive, ArriveOverBudget
<1>54. CASE RepairThrows
  BY <1>54 DEF RepairThrows
<1> QED
  BY SMT,
     <1>1, <1>2, <1>3, <1>4, <1>5, <1>6, <1>7, <1>8, <1>9, <1>10, <1>11, <1>12, <1>13, <1>14,
     <1>15, <1>16, <1>17, <1>18, <1>19, <1>20, <1>21, <1>22, <1>23, <1>24, <1>25, <1>26,
     <1>27, <1>28, <1>29, <1>30, <1>31, <1>32, <1>33, <1>34, <1>35, <1>36, <1>37, <1>38,
     <1>39, <1>40, <1>41, <1>42, <1>43, <1>44, <1>45, <1>46, <1>47, <1>48, <1>49, <1>50,
     <1>51, <1>52, <1>53, <1>54
  DEF Next, Cycle, TurnStart, Rounds, TurnEnd, Timers, Forget, Repair, Environment

\* A turn once left open stays recorded as such.
LEMMA LeftOpenStays ==
  ASSUME Next
  PROVE  leftOpen => leftOpen'
BY Zenon DEF
  Next, Cycle, TurnStart, Rounds, TurnEnd, Timers, Forget, Repair, Environment, history,
  StartCycle, TakeLock, Sealed, TakeSlot, EndCycle, NothingToDo, WaitForProvider, BudgetSpent,
  CheckTurn, PrepareAborted, StartRest, PeekQueue, RecordTurn, TakeWakes, ShowNotifications,
  RoundAborted, Answer, Nudge, CallTools, Overflow, CallFails, ToolsInterrupted, Capped,
  PeekFold, RecordFold, TakeFold, ShowFold, RequeueInterrupted, FailIntoCooldown,
  FailWithFollowUp, FinishTurn, Regain, EndRest, Outcome, Poke, RetryFires, FollowUpFires,
  ReleaseDeferred, PrepareForget, AbortForForget, LockForForget, ScrubQueue, ForgetDone, Crash,
  Boot, RepairRead, RepairRequeue, RepairIdle, RepairThrows, BootArm, BootScrub, BootResume,
  TurnThrows, Pause, Resume, Arrive, ArriveOverBudget

\* The invariant through the lock, the slot and the end of a cycle.
LEMMA CycleStep ==
  ASSUME IInv, LifeAssumption, Flags', leftOpen => leftOpen',
         StartCycle \/ TakeLock \/ Sealed \/ TakeSlot \/ EndCycle
  PROVE  IInv'
<1> USE DEF Flags, LifeAssumption, durable, turnVars, cycleVars, pokeVars, bootVars, history,
      IInv, FilesInv, TypeOK, BootIsInOrder, LockIsExclusive, RunIsHeld, ToolsHeard,
      BootScrubLeads, RecordIsTurn, RepairKnows, Repairing, OnePlace, OnlyAdmitted,
      AnsweredIsOver, ForgottenStaysGone, WakesAccounted, NothingEndsUnheard,
      EveryTurnIsRecorded, OutOfQueue, MayHold, OnDisk, Waiting,
      Up, BeforeTurn, OpenTurn, AfterTurn, TurnPcs, CyclePcs, PCs, LockQueue,
      InCycle, HoldsLock, ForgetHoldsLock, Disturb, MyTurnForLock
<1>1. CASE StartCycle
  <2>1. TypeOK'
    BY <1>1 DEF StartCycle
  <2>2. BootIsInOrder' /\ LockIsExclusive' /\ RunIsHeld' /\ ToolsHeard'
    BY <1>1 DEF StartCycle
  <2>3. BootScrubLeads'
    <3>1. CASE scrub = "boot" /\ owner = "none"
      BY <1>1, <3>1 DEF StartCycle
    <3>2. CASE scrub # "boot"
      BY <1>1, <3>2 DEF StartCycle
    <3>3. CASE scrub = "boot" /\ owner # "none"
      BY <1>1, <3>3 DEF StartCycle
    <3> QED BY <3>1, <3>2, <3>3
  <2>4. CASE leftOpen'
    BY <2>1, <2>2, <2>3, <2>4
  <2>5. CASE ~leftOpen'
    <3>1. ~leftOpen /\ ~Repairing
      BY <1>1, <2>5, Zenon DEF StartCycle
    <3>2. FilesInv'
      BY <1>1, <3>1 DEF StartCycle
    <3> QED BY <2>1, <2>2, <2>3, <3>2
  <2> QED BY <2>4, <2>5
<1>2. CASE TakeLock
  BY <1>2 DEF TakeLock
<1>3. CASE Sealed
  BY <1>3 DEF Sealed
<1>4. CASE TakeSlot
  BY <1>4 DEF TakeSlot
<1>5. CASE EndCycle
  BY <1>5 DEF EndCycle
<1> QED
  BY <1>1, <1>2, <1>3, <1>4, <1>5

\* The invariant through the start of a turn.
LEMMA TurnStartStep ==
  ASSUME IInv, LifeAssumption, Flags', leftOpen => leftOpen',
         NothingToDo \/ WaitForProvider \/ BudgetSpent \/ CheckTurn \/ PrepareAborted \/
         StartRest \/ PeekQueue \/ RecordTurn \/ TakeWakes \/ ShowNotifications
  PROVE  IInv'
<1> USE DEF Flags, LifeAssumption, durable, turnVars, cycleVars, pokeVars, bootVars, history,
      IInv, FilesInv, TypeOK, BootIsInOrder, LockIsExclusive, RunIsHeld, ToolsHeard,
      BootScrubLeads, RecordIsTurn, RepairKnows, Repairing, OnePlace, OnlyAdmitted,
      AnsweredIsOver, ForgottenStaysGone, WakesAccounted, NothingEndsUnheard,
      EveryTurnIsRecorded, OutOfQueue, MayHold, OnDisk, Waiting,
      Up, BeforeTurn, OpenTurn, AfterTurn, TurnPcs, CyclePcs, PCs, LockQueue,
      HoldsLock, ForgetHoldsLock, Disturb, Take
<1>1. CASE NothingToDo
  BY <1>1 DEF NothingToDo
<1>2. CASE WaitForProvider
  BY <1>2 DEF WaitForProvider
<1>3. CASE BudgetSpent
  BY <1>3 DEF BudgetSpent
<1>4. CASE CheckTurn
  BY <1>4 DEF CheckTurn
<1>5. CASE PrepareAborted
  BY <1>5 DEF PrepareAborted
<1>6. CASE StartRest
  BY <1>6 DEF StartRest
<1>7. CASE PeekQueue
  BY <1>7 DEF PeekQueue
<1>8. CASE RecordTurn
  BY <1>8 DEF RecordTurn
<1>9. CASE TakeWakes
  BY <1>9 DEF TakeWakes
<1>10. CASE ShowNotifications
  BY <1>10 DEF ShowNotifications
<1> QED
  BY <1>1, <1>2, <1>3, <1>4, <1>5, <1>6, <1>7, <1>8, <1>9, <1>10

\* The invariant through the rounds and the folds.
LEMMA RoundsStep ==
  ASSUME IInv, LifeAssumption, Flags', leftOpen => leftOpen',
         RoundAborted \/ Answer \/ Nudge \/ CallTools \/ Overflow \/ CallFails \/
         ToolsInterrupted \/ Capped \/ PeekFold \/ RecordFold \/ TakeFold \/ ShowFold
  PROVE  IInv'
<1> USE DEF Flags, LifeAssumption, durable, turnVars, cycleVars, pokeVars, bootVars, history,
      IInv, FilesInv, TypeOK, BootIsInOrder, LockIsExclusive, RunIsHeld, ToolsHeard,
      BootScrubLeads, RecordIsTurn, RepairKnows, Repairing, OnePlace, OnlyAdmitted,
      AnsweredIsOver, ForgottenStaysGone, WakesAccounted, NothingEndsUnheard,
      EveryTurnIsRecorded, OutOfQueue, MayHold, OnDisk, Waiting,
      Up, BeforeTurn, OpenTurn, AfterTurn, TurnPcs, CyclePcs, PCs, LockQueue,
      HoldsLock, ForgetHoldsLock, Disturb, Take, FillMemory, FoldedRecord
<1>1. CASE RoundAborted
  BY <1>1 DEF RoundAborted
<1>2. CASE Answer
  BY <1>2 DEF Answer
<1>3. CASE Nudge
  BY <1>3 DEF Nudge
<1>4. CASE CallTools
  BY <1>4 DEF CallTools
<1>5. CASE Overflow
  BY <1>5 DEF Overflow
<1>6. CASE CallFails
  BY <1>6 DEF CallFails
<1>7. CASE ToolsInterrupted
  BY <1>7 DEF ToolsInterrupted
<1>8. CASE Capped
  BY <1>8 DEF Capped
<1>9. CASE PeekFold
  BY <1>9 DEF PeekFold
<1>10. CASE RecordFold
  BY <1>10 DEF RecordFold
<1>11. CASE TakeFold
  BY <1>11 DEF TakeFold
<1>12. CASE ShowFold
  BY <1>12 DEF ShowFold
<1> QED
  BY <1>1, <1>2, <1>3, <1>4, <1>5, <1>6, <1>7, <1>8, <1>9, <1>10, <1>11, <1>12

\* The invariant through the ends of a turn.
LEMMA TurnEndStep ==
  ASSUME IInv, LifeAssumption, Flags', leftOpen => leftOpen',
         RequeueInterrupted \/ FailIntoCooldown \/ FailWithFollowUp \/ FinishTurn \/ Regain
         \/ EndRest \/ Outcome
  PROVE  IInv'
<1> USE DEF Flags, LifeAssumption, durable, turnVars, cycleVars, pokeVars, bootVars, history,
      IInv, FilesInv, TypeOK, BootIsInOrder, LockIsExclusive, RunIsHeld, ToolsHeard,
      BootScrubLeads, RecordIsTurn, RepairKnows, Repairing, OnePlace, OnlyAdmitted,
      AnsweredIsOver, ForgottenStaysGone, WakesAccounted, NothingEndsUnheard,
      EveryTurnIsRecorded, OutOfQueue, MayHold, OnDisk, Waiting,
      Up, BeforeTurn, OpenTurn, AfterTurn, TurnPcs, CyclePcs, PCs, LockQueue,
      HoldsLock, ForgetHoldsLock, Requeue, NextTurn, AfterFinish, EndedRun
<1>1. CASE RequeueInterrupted
  BY <1>1 DEF RequeueInterrupted
<1>2. CASE FailIntoCooldown
  BY <1>2 DEF FailIntoCooldown
<1>3. CASE FailWithFollowUp
  BY <1>3 DEF FailWithFollowUp
<1>4. CASE FinishTurn
  BY <1>4 DEF FinishTurn
<1>5. CASE Regain
  BY <1>5 DEF Regain
<1>6. CASE EndRest
  BY <1>6 DEF EndRest
<1>7. CASE Outcome
  BY <1>7 DEF Outcome
<1> QED
  BY <1>1, <1>2, <1>3, <1>4, <1>5, <1>6, <1>7

\* The invariant through the timers and the released batch.
LEMMA TimersStep ==
  ASSUME IInv, LifeAssumption, Flags', leftOpen => leftOpen',
         Poke \/ RetryFires \/ FollowUpFires \/ ReleaseDeferred
  PROVE  IInv'
<1> USE DEF Flags, LifeAssumption, durable, turnVars, cycleVars, pokeVars, bootVars, history,
      IInv, FilesInv, TypeOK, BootIsInOrder, LockIsExclusive, RunIsHeld, ToolsHeard,
      BootScrubLeads, RecordIsTurn, RepairKnows, Repairing, OnePlace, OnlyAdmitted,
      AnsweredIsOver, ForgottenStaysGone, WakesAccounted, NothingEndsUnheard,
      EveryTurnIsRecorded, OutOfQueue, MayHold, OnDisk, Waiting,
      Up, BeforeTurn, OpenTurn, AfterTurn, TurnPcs, CyclePcs, PCs, LockQueue,
      HoldsLock, ForgetHoldsLock, InCycle, PokeLife
<1>1. CASE Poke
  BY <1>1 DEF Poke
<1>2. CASE RetryFires
  BY <1>2 DEF RetryFires
<1>3. CASE FollowUpFires
  BY <1>3 DEF FollowUpFires
<1>4. CASE ReleaseDeferred
  BY <1>4 DEF ReleaseDeferred
<1> QED
  BY <1>1, <1>2, <1>3, <1>4

\* The invariant through a forget.
LEMMA ForgetStep ==
  ASSUME IInv, LifeAssumption, Flags', leftOpen => leftOpen',
         PrepareForget \/ AbortForForget \/ LockForForget \/ ScrubQueue \/ ForgetDone
  PROVE  IInv'
<1> USE DEF Flags, LifeAssumption, durable, turnVars, cycleVars, pokeVars, bootVars, history,
      IInv, FilesInv, TypeOK, BootIsInOrder, LockIsExclusive, RunIsHeld, ToolsHeard,
      BootScrubLeads, RecordIsTurn, RepairKnows, Repairing, OnePlace, OnlyAdmitted,
      AnsweredIsOver, ForgottenStaysGone, WakesAccounted, NothingEndsUnheard,
      EveryTurnIsRecorded, OutOfQueue, MayHold, OnDisk, Waiting,
      Up, BeforeTurn, OpenTurn, AfterTurn, TurnPcs, CyclePcs, PCs, LockQueue,
      HoldsLock, ForgetHoldsLock, Disturb, Abort, Abortable, ForgetMayLock
<1>1. CASE PrepareForget
  BY <1>1 DEF PrepareForget
<1>2. CASE AbortForForget
  BY <1>2 DEF AbortForForget
<1>3. CASE LockForForget
  BY <1>3 DEF LockForForget
<1>4. CASE ScrubQueue
  BY <1>4 DEF ScrubQueue
<1>5. CASE ForgetDone
  BY <1>5 DEF ForgetDone
<1> QED
  BY <1>1, <1>2, <1>3, <1>4, <1>5

\* The invariant through a crash and boot repair.
LEMMA RepairStep ==
  ASSUME IInv, LifeAssumption, Flags', leftOpen => leftOpen',
         Crash \/ Boot \/ RepairRead \/ RepairRequeue \/ RepairIdle \/ RepairThrows \/
         BootArm \/ BootScrub \/ BootResume
  PROVE  IInv'
<1> USE DEF Flags, LifeAssumption, durable, turnVars, cycleVars, pokeVars, bootVars, history,
      IInv, FilesInv, TypeOK, BootIsInOrder, LockIsExclusive, RunIsHeld, ToolsHeard,
      BootScrubLeads, RecordIsTurn, RepairKnows, Repairing, OnePlace, OnlyAdmitted,
      AnsweredIsOver, ForgottenStaysGone, WakesAccounted, NothingEndsUnheard,
      EveryTurnIsRecorded, OutOfQueue, MayHold, OnDisk, Waiting,
      Up, BeforeTurn, OpenTurn, AfterTurn, TurnPcs, CyclePcs, PCs, LockQueue,
      HoldsLock, ForgetHoldsLock, Disturb, ScrubQueued, WakesWait
<1>1. CASE Crash
  BY <1>1 DEF Crash
<1>2. CASE Boot
  BY <1>2 DEF Boot
<1>3. CASE RepairRead
  BY <1>3 DEF RepairRead
<1>4. CASE RepairRequeue
  BY <1>4 DEF RepairRequeue
<1>5. CASE RepairIdle
  BY <1>5 DEF RepairIdle
<1>6. CASE RepairThrows
  BY <1>6 DEF RepairThrows
<1>7. CASE BootArm \/ BootScrub \/ BootResume
  BY <1>7 DEF BootArm, BootScrub, BootResume
<1> QED
  BY <1>1, <1>2, <1>3, <1>4, <1>5, <1>6, <1>7

\* The invariant through a thrown error, a pause and a resume.
LEMMA OwnerStep ==
  ASSUME IInv, LifeAssumption, Flags', leftOpen => leftOpen',
         TurnThrows \/ Pause \/ Resume
  PROVE  IInv'
<1> USE DEF Flags, LifeAssumption, durable, turnVars, cycleVars, pokeVars, bootVars, history,
      IInv, FilesInv, TypeOK, BootIsInOrder, LockIsExclusive, RunIsHeld, ToolsHeard,
      BootScrubLeads, RecordIsTurn, RepairKnows, Repairing, OnePlace, OnlyAdmitted,
      AnsweredIsOver, ForgottenStaysGone, WakesAccounted, NothingEndsUnheard,
      EveryTurnIsRecorded, OutOfQueue, MayHold, OnDisk, Waiting,
      Up, BeforeTurn, OpenTurn, AfterTurn, TurnPcs, CyclePcs, PCs, LockQueue,
      HoldsLock, ForgetHoldsLock, Disturb, Abort, Abortable, WakesWait, InCycle
<1>1. CASE TurnThrows
  BY <1>1 DEF TurnThrows
<1>2. CASE Pause
  BY <1>2 DEF Pause
<1>3. CASE Resume
  BY <1>3 DEF Resume
<1> QED
  BY <1>1, <1>2, <1>3

\* The invariant through an arrival.
LEMMA ArriveStep ==
  ASSUME IInv, LifeAssumption, Flags', leftOpen => leftOpen', NEW w \in Wakes,
         Arrive(w) \/ ArriveOverBudget(w)
  PROVE  IInv'
<1> USE DEF Flags, LifeAssumption, durable, turnVars, cycleVars, pokeVars, bootVars, history,
      IInv, FilesInv, TypeOK, BootIsInOrder, LockIsExclusive, RunIsHeld, ToolsHeard,
      BootScrubLeads, RecordIsTurn, RepairKnows, Repairing, OnePlace, OnlyAdmitted,
      AnsweredIsOver, ForgottenStaysGone, WakesAccounted, NothingEndsUnheard,
      EveryTurnIsRecorded, OutOfQueue, MayHold, OnDisk, Waiting,
      Up, BeforeTurn, OpenTurn, AfterTurn, TurnPcs, CyclePcs, PCs, LockQueue,
      HoldsLock, ForgetHoldsLock, Disturb, MayArrive
<1>1. CASE Arrive(w)
  BY <1>1 DEF Arrive
<1>2. CASE ArriveOverBudget(w)
  BY <1>2 DEF ArriveOverBudget
<1> QED BY <1>1, <1>2

\* The invariant through a stuttering step.
LEMMA StutterStep ==
  ASSUME IInv, UNCHANGED vars
  PROVE  IInv'
BY DEF vars, durable, turnVars, cycleVars, pokeVars, bootVars, history,
       HoldsLock, ForgetHoldsLock,
       IInv, FilesInv, TypeOK, BootIsInOrder, LockIsExclusive, RunIsHeld, ToolsHeard,
       BootScrubLeads, RecordIsTurn, RepairKnows, Repairing, OnePlace, OnlyAdmitted,
       AnsweredIsOver, ForgottenStaysGone, WakesAccounted, NothingEndsUnheard,
       EveryTurnIsRecorded, OutOfQueue, MayHold, OnDisk, Waiting,
       Up, BeforeTurn, OpenTurn, AfterTurn, TurnPcs, CyclePcs, PCs, LockQueue

LEMMA NextInv ==
  ASSUME IInv, LifeAssumption, [Next]_vars
  PROVE  IInv'
<1>1. CASE Next
  <2>1. Flags' /\ (leftOpen => leftOpen')
    BY <1>1, FlagsStep, LeftOpenStays DEF IInv
  <2>2. CASE \E w \in Wakes : Arrive(w) \/ ArriveOverBudget(w)
    BY <2>1, <2>2, ArriveStep
  <2>3. CASE ~ \E w \in Wakes : Arrive(w) \/ ArriveOverBudget(w)
    BY <1>1, <2>1, <2>3, CycleStep, TurnStartStep, RoundsStep, TurnEndStep, TimersStep,
       ForgetStep, RepairStep, OwnerStep
    DEF Next, Cycle, TurnStart, Rounds, TurnEnd, Timers, Forget, Repair, Environment
  <2> QED BY <2>2, <2>3
<1>2. CASE UNCHANGED vars
  BY <1>2, StutterStep
<1> QED BY <1>1, <1>2

\* The invariant holds in every reachable state.
THEOREM Invariance == Spec => []IInv
<1>1. Init => IInv
  BY InitInv, LifeAssumption
<1>2. IInv /\ [Next]_vars => IInv'
  BY NextInv, LifeAssumption
<1> QED BY <1>1, <1>2, PTL DEF Spec

-----------------------------------------------------------------------------
(* What it gives *)

\* Every variable keeps its type, and an idle life holds no wake in memory.
THEOREM TypeCorrect == Spec => []TypeOK
<1>1. IInv => TypeOK
  BY DEF IInv
<1> QED BY <1>1, Invariance, PTL

\* An admitted wake is on disk until its turn ends by itself or its person is forgotten,
\* through any interleaving of crashes, interrupts, failures and forgets (takeWakes, requeueWakes,
\* repairLife).
THEOREM NoWakeIsLost == Spec => []WakesAccounted
<1>1. IInv => WakesAccounted
  BY DEF IInv, FilesInv, WakesAccounted
<1> QED BY <1>1, Invariance, PTL

\* An answered wake never comes back to the queue, the batch, a turn or boot repair.
THEOREM NoSecondAnswer == Spec => []NeverAnsweredTwice
<1>1. IInv => NeverAnsweredTwice
  BY DEF IInv, FilesInv, AnsweredIsOver, NeverAnsweredTwice, OnDisk, Waiting
<1> QED BY <1>1, Invariance, PTL

\* A turn that ends by itself has put every wake it took before the model.
THEOREM EveryWakeIsHeard == Spec => []NothingEndsUnheard
<1>1. IInv => NothingEndsUnheard
  BY DEF IInv, ToolsHeard
<1> QED BY <1>1, Invariance, PTL

\* At every await of a turn its record names exactly the wakes it holds.
THEOREM TurnIsRecorded == Spec => []OpenTurnIsRecorded
<1>1. IInv => OpenTurnIsRecorded
  BY DEF IInv, FilesInv, RecordIsTurn, OpenTurnIsRecorded
<1> QED BY <1>1, Invariance, PTL

\* A forget's removals stay gone, unless a turn was left open; and no turn of hers is open while a
\* forget that a crash cut short is still to run, unless a cycle began before boot had queued it.
THEOREM ForgetRespected == Spec => []ForgetIsRespected
<1>1. IInv => (leftOpen \/ ForgottenStaysGone)
  BY DEF IInv, FilesInv
<1>2. IInv => (overtook \/ BootForgetPrecedesTurns)
  BY DEF IInv, BootScrubLeads, BootForgetPrecedesTurns, OpenTurn, Up
<1>3. IInv => ForgetIsRespected
  BY <1>1, <1>2 DEF ForgetIsRespected
<1> QED BY <1>3, Invariance, PTL

-----------------------------------------------------------------------------
(* A queued wake is never left behind *)

\* Something will start another cycle after this one.
AnotherCycle == timer \/ retry \/ toPoke \/ (InCycle /\ rerun)

\* The forget that an owner's call carries out has aborted her and will poke her.
ForgetWillPoke == owner \in {"waiting", "scrubbing", "clearing"} /\ scrub = "owner"

\* Why a wake may stay behind: the exceptions the property names.
Excused == paused \/ threw \/ missed \/ ForgetWillPoke

\* Her first turn, which a rest may be; and the turns a rest and a compaction leave room for.
FirstTurn == turns = 1 /\ compactions = 0
EarlyTurn == turns <= 2 + compactions /\ compactions <= 1
BeforeRegain == compactions = 1 /\ turns <= 2

\* The queue is empty, or its wakes are for a turn of this cycle that will come.
NoneLeft == immediate = {}
RunFits == run = {} \/ EarlyTurn
Emptied == NoneLeft /\ RunFits
RestRuns == rest /\ (NoneLeft \/ FirstTurn)

TurnPromises ==
    /\ pc \in {"idle", "end"} /\ repair = "none" => NoneLeft
    /\ pc \in {"check", "prepare"} => NoneLeft \/ FirstTurn \/ (~memoryFull /\ EarlyTurn)
    /\ pc = "peeked" => immediate \subseteq peek /\ (peek = {} \/ EarlyTurn)
    /\ pc = "recorded" => immediate \subseteq peek /\ RunFits
    /\ pc \in {"taken", "foldTaken"} => Emptied
    /\ pc \in {"round", "tools", "failed"} => RestRuns \/ (~rest /\ Emptied)
    /\ pc \notin {"foldPeeked", "foldRecorded"}
    /\ pc = "outcome" => NoneLeft \/ (FirstTurn /\ ~memoryFull)

EndPromises ==
    /\ pc = "finish" /\ reason \in {"done", "error"} => RestRuns \/ (~rest /\ NoneLeft)
    /\ pc = "finish" /\ reason = "compaction" =>
           BeforeRegain \/ (NoneLeft /\ (run = {} \/ compactions > 1))
    /\ pc = "compacting" => BeforeRegain \/ (NoneLeft /\ run = {})
    /\ pc = "restEnd" => NoneLeft \/ FirstTurn

\* A turn is aborted for one of the exceptions, which stand until its cycle is over.
AbortIsExcused ==
    /\ Abortable /\ aborted => Excused
    /\ Abortable /\ paused /\ ~aborted => pc \in {"slot", "check"}
    /\ pc = "interrupted" \/ (pc = "finish" /\ reason = "interrupted") => aborted
    /\ owner = "prepared" => scrub = "owner"

\* A rest turn takes no wake and folds none in.
RestTakesNothing ==
    /\ rest /\ pc \in {"round", "tools", "failed", "interrupted", "finish"} => run = {}
    /\ pc \in {"recorded", "taken", "foldPeeked", "foldRecorded", "foldTaken"} => ~rest

NothingLeftBehind == leftOpen \/ AnotherCycle \/ Excused \/ (TurnPromises /\ EndPromises)

PokeInv == AbortIsExcused /\ RestTakesNothing /\ NothingLeftBehind

\* The queue keeps its promise through the lock, the slot and the end of a cycle.
LEMMA CyclePokes ==
  ASSUME IInv, PokeInv, LifeAssumption, MaxTurns > 2, Flags', leftOpen => leftOpen',
         StartCycle \/ TakeLock \/ Sealed \/ TakeSlot \/ EndCycle
  PROVE  PokeInv'
<1> USE DEF Flags, LifeAssumption, durable, turnVars, cycleVars, pokeVars, bootVars, history,
      TypeOK, BootIsInOrder, LockIsExclusive, RunIsHeld, RepairKnows, Repairing, PokeInv,
      AbortIsExcused, RestTakesNothing, NothingLeftBehind, AnotherCycle, Excused,
      ForgetWillPoke, TurnPromises, EndPromises, FirstTurn, EarlyTurn, BeforeRegain,
      NoneLeft, RunFits, Emptied, RestRuns, MayHold,
      Up, BeforeTurn, OpenTurn, AfterTurn, TurnPcs, CyclePcs, PCs, LockQueue, Abortable,
      InCycle, HoldsLock, ForgetHoldsLock, Disturb, MyTurnForLock
<1>0. TypeOK /\ BootIsInOrder /\ LockIsExclusive /\ RunIsHeld /\ (leftOpen \/ RepairKnows)
  BY DEF IInv, FilesInv
<1>1. CASE StartCycle
  BY <1>0, <1>1 DEF StartCycle
<1>2. CASE TakeLock
  BY <1>0, <1>2 DEF TakeLock
<1>3. CASE Sealed
  BY <1>0, <1>3 DEF Sealed
<1>4. CASE TakeSlot
  BY <1>0, <1>4 DEF TakeSlot
<1>5. CASE EndCycle
  BY <1>0, <1>5 DEF EndCycle
<1> QED
  BY <1>1, <1>2, <1>3, <1>4, <1>5

\* The queue keeps its promise through the start of a turn.
LEMMA TurnStartPokes ==
  ASSUME IInv, PokeInv, LifeAssumption, MaxTurns > 2, Flags', leftOpen => leftOpen',
         NothingToDo \/ WaitForProvider \/ BudgetSpent \/ CheckTurn \/ PrepareAborted \/
         StartRest \/ PeekQueue \/ RecordTurn \/ TakeWakes \/ ShowNotifications
  PROVE  PokeInv'
<1> USE DEF Flags, LifeAssumption, durable, turnVars, cycleVars, pokeVars, bootVars, history,
      TypeOK, BootIsInOrder, LockIsExclusive, RunIsHeld, RepairKnows, Repairing, PokeInv,
      AbortIsExcused, RestTakesNothing, NothingLeftBehind, AnotherCycle, Excused,
      ForgetWillPoke, TurnPromises, EndPromises, FirstTurn, EarlyTurn, BeforeRegain,
      NoneLeft, RunFits, Emptied, RestRuns, MayHold,
      Up, BeforeTurn, OpenTurn, AfterTurn, TurnPcs, CyclePcs, PCs, LockQueue, Abortable,
      InCycle, HoldsLock, ForgetHoldsLock, Disturb, Take, SomethingDue, FollowUpDue
<1>0. TypeOK /\ BootIsInOrder /\ LockIsExclusive /\ RunIsHeld /\ (leftOpen \/ RepairKnows)
  BY DEF IInv, FilesInv
<1>1. CASE NothingToDo
  BY <1>0, <1>1 DEF NothingToDo
<1>2. CASE WaitForProvider
  BY <1>0, <1>2 DEF WaitForProvider
<1>3. CASE BudgetSpent
  BY <1>0, <1>3 DEF BudgetSpent
<1>4. CASE CheckTurn
  BY <1>0, <1>4 DEF CheckTurn
<1>5. CASE PrepareAborted
  BY <1>0, <1>5 DEF PrepareAborted
<1>6. CASE StartRest
  BY <1>0, <1>6 DEF StartRest
<1>7. CASE PeekQueue
  BY <1>0, <1>7 DEF PeekQueue
<1>8. CASE RecordTurn
  BY <1>0, <1>8 DEF RecordTurn
<1>9. CASE TakeWakes
  BY <1>0, <1>9 DEF TakeWakes
<1>10. CASE ShowNotifications
  BY <1>0, <1>10 DEF ShowNotifications
<1> QED
  BY <1>1, <1>2, <1>3, <1>4, <1>5, <1>6, <1>7, <1>8, <1>9, <1>10

\* The queue keeps its promise through the rounds and the folds.
LEMMA RoundsPokes ==
  ASSUME IInv, PokeInv, LifeAssumption, MaxTurns > 2, Flags', leftOpen => leftOpen',
         RoundAborted \/ Answer \/ Nudge \/ CallTools \/ Overflow \/ CallFails \/
         ToolsInterrupted \/ Capped \/ PeekFold \/ RecordFold \/ TakeFold \/ ShowFold
  PROVE  PokeInv'
<1> USE DEF Flags, LifeAssumption, durable, turnVars, cycleVars, pokeVars, bootVars, history,
      TypeOK, BootIsInOrder, LockIsExclusive, RunIsHeld, RepairKnows, Repairing, PokeInv,
      AbortIsExcused, RestTakesNothing, NothingLeftBehind, AnotherCycle, Excused,
      ForgetWillPoke, TurnPromises, EndPromises, FirstTurn, EarlyTurn, BeforeRegain,
      NoneLeft, RunFits, Emptied, RestRuns, MayHold,
      Up, BeforeTurn, OpenTurn, AfterTurn, TurnPcs, CyclePcs, PCs, LockQueue, Abortable,
      InCycle, HoldsLock, ForgetHoldsLock, Disturb, Take, FillMemory, FoldedRecord
<1>0. TypeOK /\ BootIsInOrder /\ LockIsExclusive /\ RunIsHeld /\ (leftOpen \/ RepairKnows)
  BY DEF IInv, FilesInv
<1>1. CASE RoundAborted
  BY <1>0, <1>1 DEF RoundAborted
<1>2. CASE Answer
  BY <1>0, <1>2 DEF Answer
<1>3. CASE Nudge
  BY <1>0, <1>3 DEF Nudge
<1>4. CASE CallTools
  BY <1>0, <1>4 DEF CallTools
<1>5. CASE Overflow
  BY <1>0, <1>5 DEF Overflow
<1>6. CASE CallFails
  BY <1>0, <1>6 DEF CallFails
<1>7. CASE ToolsInterrupted
  BY <1>0, <1>7 DEF ToolsInterrupted
<1>8. CASE Capped
  BY <1>0, <1>8 DEF Capped
<1>9. CASE PeekFold
  BY <1>0, <1>9 DEF PeekFold
<1>10. CASE RecordFold
  BY <1>0, <1>10 DEF RecordFold
<1>11. CASE TakeFold
  BY <1>0, <1>11 DEF TakeFold
<1>12. CASE ShowFold
  BY <1>0, <1>12 DEF ShowFold
<1> QED
  BY <1>1, <1>2, <1>3, <1>4, <1>5, <1>6, <1>7, <1>8, <1>9, <1>10, <1>11, <1>12

\* The queue keeps its promise through the ends of a turn.
LEMMA TurnEndPokes ==
  ASSUME IInv, PokeInv, LifeAssumption, MaxTurns > 2, Flags', leftOpen => leftOpen',
         RequeueInterrupted \/ FailIntoCooldown \/ FailWithFollowUp \/ FinishTurn \/ Regain \/
         EndRest \/ Outcome
  PROVE  PokeInv'
<1> USE DEF Flags, LifeAssumption, durable, turnVars, cycleVars, pokeVars, bootVars, history,
      TypeOK, BootIsInOrder, LockIsExclusive, RunIsHeld, RepairKnows, Repairing, PokeInv,
      AbortIsExcused, RestTakesNothing, NothingLeftBehind, AnotherCycle, Excused,
      ForgetWillPoke, TurnPromises, EndPromises, FirstTurn, EarlyTurn, BeforeRegain,
      NoneLeft, RunFits, Emptied, RestRuns, MayHold,
      Up, BeforeTurn, OpenTurn, AfterTurn, TurnPcs, CyclePcs, PCs, LockQueue, Abortable,
      InCycle, HoldsLock, ForgetHoldsLock, Disturb, Requeue, NextTurn, AfterFinish, EndedRun
<1>0. TypeOK /\ BootIsInOrder /\ LockIsExclusive /\ RunIsHeld /\ (leftOpen \/ RepairKnows)
  BY DEF IInv, FilesInv
<1>1. CASE RequeueInterrupted
  BY <1>0, <1>1 DEF RequeueInterrupted
<1>2. CASE FailIntoCooldown
  BY <1>0, <1>2 DEF FailIntoCooldown
<1>3. CASE FailWithFollowUp
  BY <1>0, <1>3 DEF FailWithFollowUp
<1>4. CASE FinishTurn
  <2>1. AbortIsExcused' /\ RestTakesNothing'
    BY <1>0, <1>4 DEF FinishTurn
  <2>2. CASE reason = "cooling"
    <3>1. retry'
      BY <1>4, <2>2, Zenon DEF FinishTurn
    <3> QED BY <2>1, <3>1
  <2>3. CASE reason # "cooling" /\ ~AnotherCycle' /\ ~Excused' /\ ~leftOpen'
    <3>1. TurnPromises /\ EndPromises
      <4>1. ~leftOpen /\ ~AnotherCycle /\ ~Excused
        BY <1>4, <2>3 DEF FinishTurn
      <4> QED BY <4>1
    <3>2. CASE reason = "interrupted"
      BY <1>0, <1>4, <2>3, <3>2 DEF FinishTurn
    <3>3. CASE reason \in {"done", "error"}
      BY <1>0, <1>4, <2>1, <3>1, <3>3 DEF FinishTurn
    <3>4. CASE reason = "compaction"
      BY <1>0, <1>4, <2>1, <3>1, <3>4 DEF FinishTurn
    <3> QED BY <1>0, <2>3, <3>2, <3>3, <3>4
  <2> QED BY <2>1, <2>2, <2>3
<1>5. CASE Regain
  BY <1>0, <1>5 DEF Regain
<1>6. CASE EndRest
  BY <1>0, <1>6 DEF EndRest
<1>7. CASE Outcome
  BY <1>0, <1>7 DEF Outcome
<1> QED
  BY <1>1, <1>2, <1>3, <1>4, <1>5, <1>6, <1>7

\* The queue keeps its promise through the timers and the released batch.
LEMMA TimersPokes ==
  ASSUME IInv, PokeInv, LifeAssumption, MaxTurns > 2, Flags', leftOpen => leftOpen',
         Poke \/ RetryFires \/ FollowUpFires \/ ReleaseDeferred
  PROVE  PokeInv'
<1> USE DEF Flags, LifeAssumption, durable, turnVars, cycleVars, pokeVars, bootVars, history,
      TypeOK, BootIsInOrder, LockIsExclusive, RunIsHeld, RepairKnows, Repairing, PokeInv,
      AbortIsExcused, RestTakesNothing, NothingLeftBehind, AnotherCycle, Excused,
      ForgetWillPoke, TurnPromises, EndPromises, FirstTurn, EarlyTurn, BeforeRegain,
      NoneLeft, RunFits, Emptied, RestRuns, MayHold,
      Up, BeforeTurn, OpenTurn, AfterTurn, TurnPcs, CyclePcs, PCs, LockQueue, Abortable,
      InCycle, HoldsLock, ForgetHoldsLock, Disturb, PokeLife
<1>0. TypeOK /\ BootIsInOrder /\ LockIsExclusive /\ RunIsHeld /\ (leftOpen \/ RepairKnows)
  BY DEF IInv, FilesInv
<1>1. CASE Poke
  BY <1>0, <1>1 DEF Poke
<1>2. CASE RetryFires
  BY <1>0, <1>2 DEF RetryFires
<1>3. CASE FollowUpFires
  BY <1>0, <1>3 DEF FollowUpFires
<1>4. CASE ReleaseDeferred
  BY <1>0, <1>4 DEF ReleaseDeferred
<1> QED
  BY <1>1, <1>2, <1>3, <1>4

\* The queue keeps its promise through a forget.
LEMMA ForgetPokes ==
  ASSUME IInv, PokeInv, LifeAssumption, MaxTurns > 2, Flags', leftOpen => leftOpen',
         PrepareForget \/ AbortForForget \/ LockForForget \/ ScrubQueue \/ ForgetDone
  PROVE  PokeInv'
<1> USE DEF Flags, LifeAssumption, durable, turnVars, cycleVars, pokeVars, bootVars, history,
      TypeOK, BootIsInOrder, LockIsExclusive, RunIsHeld, RepairKnows, Repairing, PokeInv,
      AbortIsExcused, RestTakesNothing, NothingLeftBehind, AnotherCycle, Excused,
      ForgetWillPoke, TurnPromises, EndPromises, FirstTurn, EarlyTurn, BeforeRegain,
      NoneLeft, RunFits, Emptied, RestRuns, MayHold,
      Up, BeforeTurn, OpenTurn, AfterTurn, TurnPcs, CyclePcs, PCs, LockQueue, Abortable,
      InCycle, HoldsLock, ForgetHoldsLock, Disturb, Abort, ForgetMayLock
<1>0. TypeOK /\ BootIsInOrder /\ LockIsExclusive /\ RunIsHeld /\ (leftOpen \/ RepairKnows)
  BY DEF IInv, FilesInv
<1>1. CASE PrepareForget
  BY <1>0, <1>1 DEF PrepareForget
<1>2. CASE AbortForForget
  BY <1>0, <1>2 DEF AbortForForget
<1>3. CASE LockForForget
  BY <1>0, <1>3 DEF LockForForget
<1>4. CASE ScrubQueue
  BY <1>0, <1>4 DEF ScrubQueue
<1>5. CASE ForgetDone
  BY <1>0, <1>5 DEF ForgetDone
<1> QED
  BY <1>1, <1>2, <1>3, <1>4, <1>5

\* The queue keeps its promise through a crash and boot repair.
LEMMA RepairPokes ==
  ASSUME IInv, PokeInv, LifeAssumption, MaxTurns > 2, Flags', leftOpen => leftOpen',
         Crash \/ Boot \/ RepairRead \/ RepairRequeue \/ RepairIdle \/ RepairThrows \/
         BootArm \/ BootScrub \/ BootResume
  PROVE  PokeInv'
<1> USE DEF Flags, LifeAssumption, durable, turnVars, cycleVars, pokeVars, bootVars, history,
      TypeOK, BootIsInOrder, LockIsExclusive, RunIsHeld, RepairKnows, Repairing, PokeInv,
      AbortIsExcused, RestTakesNothing, NothingLeftBehind, AnotherCycle, Excused,
      ForgetWillPoke, TurnPromises, EndPromises, FirstTurn, EarlyTurn, BeforeRegain,
      NoneLeft, RunFits, Emptied, RestRuns, MayHold,
      Up, BeforeTurn, OpenTurn, AfterTurn, TurnPcs, CyclePcs, PCs, LockQueue, Abortable,
      InCycle, HoldsLock, ForgetHoldsLock, Disturb, ScrubQueued, WakesWait
<1>0. TypeOK /\ BootIsInOrder /\ LockIsExclusive /\ RunIsHeld /\ (leftOpen \/ RepairKnows)
  BY DEF IInv, FilesInv
<1>1. CASE Crash
  BY <1>0, <1>1 DEF Crash
<1>2. CASE Boot
  BY <1>0, <1>2 DEF Boot
<1>3. CASE RepairRead
  BY <1>0, <1>3 DEF RepairRead
<1>4. CASE RepairRequeue
  BY <1>0, <1>4 DEF RepairRequeue
<1>5. CASE RepairIdle
  BY <1>0, <1>5 DEF RepairIdle
<1>6. CASE RepairThrows
  BY <1>0, <1>6 DEF RepairThrows
<1>7. CASE BootArm \/ BootScrub \/ BootResume
  BY <1>0, <1>7 DEF BootArm, BootScrub, BootResume
<1> QED
  BY <1>1, <1>2, <1>3, <1>4, <1>5, <1>6, <1>7

\* The queue keeps its promise through a thrown error, a pause and a resume.
LEMMA OwnerPokes ==
  ASSUME IInv, PokeInv, LifeAssumption, MaxTurns > 2, Flags', leftOpen => leftOpen',
         TurnThrows \/ Pause \/ Resume
  PROVE  PokeInv'
<1> USE DEF Flags, LifeAssumption, durable, turnVars, cycleVars, pokeVars, bootVars, history,
      TypeOK, BootIsInOrder, LockIsExclusive, RunIsHeld, RepairKnows, Repairing, PokeInv,
      AbortIsExcused, RestTakesNothing, NothingLeftBehind, AnotherCycle, Excused,
      ForgetWillPoke, TurnPromises, EndPromises, FirstTurn, EarlyTurn, BeforeRegain,
      NoneLeft, RunFits, Emptied, RestRuns, MayHold,
      Up, BeforeTurn, OpenTurn, AfterTurn, TurnPcs, CyclePcs, PCs, LockQueue, Abortable,
      InCycle, HoldsLock, ForgetHoldsLock, Disturb, Abort, WakesWait
<1>0. TypeOK /\ BootIsInOrder /\ LockIsExclusive /\ RunIsHeld /\ (leftOpen \/ RepairKnows)
  BY DEF IInv, FilesInv
<1>1. CASE TurnThrows
  BY <1>0, <1>1 DEF TurnThrows
<1>2. CASE Pause
  BY <1>0, <1>2 DEF Pause
<1>3. CASE Resume
  BY <1>0, <1>3 DEF Resume
<1> QED
  BY <1>1, <1>2, <1>3

\* The queue keeps its promise through an arrival: it will be poked for.
LEMMA ArrivePokes ==
  ASSUME IInv, PokeInv, Flags', NEW w \in Wakes, Arrive(w) \/ ArriveOverBudget(w)
  PROVE  PokeInv'
<1> USE DEF Flags, turnVars, cycleVars, pokeVars, bootVars, PokeInv,
      AbortIsExcused, RestTakesNothing, NothingLeftBehind, AnotherCycle, Excused,
      ForgetWillPoke, TurnPromises, EndPromises, FirstTurn, EarlyTurn, BeforeRegain,
      NoneLeft, RunFits, Emptied, RestRuns, Abortable, InCycle
<1>0. TypeOK
  BY DEF IInv
<1>1. CASE Arrive(w)
  <2>1. AnotherCycle'
    BY <1>1, Zenon DEF Arrive
  <2> QED BY <1>1, <2>1 DEF Arrive
<1>2. CASE ArriveOverBudget(w)
  BY <1>0, <1>2 DEF ArriveOverBudget
<1> QED BY <1>1, <1>2

LEMMA NextPokes ==
  ASSUME IInv, PokeInv, LifeAssumption, MaxTurns > 2, [Next]_vars
  PROVE  PokeInv'
<1>1. CASE Next
  <2>1. Flags' /\ (leftOpen => leftOpen')
    BY <1>1, FlagsStep, LeftOpenStays DEF IInv
  <2>2. CASE \E w \in Wakes : Arrive(w) \/ ArriveOverBudget(w)
    BY <2>1, <2>2, ArrivePokes
  <2>3. CASE ~ \E w \in Wakes : Arrive(w) \/ ArriveOverBudget(w)
    BY <1>1, <2>1, <2>3, CyclePokes, TurnStartPokes, RoundsPokes, TurnEndPokes, TimersPokes,
       ForgetPokes, RepairPokes, OwnerPokes
    DEF Next, Cycle, TurnStart, Rounds, TurnEnd, Timers, Forget, Repair, Environment
  <2> QED BY <2>2, <2>3
<1>2. CASE UNCHANGED vars
  BY <1>2
  DEF vars, durable, turnVars, cycleVars, pokeVars, bootVars, history, PokeInv,
      AbortIsExcused, RestTakesNothing, NothingLeftBehind, AnotherCycle, Excused,
      ForgetWillPoke, TurnPromises, EndPromises, FirstTurn, EarlyTurn, BeforeRegain,
      NoneLeft, RunFits, Emptied, RestRuns, Abortable, InCycle
<1> QED BY <1>1, <1>2

\* A wake in the queue of an idle life has a poke coming, through every pause, forget, failure,
\* crash and compaction, if a cycle has room for a rest, an overflowed turn and the turn after it
\* (poke, runCycle, retryAfter, catchUpAndResume, runForget).
THEOREM QueuedIsPoked ==
  ASSUME MaxTurns > 2
  PROVE  Spec => []QueuedWakesArePoked
<1>1. Init => PokeInv
  BY DEF Init, PokeInv, AbortIsExcused, RestTakesNothing, NothingLeftBehind, TurnPromises,
     EndPromises, NoneLeft, Abortable, TurnPcs, BeforeTurn, OpenTurn, AfterTurn
<1>2. IInv /\ PokeInv /\ [Next]_vars => PokeInv'
  BY NextPokes, LifeAssumption
<1>3. IInv /\ PokeInv => QueuedWakesArePoked
  BY DEF IInv, TypeOK, PokeInv, NothingLeftBehind, AnotherCycle, Excused, ForgetWillPoke,
     TurnPromises, NoneLeft, InCycle, CyclePcs, TurnPcs, BeforeTurn, OpenTurn, AfterTurn,
     LockQueue, QueuedWakesArePoked, PokePending
<1> QED BY <1>1, <1>2, <1>3, Invariance, PTL DEF Spec

-----------------------------------------------------------------------------
(* The life implements WakeDelivery *)

\* While a turn holds its wakes out of the queue, they are what WakeDelivery calls held.
LEMMA HeldIsRun ==
  ASSUME IInv, ~leftOpen, OutOfQueue
  PROVE  Held = run
<1>1. pc \in OpenTurn \/ (pc = "compacting" /\ ~inTurn)
  BY DEF IInv, FilesInv, RecordIsTurn, RepairKnows, Repairing, OutOfQueue, OpenTurn
<1>2. run \intersect Waiting = {}
  BY DEF IInv, FilesInv, OnePlace
<1>3. pc \in OpenTurn => pc # "compacting" /\ turnWakes = run
  BY DEF IInv, FilesInv, RecordIsTurn, EveryTurnIsRecorded, OpenTurn
<1>4. ~inTurn => turnWakes = {}
  BY DEF IInv, FilesInv, RecordIsTurn
<1> QED BY <1>1, <1>2, <1>3, <1>4 DEF Held

\* The take of a turn's start or of a fold.
LEMMA TakeIsTake ==
  ASSUME IInv, ~leftOpen, TakeWakes \/ TakeFold
  PROVE  Delivery!Take(peek)
<1>1. peek \subseteq turnWakes /\ peek \subseteq immediate /\ peek \intersect deferred = {}
  BY DEF IInv, FilesInv, RunIsHeld, OnePlace, RecordIsTurn, EveryTurnIsRecorded, OpenTurn, TakeWakes,
       TakeFold
<1>2. Waiting' = Waiting \ peek
  BY <1>1 DEF Waiting, Take, TakeWakes, TakeFold
<1>3. Held' = Held \union peek
  BY <1>1, <1>2 DEF Held, Waiting, TakeWakes, TakeFold, turnVars
<1> QED BY <1>1, <1>2, <1>3 DEF Waiting, TakeWakes, TakeFold, history, Delivery!Take

\* What an interrupt, a cooldown or a compaction puts back.
LEMMA RequeueIsGiveBack ==
  ASSUME IInv, ~leftOpen, RequeueInterrupted \/ FailIntoCooldown \/ Regain
  PROVE  Delivery!GiveBack
<1>1. Held = run
  BY HeldIsRun DEF OutOfQueue, RequeueInterrupted, FailIntoCooldown, Regain
<1> QED BY <1>1 DEF IInv, FilesInv, TypeOK, OnePlace, RecordIsTurn, EveryTurnIsRecorded, OpenTurn,
     Waiting, Held, Requeue, RequeueInterrupted, FailIntoCooldown, Regain, NextTurn,
     Delivery!GiveBack, history

\* What boot repair puts back.
LEMMA RepairIsGiveBack ==
  ASSUME IInv, ~leftOpen, RepairRequeue
  PROVE  Delivery!GiveBack
BY DEF IInv, FilesInv, RepairKnows, Repairing, OnePlace, Waiting, Held, RepairRequeue,
     Delivery!GiveBack, history

\* The end of a turn settles its wakes, loses them (a second overflow) or changes nothing.
LEMMA FinishIsSettle ==
  ASSUME IInv, ~leftOpen, FinishTurn
  PROVE  Delivery!Settle \/ Delivery!Lose \/ UNCHANGED Delivery!vars
<1>1. CASE reason \in {"done", "error", "compaction"}
  <2>1. Held = run BY <1>1, HeldIsRun DEF OutOfQueue, FinishTurn
  <2> QED BY <1>1, <2>1 DEF IInv, FilesInv, TypeOK, OnePlace, FinishTurn, OutOfQueue, AfterFinish,
       EndedRun, Waiting, Held, Delivery!Settle, Delivery!Lose, Delivery!vars
<1>2. CASE reason \in {"interrupted", "cooling"}
  BY <1>2 DEF IInv, FilesInv, TypeOK, OnePlace, RecordIsTurn, EveryTurnIsRecorded, OpenTurn, FinishTurn,
       AfterFinish, EndedRun, Waiting, Held, Delivery!vars
<1> QED BY <1>1, <1>2 DEF IInv, FilesInv, TypeOK

\* A crash loses the wakes of an open compaction only.
LEMMA CrashIsLose ==
  ASSUME IInv, ~leftOpen, Crash
  PROVE  Delivery!Lose \/ UNCHANGED Delivery!vars
<1>1. CASE pc = "compacting"
  <2>1. Held = run
    BY <1>1, HeldIsRun DEF OutOfQueue
  <2>2. run \intersect Waiting = {} /\ turnWakes = {}
    BY <1>1 DEF IInv, FilesInv, OnePlace, OutOfQueue, RecordIsTurn, RepairKnows, Repairing, OpenTurn
  <2> QED BY <1>1, <2>1, <2>2 DEF Crash, Waiting, Held, Delivery!Lose
<1>2. CASE pc # "compacting"
  BY <1>2 DEF Crash, Waiting, Held, Delivery!vars
<1> QED BY <1>1, <1>2

\* An error thrown inside a turn loses its wakes.
LEMMA ThrowIsLose ==
  ASSUME IInv, ~leftOpen, TurnThrows, ~leftOpen'
  PROVE  Delivery!Lose \/ UNCHANGED Delivery!vars
<1>1. Held' = {}
  BY DEF TurnThrows, Held
<1>2. Held = run \ immediate
  BY DEF IInv, FilesInv, OnePlace, RecordIsTurn, RunIsHeld, RepairKnows, Repairing,
       EveryTurnIsRecorded, OpenTurn, MayHold, TurnPcs, BeforeTurn, AfterTurn, TurnThrows,
       Waiting, Held
<1> QED BY <1>1, <1>2 DEF TurnThrows, Waiting, Delivery!Lose

\* An arrival.
LEMMA ArriveIsAdmit ==
  ASSUME IInv, ~leftOpen, NEW w \in Wakes, Arrive(w) \/ ArriveOverBudget(w)
  PROVE  Delivery!Admit(w)
<1>1. w \notin admitted
  BY DEF Arrive, ArriveOverBudget, MayArrive
<1>2. Held \subseteq admitted
  BY DEF IInv, FilesInv, OnlyAdmitted, Held
<1>3. Held' = Held
  BY <1>1, <1>2 DEF IInv, FilesInv, OnlyAdmitted, Arrive, ArriveOverBudget, Held, Waiting, turnVars
<1> QED BY <1>1, <1>2, <1>3 DEF IInv, FilesInv, OnlyAdmitted, Arrive, ArriveOverBudget, Waiting,
     Delivery!Admit, Delivery!Seen

\* The batch's part of a forget.
LEMMA PrepareIsForget ==
  ASSUME IInv, ~leftOpen, PrepareForget
  PROVE  Delivery!Forget(deferred \intersect ForgottenWakes)
<1>1. Held' = Held
  BY DEF IInv, FilesInv, OnePlace, PrepareForget, Held, Waiting, turnVars
<1> QED BY <1>1 DEF IInv, FilesInv, OnePlace, PrepareForget, Waiting, Delivery!Forget

\* The queue's part of a forget.
LEMMA ScrubIsForget ==
  ASSUME IInv, ~leftOpen, ScrubQueue
  PROVE  Delivery!Forget(Waiting \intersect ForgottenWakes)
<1>1. Held' = {} /\ Held = {}
  BY DEF IInv, FilesInv, TypeOK, BootIsInOrder, RecordIsTurn, RunIsHeld, Repairing,
       LockIsExclusive, ForgetHoldsLock,
       HoldsLock, LockQueue, CyclePcs, TurnPcs, OpenTurn, AfterTurn, BeforeTurn, PCs,
       ScrubQueue, Up, Held, turnVars, MayHold
<1> QED BY <1>1 DEF ScrubQueue, Waiting, Delivery!Forget

\* A record changes no wake's place, nor does the end of a record boot repair has requeued.
LEMMA RecordIsStutter ==
  ASSUME IInv, ~leftOpen, RecordTurn \/ RecordFold \/ RepairIdle
  PROVE  UNCHANGED Delivery!vars
BY DEF IInv, FilesInv, TypeOK, OnePlace, RecordIsTurn, RunIsHeld, RepairKnows, Repairing,
     EveryTurnIsRecorded, OpenTurn, FoldedRecord, RecordTurn, RecordFold, RepairIdle, Waiting,
     Held, Delivery!vars, history, turnVars

\* A wake that moves between the queue and the batch still waits.
LEMMA BatchIsStutter ==
  ASSUME IInv, ~leftOpen, ReleaseDeferred \/ BudgetSpent
  PROVE  UNCHANGED Delivery!vars
BY DEF ReleaseDeferred, BudgetSpent, Waiting, Held, Delivery!vars, history, turnVars

\* A rest turn takes no wake.
LEMMA RestIsStutter ==
  ASSUME IInv, ~leftOpen, StartRest
  PROVE  UNCHANGED Delivery!vars
BY DEF IInv, FilesInv, TypeOK, RecordIsTurn, RepairKnows, Repairing, OpenTurn, StartRest, Waiting, Held,
     Delivery!vars, history

\* The other steps of a cycle.
LEMMA CycleIsStutter ==
  ASSUME StartCycle \/ TakeLock \/ Sealed \/ TakeSlot \/ EndCycle \/ NothingToDo \/
       WaitForProvider \/ CheckTurn \/ PrepareAborted \/ PeekQueue \/ ShowNotifications \/
       RoundAborted \/ Answer \/ Nudge \/ CallTools \/ Overflow \/ CallFails \/
       ToolsInterrupted \/ Capped \/ PeekFold \/ ShowFold \/ FailWithFollowUp \/ EndRest \/
       Outcome
  PROVE  UNCHANGED Delivery!vars
BY DEF StartCycle, TakeLock, Sealed, TakeSlot, EndCycle, NothingToDo, WaitForProvider,
     CheckTurn, PrepareAborted, PeekQueue, ShowNotifications, RoundAborted, Answer, Nudge,
     CallTools, Overflow, CallFails, ToolsInterrupted, Capped, PeekFold, ShowFold,
     FailWithFollowUp, EndRest, Outcome, NextTurn, MyTurnForLock, LockQueue,
  Waiting, Held, Delivery!vars, history, durable, turnVars
\* The steps of timers, owner and boot that touch no wake.
LEMMA OtherIsStutter ==
  ASSUME Poke \/ RetryFires \/ FollowUpFires \/ Pause \/ Resume \/ AbortForForget \/
       LockForForget \/ ForgetDone \/ Boot \/ RepairRead \/ RepairThrows \/
       BootArm \/ BootScrub \/ BootResume \/ UNCHANGED vars
  PROVE  UNCHANGED Delivery!vars
BY DEF Poke, RetryFires, FollowUpFires, Pause, Resume, AbortForForget, LockForForget,
     ForgetDone, Boot, RepairRead, RepairThrows, BootArm, BootScrub, BootResume, vars,
  Waiting, Held, Delivery!vars, history, durable, turnVars

\* Every step of a life is a step of WakeDelivery or changes nothing it sees.
LEMMA DeliveryStep ==
  ASSUME IInv, [Next]_vars, ~leftOpen'
  PROVE  [Delivery!Next]_(Delivery!vars)
<1> USE DEF Delivery!Next
<1>0. ~leftOpen
  BY FlagsStep, LeftOpenStays, Zenon DEF IInv, vars, history
<1>1. Waiting \subseteq Wakes /\ peek \subseteq Wakes /\ deferred \subseteq Wakes
  BY DEF IInv, FilesInv, TypeOK, Waiting
<1>2. CASE \E w \in Wakes : Arrive(w) \/ ArriveOverBudget(w)
  BY <1>0, <1>2, ArriveIsAdmit
<1>3. CASE TakeWakes \/ TakeFold
  BY <1>0, <1>1, <1>3, TakeIsTake
<1>4. CASE PrepareForget
  BY <1>0, <1>1, <1>4, PrepareIsForget
<1>5. CASE ScrubQueue
  BY <1>0, <1>1, <1>5, ScrubIsForget
<1>6. CASE RequeueInterrupted \/ FailIntoCooldown \/ Regain \/ RepairRequeue
  BY <1>0, <1>6, RequeueIsGiveBack, RepairIsGiveBack
<1>7. CASE FinishTurn \/ Crash \/ TurnThrows
  BY <1>0, <1>7, FinishIsSettle, CrashIsLose, ThrowIsLose
<1>8. CASE RecordTurn \/ RecordFold \/ RepairIdle \/ ReleaseDeferred \/ BudgetSpent \/
     StartRest
  BY <1>0, <1>8, RecordIsStutter, BatchIsStutter, RestIsStutter
<1> QED
  BY <1>2, <1>3, <1>4, <1>5, <1>6, <1>7, <1>8, CycleIsStutter, OtherIsStutter
  DEF Next, Cycle, TurnStart, Rounds, TurnEnd, Timers, Forget, Repair, Environment

\* A life keeps the promise of WakeDelivery: a turn takes wakes that wait, and they come back,
\* are settled or are lost together, once, until a turn is left open in her state.
THEOREM Implementation == Spec => ImplementsDelivery
<1>1. Init => Delivery!Init
  BY DEF Init, Delivery!Init, Waiting, Held
<1>2. IInv /\ [Next]_vars => [Delivery!Next \/ leftOpen']_(Delivery!vars)
  BY DeliveryStep
<1> QED BY <1>1, <1>2, Invariance, PTL DEF Spec, ImplementsDelivery
=============================================================================
