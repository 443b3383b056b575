------------------------- MODULE RemoteHelper_proofs -------------------------
(***************************************************************************)
(* Proofs about the remote helper: HelperSupervisor for any requests,      *)
(* failure limit, calls and faults, and WipcStream for any credit, buffer  *)
(* and length of the bodies.                                               *)
(***************************************************************************)
EXTENDS HelperSupervisor, WipcStream, FiniteSetTheorems, TLAPS

\* The parts of the type invariant.
FlagType ==
    /\ enabled \in BOOLEAN /\ pending \in BOOLEAN /\ known \in BOOLEAN
    /\ closing \in BOOLEAN /\ desired \in BOOLEAN /\ running \in BOOLEAN
    /\ circuit \in BOOLEAN

CallType ==
    call \in [Calls -> [op : {"none", "enable", "activate", "diagnose",
                             "stop", "close"},
                       pc : {"idle", "start", "drain"},
                       was : BOOLEAN, on : {0} \union Launches]]

LaunchType ==
    /\ st \in {"disabled", "starting", "ready", "degraded"}
    /\ {owner, launch, client, invalid} \subseteq {0} \union Launches
    /\ attempt \in [on : {0} \union Launches,
                    pc : {"none", "resolving", "authenticating"}]
    /\ timer \in {"none", "fast", "slow"}
    /\ proc \in [Launches -> {"none", "alive", "going", "gone"}]

CountType ==
    /\ failures \in 0..FailureLimit
    /\ started \in 0..Cardinality(Launches)
    /\ ops \in 0..MaxOps /\ faults \in 0..MaxFaults
    /\ mishaps \subseteq Mishaps

\* An attempt has a launch of its own, and a host that closes owns none.
AttemptHasLaunch ==
    /\ attempt # NoAttempt => attempt.on \in Launches /\ attempt.pc # "none"
    /\ closing => owner = 0

\* While no stop ended late.
InOrder == "endedLate" \notin mishaps

\* A ready supervisor tries nothing, and its client is the launch it keeps.
ReadyIsSettled ==
    /\ st = "ready" => attempt = NoAttempt
    /\ client # 0 => st = "ready" /\ launch = client

\* A helper that is up is the client, or the launch of the attempt; that one is
\* still the launch a stop would take.
UpIsKept ==
    /\ \A h \in Launches : proc[h] = "alive" =>
         h = client \/ (attempt.pc = "authenticating" /\ h = attempt.on)
    /\ attempt.pc = "authenticating" =>
         launch = attempt.on \/ (owner # attempt.on /\ proc[attempt.on] # "alive")

\* The state shown follows the attempt and the timer; one that shows a start
\* has the attempt that will settle it, or a drain that will.
ShowsItsWork ==
    /\ timer # "none" => st = "degraded" /\ attempt = NoAttempt
    /\ attempt # NoAttempt => st \in {"starting", "disabled"}
    /\ st = "starting" => (attempt # NoAttempt /\ owner = attempt.on) \/ Stopping
    /\ st = "degraded" /\ ~closing => timer # "none" \/ Stopping
    /\ st = "ready" => client # 0 \/ Stopping

KeptInv == InOrder => ReadyIsSettled /\ UpIsKept /\ ShowsItsWork

IInv == TypeOK /\ AttemptHasLaunch /\ OpenCircuitStaysSlow /\ KeptInv
-----------------------------------------------------------------------------
(* The invariant is inductive *)

\* Launches are numbered from 1, and there is one more than the budget.
LEMMA LaunchCount ==
  /\ Cardinality(Launches) \in Nat \ {0}
  /\ \A n \in Nat : n < Cardinality(Launches) => n + 1 \in Launches /\ n + 1 <= Cardinality(Launches)
  /\ 0 \notin Launches /\ Launches \subseteq Nat
<1>1. Cardinality(Launches) = MaxOps + MaxFaults + 1
  BY BoundsAssumption, FS_Interval DEF Launches
<1> QED BY <1>1, BoundsAssumption DEF Launches

\* A call is answered without a stop.
Answered(c) ==
    /\ call' = [call EXCEPT ![c] = Idle] /\ call[c].pc # "drain"
    /\ UNCHANGED <<closing, st, owner, launch, client, timer, failures, circuit, proc>>

\* A call stops the helper: the launch has been told to go and nothing is
\* armed; either the supervisor is off, or the call drains.
Stopped(c) ==
    /\ owner' = 0 /\ launch' = 0 /\ client' = 0
    /\ timer' = "none" /\ failures' = 0 /\ circuit' = FALSE
    /\ proc' \in [Launches -> {"none", "alive", "going", "gone"}]
    /\ \A h \in Launches : proc'[h] = "alive" => proc[h] = "alive" /\ h # launch
    /\ st' = "disabled" \/ (launch # 0 /\ st' = st /\ call'[c].pc = "drain")

\* What the effect of a stop is.
LEMMA StopEffect ==
  ASSUME CallType, LaunchType, NEW c \in Calls, NEW op \in {"stop", "close"}, Stop(c, op)
  PROVE  CallType' /\ Stopped(c)
<1> USE DEF CallType, LaunchType, Stop, Detach, ResetFailureCircuit, Idle
<1>1. [op |-> op, pc |-> "drain", was |-> FALSE, on |-> launch] \in
        [op : {"none", "enable", "activate", "diagnose", "stop", "close"},
         pc : {"idle", "start", "drain"}, was : BOOLEAN, on : {0} \union Launches]
  OBVIOUS
<1>2. Idle \in
        [op : {"none", "enable", "activate", "diagnose", "stop", "close"},
         pc : {"idle", "start", "drain"}, was : BOOLEAN, on : {0} \union Launches]
  OBVIOUS
<1>3. CallType'
  BY <1>1, <1>2
<1>4. launch # 0 => call'[c] = [op |-> op, pc |-> "drain", was |-> FALSE, on |-> launch]
  OBVIOUS
<1> QED BY <1>3, <1>4 DEF Stopped

\* The calls that may stop the helper either do, or are just answered.
LEMMA CallEnds ==
  ASSUME CallType, LaunchType, NEW c \in Calls,
         ActivationAsked(c) \/ StopIfIdle(c) \/ Close(c)
  PROVE  /\ CallType'
         /\ Answered(c) \/ Stopped(c)
         /\ UNCHANGED <<attempt, invalid>> /\ mishaps \subseteq mishaps'
<1>1. ASSUME call' = [call EXCEPT ![c] = Idle] PROVE CallType'
  BY <1>1 DEF CallType, Idle
<1>2. CASE Stop(c, "stop")
  <2>1. CallType' /\ Stopped(c)
    BY <1>2, StopEffect
  <2> QED BY <2>1 DEF ActivationAsked, StopIfIdle, Close, Settled, Note
<1>3. CASE Stop(c, "close")
  <2>1. CallType' /\ Stopped(c)
    BY <1>3, StopEffect
  <2> QED BY <2>1 DEF ActivationAsked, StopIfIdle, Close, Settled, Note
<1>4. CASE ~Stop(c, "stop") /\ ~Stop(c, "close")
  <2>1. Answered(c)
    BY <1>4 DEF ActivationAsked, StopIfIdle, Close, Settled, Answered, breaker
  <2>2. CallType'
    BY <2>1, <1>1 DEF Answered
  <2> QED BY <1>4, <2>1, <2>2 DEF ActivationAsked, StopIfIdle, Close, Settled, Note
<1> QED BY <1>2, <1>3, <1>4

\* What an attempt and a close leave of the generation, and the pace of the timer.
LEMMA AttemptStep ==
  ASSUME IInv, Next
  PROVE  AttemptHasLaunch' /\ OpenCircuitStaysSlow'
<1> USE LaunchCount
<1> USE DEF CallType, LaunchType, service, runtime, breaker, budget, Idle, NoAttempt, IInv,
            TypeOK, AttemptHasLaunch, OpenCircuitStaysSlow
<1>1. CASE Spawn
  BY <1>1 DEF Spawn
<1>2. CASE Authenticated
  BY <1>2 DEF Authenticated, ResetFailureCircuit
<1>3. CASE LaunchFault
  BY <1>3 DEF LaunchFault, AttemptFails, RecordFailure
<1>4. CASE LaunchGone
  BY <1>4 DEF LaunchGone, AttemptFails, RecordFailure
<1>5. CASE OnUnexpectedExit
  BY <1>5 DEF OnUnexpectedExit, RecordFailure
<1>6. CASE InvalidStatus
  BY <1>6 DEF InvalidStatus, Detach
<1>7. CASE InvalidDrained
  BY <1>7 DEF InvalidDrained, RecordFailure, Note
<1>8. CASE TimerFires
  BY <1>8 DEF TimerFires, BeginAttempt
<1>9. CASE WindowPasses
  BY <1>9 DEF WindowPasses
<1>10. ASSUME NEW h \in Launches, Exit(h)
      PROVE  AttemptHasLaunch' /\ OpenCircuitStaysSlow'
  BY <1>10 DEF Exit
<1>11. ASSUME NEW h \in Launches, HelperFault(h)
      PROVE  AttemptHasLaunch' /\ OpenCircuitStaysSlow'
  BY <1>11 DEF HelperFault
<1>12. ASSUME NEW c \in Calls, Enable(c)
      PROVE  AttemptHasLaunch' /\ OpenCircuitStaysSlow'
  BY <1>12 DEF Enable, Calling, Start, BeginAttempt, Waits, Note
<1>13. ASSUME NEW c \in Calls, Disable(c)
      PROVE  AttemptHasLaunch' /\ OpenCircuitStaysSlow'
  BY <1>13 DEF Disable, Calling
<1>14. ASSUME NEW c \in Calls, BeginActivation(c)
      PROVE  AttemptHasLaunch' /\ OpenCircuitStaysSlow'
  BY <1>14 DEF BeginActivation, Calling, Start, BeginAttempt, Waits, Note
<1>15. ASSUME NEW c \in Calls, EndActivation(c)
      PROVE  AttemptHasLaunch' /\ OpenCircuitStaysSlow'
  BY <1>15 DEF EndActivation, Calling
<1>16. ASSUME NEW c \in Calls, Diagnose(c)
      PROVE  AttemptHasLaunch' /\ OpenCircuitStaysSlow'
  BY <1>16 DEF Diagnose, Calling, Start, BeginAttempt, Waits
<1>17. ASSUME NEW c \in Calls, Reconnect(c)
      PROVE  AttemptHasLaunch' /\ OpenCircuitStaysSlow'
  BY <1>17 DEF Reconnect, Calling
<1>18. ASSUME NEW c \in Calls, Close(c)
      PROVE  AttemptHasLaunch' /\ OpenCircuitStaysSlow'
  BY <1>18 DEF Close, Stop, Detach, ResetFailureCircuit
<1>19. ASSUME NEW c \in Calls, StartRuntime(c)
      PROVE  AttemptHasLaunch' /\ OpenCircuitStaysSlow'
  BY <1>19 DEF StartRuntime, Settled, Note, Answers, Ready
<1>20. ASSUME NEW c \in Calls, ActivationAsked(c)
      PROVE  AttemptHasLaunch' /\ OpenCircuitStaysSlow'
  BY <1>20, CallEnds DEF Answered, Stopped
<1>21. ASSUME NEW c \in Calls, StopIfIdle(c)
      PROVE  AttemptHasLaunch' /\ OpenCircuitStaysSlow'
  BY <1>21, CallEnds DEF Answered, Stopped
<1>22. ASSUME NEW c \in Calls, Drained(c)
      PROVE  AttemptHasLaunch' /\ OpenCircuitStaysSlow'
  BY <1>22 DEF Drained, Note
<1> QED BY <1>1, <1>2, <1>3, <1>4, <1>5, <1>6, <1>7, <1>8, <1>9, <1>10, <1>11, <1>12, <1>13, <1>14,
          <1>15, <1>16, <1>17, <1>18, <1>19, <1>20, <1>21, <1>22 DEF Next, Supervise, Serve

\* The client, the helpers that are up, and the attempt.
LEMMA ReadyStep ==
  ASSUME IInv, Next
  PROVE  InOrder' => ReadyIsSettled' /\ UpIsKept'
<1> USE LaunchCount
<1> USE DEF CallType, LaunchType, service, runtime, breaker, budget, Idle, NoAttempt, IInv,
            TypeOK, AttemptHasLaunch, KeptInv, InOrder, Mishaps, ReadyIsSettled, UpIsKept,
            ShowsItsWork, Current, Stopping
<1>1. CASE Spawn
  BY <1>1 DEF Spawn
<1>2. CASE Authenticated
  BY <1>2 DEF Authenticated, ResetFailureCircuit
<1>3. CASE LaunchFault
  BY <1>3 DEF LaunchFault, AttemptFails, RecordFailure
<1>4. CASE LaunchGone
  BY <1>4 DEF LaunchGone, AttemptFails, RecordFailure
<1>5. CASE OnUnexpectedExit
  BY <1>5 DEF OnUnexpectedExit, RecordFailure
<1>6. CASE InvalidStatus
  BY <1>6 DEF InvalidStatus, Detach
<1>7. CASE InvalidDrained
  BY <1>7 DEF InvalidDrained, RecordFailure, Note
<1>8. CASE TimerFires
  BY <1>8 DEF TimerFires, BeginAttempt
<1>9. CASE WindowPasses
  BY <1>9 DEF WindowPasses
<1>10. ASSUME NEW h \in Launches, Exit(h)
      PROVE  InOrder' => ReadyIsSettled' /\ UpIsKept'
  BY <1>10 DEF Exit
<1>11. ASSUME NEW h \in Launches, HelperFault(h)
      PROVE  InOrder' => ReadyIsSettled' /\ UpIsKept'
  BY <1>11 DEF HelperFault
<1>12. ASSUME NEW c \in Calls, Enable(c)
      PROVE  InOrder' => ReadyIsSettled' /\ UpIsKept'
  BY <1>12 DEF Enable, Calling, Start, BeginAttempt, Waits, Note
<1>13. ASSUME NEW c \in Calls, Disable(c)
      PROVE  InOrder' => ReadyIsSettled' /\ UpIsKept'
  BY <1>13 DEF Disable, Calling
<1>14. ASSUME NEW c \in Calls, BeginActivation(c)
      PROVE  InOrder' => ReadyIsSettled' /\ UpIsKept'
  BY <1>14 DEF BeginActivation, Calling, Start, BeginAttempt, Waits, Note
<1>15. ASSUME NEW c \in Calls, EndActivation(c)
      PROVE  InOrder' => ReadyIsSettled' /\ UpIsKept'
  BY <1>15 DEF EndActivation, Calling
<1>16. ASSUME NEW c \in Calls, Diagnose(c)
      PROVE  InOrder' => ReadyIsSettled' /\ UpIsKept'
  BY <1>16 DEF Diagnose, Calling, Start, BeginAttempt, Waits
<1>17. ASSUME NEW c \in Calls, Reconnect(c)
      PROVE  InOrder' => ReadyIsSettled' /\ UpIsKept'
  BY <1>17 DEF Reconnect, Calling
<1>18. ASSUME NEW c \in Calls, Close(c)
      PROVE  InOrder' => ReadyIsSettled' /\ UpIsKept'
  BY <1>18 DEF Close, Stop, Detach, ResetFailureCircuit
<1>19. ASSUME NEW c \in Calls, StartRuntime(c)
      PROVE  InOrder' => ReadyIsSettled' /\ UpIsKept'
  BY <1>19 DEF StartRuntime, Settled, Note, Answers, Ready
<1>20. ASSUME NEW c \in Calls, ActivationAsked(c)
      PROVE  InOrder' => ReadyIsSettled' /\ UpIsKept'
  <2>1. (Answered(c) \/ Stopped(c)) /\ UNCHANGED <<attempt, invalid>> /\ mishaps \subseteq mishaps'
    BY <1>20, CallEnds
  <2>2. CASE Answered(c)
    BY <2>1, <2>2 DEF Answered
  <2>3. CASE Stopped(c)
    BY <2>1, <2>3 DEF Stopped
  <2> QED BY <2>1, <2>2, <2>3
<1>21. ASSUME NEW c \in Calls, StopIfIdle(c)
      PROVE  InOrder' => ReadyIsSettled' /\ UpIsKept'
  <2>1. (Answered(c) \/ Stopped(c)) /\ UNCHANGED <<attempt, invalid>> /\ mishaps \subseteq mishaps'
    BY <1>21, CallEnds
  <2>2. CASE Answered(c)
    BY <2>1, <2>2 DEF Answered
  <2>3. CASE Stopped(c)
    BY <2>1, <2>3 DEF Stopped
  <2> QED BY <2>1, <2>2, <2>3
<1>22. ASSUME NEW c \in Calls, Drained(c)
      PROVE  InOrder' => ReadyIsSettled' /\ UpIsKept'
  BY <1>22 DEF Drained, Note
<1> QED BY <1>1, <1>2, <1>3, <1>4, <1>5, <1>6, <1>7, <1>8, <1>9, <1>10, <1>11, <1>12, <1>13, <1>14,
          <1>15, <1>16, <1>17, <1>18, <1>19, <1>20, <1>21, <1>22 DEF Next, Supervise, Serve

\* The state shown.
LEMMA ShownStep ==
  ASSUME IInv, Next
  PROVE  InOrder' => ShowsItsWork'
<1> USE LaunchCount
<1> USE DEF CallType, LaunchType, service, runtime, breaker, budget, Idle, NoAttempt, IInv,
            TypeOK, AttemptHasLaunch, KeptInv, InOrder, Mishaps, ReadyIsSettled, UpIsKept,
            ShowsItsWork, Current, Stopping
<1>1. CASE Spawn
  BY <1>1 DEF Spawn
<1>2. CASE Authenticated
  BY <1>2 DEF Authenticated, ResetFailureCircuit
<1>3. CASE LaunchFault
  BY <1>3 DEF LaunchFault, AttemptFails, RecordFailure
<1>4. CASE LaunchGone
  BY <1>4 DEF LaunchGone, AttemptFails, RecordFailure
<1>5. CASE OnUnexpectedExit
  BY <1>5 DEF OnUnexpectedExit, RecordFailure
<1>6. CASE InvalidStatus
  BY <1>6 DEF InvalidStatus, Detach
<1>7. CASE InvalidDrained
  BY <1>7 DEF InvalidDrained, RecordFailure, Note
<1>8. CASE TimerFires
  BY <1>8 DEF TimerFires, BeginAttempt
<1>9. CASE WindowPasses
  BY <1>9 DEF WindowPasses
<1>10. ASSUME NEW h \in Launches, Exit(h)
      PROVE  InOrder' => ShowsItsWork'
  BY <1>10 DEF Exit
<1>11. ASSUME NEW h \in Launches, HelperFault(h)
      PROVE  InOrder' => ShowsItsWork'
  BY <1>11 DEF HelperFault
<1>12. ASSUME NEW c \in Calls, Enable(c)
      PROVE  InOrder' => ShowsItsWork'
  BY <1>12 DEF Enable, Calling, Start, BeginAttempt, Waits, Note
<1>13. ASSUME NEW c \in Calls, Disable(c)
      PROVE  InOrder' => ShowsItsWork'
  BY <1>13 DEF Disable, Calling
<1>14. ASSUME NEW c \in Calls, BeginActivation(c)
      PROVE  InOrder' => ShowsItsWork'
  BY <1>14 DEF BeginActivation, Calling, Start, BeginAttempt, Waits, Note
<1>15. ASSUME NEW c \in Calls, EndActivation(c)
      PROVE  InOrder' => ShowsItsWork'
  BY <1>15 DEF EndActivation, Calling
<1>16. ASSUME NEW c \in Calls, Diagnose(c)
      PROVE  InOrder' => ShowsItsWork'
  BY <1>16 DEF Diagnose, Calling, Start, BeginAttempt, Waits
<1>17. ASSUME NEW c \in Calls, Reconnect(c)
      PROVE  InOrder' => ShowsItsWork'
  BY <1>17 DEF Reconnect, Calling
<1>18. ASSUME NEW c \in Calls, Close(c)
      PROVE  InOrder' => ShowsItsWork'
  BY <1>18 DEF Close, Stop, Detach, ResetFailureCircuit
<1>19. ASSUME NEW c \in Calls, StartRuntime(c)
      PROVE  InOrder' => ShowsItsWork'
  BY <1>19 DEF StartRuntime, Settled, Note, Answers, Ready
<1>20. ASSUME NEW c \in Calls, ActivationAsked(c)
      PROVE  InOrder' => ShowsItsWork'
  BY <1>20, CallEnds DEF Answered, Stopped
<1>21. ASSUME NEW c \in Calls, StopIfIdle(c)
      PROVE  InOrder' => ShowsItsWork'
  BY <1>21, CallEnds DEF Answered, Stopped
<1>22. ASSUME NEW c \in Calls, Drained(c)
      PROVE  InOrder' => ShowsItsWork'
  BY <1>22 DEF Drained, Note
<1> QED BY <1>1, <1>2, <1>3, <1>4, <1>5, <1>6, <1>7, <1>8, <1>9, <1>10, <1>11, <1>12, <1>13, <1>14,
          <1>15, <1>16, <1>17, <1>18, <1>19, <1>20, <1>21, <1>22 DEF Next, Supervise, Serve

\* Types of the flags.
LEMMA FlagTypeStep ==
  ASSUME IInv, Next
  PROVE  FlagType'
<1> USE LaunchCount, LimitAssumption, BoundsAssumption
<1> USE DEF CallType, LaunchType, service, runtime, breaker, budget, Idle, NoAttempt, IInv,
            TypeOK, AttemptHasLaunch, FlagType, CountType, Mishaps, Stopping
<1>1. CASE Spawn
  BY <1>1 DEF Spawn
<1>2. CASE Authenticated
  BY <1>2 DEF Authenticated, ResetFailureCircuit
<1>3. CASE LaunchFault
  BY <1>3 DEF LaunchFault, AttemptFails, RecordFailure
<1>4. CASE LaunchGone
  BY <1>4 DEF LaunchGone, AttemptFails, RecordFailure
<1>5. CASE OnUnexpectedExit
  BY <1>5 DEF OnUnexpectedExit, RecordFailure
<1>6. CASE InvalidStatus
  BY <1>6 DEF InvalidStatus, Detach
<1>7. CASE InvalidDrained
  BY <1>7 DEF InvalidDrained, RecordFailure, Note
<1>8. CASE TimerFires
  BY <1>8 DEF TimerFires, BeginAttempt
<1>9. CASE WindowPasses
  BY <1>9 DEF WindowPasses
<1>10. ASSUME NEW h \in Launches, Exit(h)
      PROVE  FlagType'
  BY <1>10 DEF Exit
<1>11. ASSUME NEW h \in Launches, HelperFault(h)
      PROVE  FlagType'
  BY <1>11 DEF HelperFault
<1>12. ASSUME NEW c \in Calls, Enable(c)
      PROVE  FlagType'
  BY <1>12 DEF Enable, Calling, Start, BeginAttempt, Waits, Note
<1>13. ASSUME NEW c \in Calls, Disable(c)
      PROVE  FlagType'
  BY <1>13 DEF Disable, Calling
<1>14. ASSUME NEW c \in Calls, BeginActivation(c)
      PROVE  FlagType'
  BY <1>14 DEF BeginActivation, Calling, Start, BeginAttempt, Waits, Note
<1>15. ASSUME NEW c \in Calls, EndActivation(c)
      PROVE  FlagType'
  BY <1>15 DEF EndActivation, Calling
<1>16. ASSUME NEW c \in Calls, Diagnose(c)
      PROVE  FlagType'
  BY <1>16 DEF Diagnose, Calling, Start, BeginAttempt, Waits
<1>17. ASSUME NEW c \in Calls, Reconnect(c)
      PROVE  FlagType'
  BY <1>17 DEF Reconnect, Calling
<1>18. ASSUME NEW c \in Calls, Close(c)
      PROVE  FlagType'
  BY <1>18 DEF Close, Stop, Detach, ResetFailureCircuit
<1>19. ASSUME NEW c \in Calls, StartRuntime(c)
      PROVE  FlagType'
  BY <1>19 DEF StartRuntime, Settled, Note, Answers, Ready
<1>20. ASSUME NEW c \in Calls, ActivationAsked(c)
      PROVE  FlagType'
  BY <1>20 DEF ActivationAsked, Settled, Note, Answers, Ready, Stop, Detach, ResetFailureCircuit
<1>21. ASSUME NEW c \in Calls, StopIfIdle(c)
      PROVE  FlagType'
  BY <1>21 DEF StopIfIdle, Settled, Note, Stop, Detach, ResetFailureCircuit
<1>22. ASSUME NEW c \in Calls, Drained(c)
      PROVE  FlagType'
  BY <1>22 DEF Drained, Note
<1> QED BY <1>1, <1>2, <1>3, <1>4, <1>5, <1>6, <1>7, <1>8, <1>9, <1>10, <1>11, <1>12, <1>13, <1>14,
          <1>15, <1>16, <1>17, <1>18, <1>19, <1>20, <1>21, <1>22 DEF Next, Supervise, Serve

\* Types of the requests.
LEMMA CallTypeStep ==
  ASSUME IInv, Next
  PROVE  CallType'
<1> USE LaunchCount, LimitAssumption, BoundsAssumption
<1> USE DEF CallType, LaunchType, service, runtime, breaker, budget, Idle, NoAttempt, IInv,
            TypeOK, AttemptHasLaunch, FlagType, CountType, Mishaps, Stopping
<1>1. CASE Spawn
  BY <1>1 DEF Spawn
<1>2. CASE Authenticated
  BY <1>2 DEF Authenticated, ResetFailureCircuit
<1>3. CASE LaunchFault
  BY <1>3 DEF LaunchFault, AttemptFails, RecordFailure
<1>4. CASE LaunchGone
  BY <1>4 DEF LaunchGone, AttemptFails, RecordFailure
<1>5. CASE OnUnexpectedExit
  BY <1>5 DEF OnUnexpectedExit, RecordFailure
<1>6. CASE InvalidStatus
  BY <1>6 DEF InvalidStatus, Detach
<1>7. CASE InvalidDrained
  BY <1>7 DEF InvalidDrained, RecordFailure, Note
<1>8. CASE TimerFires
  BY <1>8 DEF TimerFires, BeginAttempt
<1>9. CASE WindowPasses
  BY <1>9 DEF WindowPasses
<1>10. ASSUME NEW h \in Launches, Exit(h)
      PROVE  CallType'
  BY <1>10 DEF Exit
<1>11. ASSUME NEW h \in Launches, HelperFault(h)
      PROVE  CallType'
  BY <1>11 DEF HelperFault
<1>12. ASSUME NEW c \in Calls, Enable(c)
      PROVE  CallType'
  BY <1>12 DEF Enable, Calling, Start, BeginAttempt, Waits, Note
<1>13. ASSUME NEW c \in Calls, Disable(c)
      PROVE  CallType'
  BY <1>13 DEF Disable, Calling
<1>14. ASSUME NEW c \in Calls, BeginActivation(c)
      PROVE  CallType'
  BY <1>14 DEF BeginActivation, Calling, Start, BeginAttempt, Waits, Note
<1>15. ASSUME NEW c \in Calls, EndActivation(c)
      PROVE  CallType'
  BY <1>15 DEF EndActivation, Calling
<1>16. ASSUME NEW c \in Calls, Diagnose(c)
      PROVE  CallType'
  BY <1>16 DEF Diagnose, Calling, Start, BeginAttempt, Waits
<1>17. ASSUME NEW c \in Calls, Reconnect(c)
      PROVE  CallType'
  BY <1>17 DEF Reconnect, Calling
<1>18. ASSUME NEW c \in Calls, Close(c)
      PROVE  CallType'
  BY <1>18, CallEnds DEF Answered, Stopped
<1>19. ASSUME NEW c \in Calls, StartRuntime(c)
      PROVE  CallType'
  BY <1>19 DEF StartRuntime, Settled, Note, Answers, Ready
<1>20. ASSUME NEW c \in Calls, ActivationAsked(c)
      PROVE  CallType'
  BY <1>20, CallEnds DEF Answered, Stopped
<1>21. ASSUME NEW c \in Calls, StopIfIdle(c)
      PROVE  CallType'
  BY <1>21, CallEnds DEF Answered, Stopped
<1>22. ASSUME NEW c \in Calls, Drained(c)
      PROVE  CallType'
  BY <1>22 DEF Drained, Note
<1> QED BY <1>1, <1>2, <1>3, <1>4, <1>5, <1>6, <1>7, <1>8, <1>9, <1>10, <1>11, <1>12, <1>13, <1>14,
          <1>15, <1>16, <1>17, <1>18, <1>19, <1>20, <1>21, <1>22 DEF Next, Supervise, Serve

\* Types of the launches.
LEMMA LaunchTypeStep ==
  ASSUME IInv, Next
  PROVE  LaunchType'
<1> USE LaunchCount, LimitAssumption, BoundsAssumption
<1> USE DEF CallType, LaunchType, service, runtime, breaker, budget, Idle, NoAttempt, IInv,
            TypeOK, AttemptHasLaunch, FlagType, CountType, Mishaps, Stopping
<1>1. CASE Spawn
  BY <1>1 DEF Spawn
<1>2. CASE Authenticated
  BY <1>2 DEF Authenticated, ResetFailureCircuit
<1>3. CASE LaunchFault
  BY <1>3 DEF LaunchFault, AttemptFails, RecordFailure
<1>4. CASE LaunchGone
  BY <1>4 DEF LaunchGone, AttemptFails, RecordFailure
<1>5. CASE OnUnexpectedExit
  BY <1>5 DEF OnUnexpectedExit, RecordFailure
<1>6. CASE InvalidStatus
  BY <1>6 DEF InvalidStatus, Detach
<1>7. CASE InvalidDrained
  BY <1>7 DEF InvalidDrained, RecordFailure, Note
<1>8. CASE TimerFires
  BY <1>8 DEF TimerFires, BeginAttempt
<1>9. CASE WindowPasses
  BY <1>9 DEF WindowPasses
<1>10. ASSUME NEW h \in Launches, Exit(h)
      PROVE  LaunchType'
  BY <1>10 DEF Exit
<1>11. ASSUME NEW h \in Launches, HelperFault(h)
      PROVE  LaunchType'
  BY <1>11 DEF HelperFault
<1>12. ASSUME NEW c \in Calls, Enable(c)
      PROVE  LaunchType'
  BY <1>12 DEF Enable, Calling, Start, BeginAttempt, Waits, Note
<1>13. ASSUME NEW c \in Calls, Disable(c)
      PROVE  LaunchType'
  BY <1>13 DEF Disable, Calling
<1>14. ASSUME NEW c \in Calls, BeginActivation(c)
      PROVE  LaunchType'
  BY <1>14 DEF BeginActivation, Calling, Start, BeginAttempt, Waits, Note
<1>15. ASSUME NEW c \in Calls, EndActivation(c)
      PROVE  LaunchType'
  BY <1>15 DEF EndActivation, Calling
<1>16. ASSUME NEW c \in Calls, Diagnose(c)
      PROVE  LaunchType'
  BY <1>16 DEF Diagnose, Calling, Start, BeginAttempt, Waits
<1>17. ASSUME NEW c \in Calls, Reconnect(c)
      PROVE  LaunchType'
  BY <1>17 DEF Reconnect, Calling
<1>18. ASSUME NEW c \in Calls, Close(c)
      PROVE  LaunchType'
  BY <1>18 DEF Close, Stop, Detach, ResetFailureCircuit
<1>19. ASSUME NEW c \in Calls, StartRuntime(c)
      PROVE  LaunchType'
  BY <1>19 DEF StartRuntime, Settled, Note, Answers, Ready
<1>20. ASSUME NEW c \in Calls, ActivationAsked(c)
      PROVE  LaunchType'
  BY <1>20 DEF ActivationAsked, Settled, Note, Answers, Ready, Stop, Detach, ResetFailureCircuit
<1>21. ASSUME NEW c \in Calls, StopIfIdle(c)
      PROVE  LaunchType'
  BY <1>21 DEF StopIfIdle, Settled, Note, Stop, Detach, ResetFailureCircuit
<1>22. ASSUME NEW c \in Calls, Drained(c)
      PROVE  LaunchType'
  BY <1>22 DEF Drained, Note
<1> QED BY <1>1, <1>2, <1>3, <1>4, <1>5, <1>6, <1>7, <1>8, <1>9, <1>10, <1>11, <1>12, <1>13, <1>14,
          <1>15, <1>16, <1>17, <1>18, <1>19, <1>20, <1>21, <1>22 DEF Next, Supervise, Serve

\* Types of the counters.
LEMMA CountTypeStep ==
  ASSUME IInv, Next
  PROVE  CountType'
<1> USE LaunchCount, LimitAssumption, BoundsAssumption
<1> USE DEF CallType, LaunchType, service, runtime, breaker, budget, Idle, NoAttempt, IInv,
            TypeOK, AttemptHasLaunch, FlagType, CountType, Mishaps, Stopping
<1>1. CASE Spawn
  BY <1>1 DEF Spawn
<1>2. CASE Authenticated
  BY <1>2 DEF Authenticated, ResetFailureCircuit
<1>3. CASE LaunchFault
  BY <1>3 DEF LaunchFault, AttemptFails, RecordFailure
<1>4. CASE LaunchGone
  BY <1>4 DEF LaunchGone, AttemptFails, RecordFailure
<1>5. CASE OnUnexpectedExit
  BY <1>5 DEF OnUnexpectedExit, RecordFailure
<1>6. CASE InvalidStatus
  BY <1>6 DEF InvalidStatus, Detach
<1>7. CASE InvalidDrained
  <2>1. mishaps' \subseteq Mishaps
    BY <1>7 DEF InvalidDrained, Note
  <2> QED BY <1>7, <2>1 DEF InvalidDrained, RecordFailure
<1>8. CASE TimerFires
  BY <1>8 DEF TimerFires, BeginAttempt
<1>9. CASE WindowPasses
  BY <1>9 DEF WindowPasses
<1>10. ASSUME NEW h \in Launches, Exit(h)
      PROVE  CountType'
  BY <1>10 DEF Exit
<1>11. ASSUME NEW h \in Launches, HelperFault(h)
      PROVE  CountType'
  BY <1>11 DEF HelperFault
<1>12. ASSUME NEW c \in Calls, Enable(c)
      PROVE  CountType'
  <2>1. mishaps' \subseteq Mishaps
    BY <1>12 DEF Enable, Note, Calling
  <2> QED BY <1>12, <2>1 DEF Enable, Calling, Start, BeginAttempt, Waits
<1>13. ASSUME NEW c \in Calls, Disable(c)
      PROVE  CountType'
  BY <1>13 DEF Disable, Calling
<1>14. ASSUME NEW c \in Calls, BeginActivation(c)
      PROVE  CountType'
  <2>1. mishaps' \subseteq Mishaps
    BY <1>14 DEF BeginActivation, Note, Calling
  <2> QED BY <1>14, <2>1 DEF BeginActivation, Calling, Start, BeginAttempt, Waits
<1>15. ASSUME NEW c \in Calls, EndActivation(c)
      PROVE  CountType'
  BY <1>15 DEF EndActivation, Calling
<1>16. ASSUME NEW c \in Calls, Diagnose(c)
      PROVE  CountType'
  BY <1>16 DEF Diagnose, Calling, Start, BeginAttempt, Waits
<1>17. ASSUME NEW c \in Calls, Reconnect(c)
      PROVE  CountType'
  BY <1>17 DEF Reconnect, Calling
<1>18. ASSUME NEW c \in Calls, Close(c)
      PROVE  CountType'
  BY <1>18 DEF Close, Stop, Detach, ResetFailureCircuit
<1>19. ASSUME NEW c \in Calls, StartRuntime(c)
      PROVE  CountType'
  <2>1. mishaps' \subseteq Mishaps
    BY <1>19 DEF StartRuntime, Note, Settled
  <2>2. faults' \in 0..MaxFaults
    <3>1. faults' = faults \/ (faults < MaxFaults /\ faults' = faults + 1)
      BY <1>19, Zenon DEF StartRuntime
    <3> QED BY <3>1
  <2>3. UNCHANGED <<failures, started, ops>>
    BY <1>19 DEF StartRuntime, Settled
  <2> QED BY <2>1, <2>2, <2>3
<1>20. ASSUME NEW c \in Calls, ActivationAsked(c)
      PROVE  CountType'
  <2>1. mishaps' \subseteq Mishaps
    BY <1>20 DEF ActivationAsked, Note, Settled
  <2> QED BY <1>20, <2>1 DEF ActivationAsked, Settled, Stop, Detach, ResetFailureCircuit
<1>21. ASSUME NEW c \in Calls, StopIfIdle(c)
      PROVE  CountType'
  <2>1. mishaps' \subseteq Mishaps
    BY <1>21 DEF StopIfIdle, Note, Settled
  <2> QED BY <1>21, <2>1 DEF StopIfIdle, Settled, Stop, Detach, ResetFailureCircuit
<1>22. ASSUME NEW c \in Calls, Drained(c)
      PROVE  CountType'
  BY <1>22 DEF Drained, Note
<1> QED BY <1>1, <1>2, <1>3, <1>4, <1>5, <1>6, <1>7, <1>8, <1>9, <1>10, <1>11, <1>12, <1>13, <1>14,
          <1>15, <1>16, <1>17, <1>18, <1>19, <1>20, <1>21, <1>22 DEF Next, Supervise, Serve

\* The host boots off, or with the start of an enabled host under way.
LEMMA InitInv ==
  ASSUME Init
  PROVE  IInv
<1> USE LimitAssumption, BoundsAssumption DEF Init, NoAttempt
<1>1. 1 \in Launches /\ 0 \notin Launches
  BY DEF Launches
<1>2. 1 <= Cardinality(Launches) /\ Cardinality(Launches) \in Nat
  BY <1>1, LaunchCount
<1>3. FlagType
  <2>1. FALSE \in BOOLEAN
    OBVIOUS
  <2> QED BY <2>1, Zenon DEF FlagType, Init
<1>4. CallType
  <2>1. Idle \in [op : {"none", "enable", "activate", "diagnose", "stop", "close"},
                  pc : {"idle", "start", "drain"}, was : BOOLEAN, on : {0} \union Launches]
    BY DEF Idle
  <2>2. [op |-> "enable", pc |-> "start", was |-> TRUE, on |-> 1]
          \in [op : {"none", "enable", "activate", "diagnose", "stop", "close"},
               pc : {"idle", "start", "drain"}, was : BOOLEAN, on : {0} \union Launches]
    BY <1>1
  <2> QED BY <2>1, <2>2 DEF CallType
<1>5. LaunchType
  BY <1>1 DEF LaunchType
<1>6. CountType
  BY <1>2 DEF CountType
<1>7. TypeOK
  BY <1>3, <1>4, <1>5, <1>6 DEF TypeOK, FlagType, CallType, LaunchType, CountType
<1>8. AttemptHasLaunch /\ OpenCircuitStaysSlow
  BY <1>1 DEF AttemptHasLaunch, OpenCircuitStaysSlow
<1>9. KeptInv
  BY <1>1 DEF KeptInv, ReadyIsSettled, UpIsKept, ShowsItsWork
<1> QED BY <1>7, <1>8, <1>9 DEF IInv

\* A step that changes nothing.
LEMMA Stutter ==
  ASSUME IInv, UNCHANGED vars
  PROVE  IInv'
BY DEF IInv, TypeOK, AttemptHasLaunch, OpenCircuitStaysSlow, KeptInv, InOrder, ReadyIsSettled,
       UpIsKept, ShowsItsWork, Stopping, vars

\* The invariant holds throughout.
LEMMA Invariance == Spec => []IInv
<1>1. Init => IInv
  BY InitInv
<1>2. IInv /\ [Next]_vars => IInv'
  <2> SUFFICES ASSUME IInv, [Next]_vars PROVE IInv'
    OBVIOUS
  <2>1. CASE Next
    <3>1. FlagType' /\ CallType' /\ LaunchType' /\ CountType'
      BY <2>1, FlagTypeStep, CallTypeStep, LaunchTypeStep, CountTypeStep
    <3>2. TypeOK'
      BY <3>1 DEF TypeOK, FlagType, CallType, LaunchType, CountType
    <3>3. AttemptHasLaunch' /\ OpenCircuitStaysSlow'
      BY <2>1, AttemptStep
    <3>4. KeptInv'
      BY <2>1, ReadyStep, ShownStep DEF KeptInv
    <3> QED BY <3>2, <3>3, <3>4 DEF IInv
  <2>2. CASE UNCHANGED vars
    BY <2>2, Stutter
  <2> QED BY <2>1, <2>2
<1> QED BY <1>1, <1>2, PTL DEF Spec

-----------------------------------------------------------------------------
(* Theorems *)

\* Whatever the order of the requests, timers, failures and exits, at most one
\* helper is up, and a supervisor that is off has none and no timer armed.
THEOREM OwnedHelper == Spec => []HelperIsOwned
<1>1. ASSUME IInv PROVE HelperIsOwned
  <2> USE <1>1 DEF IInv, KeptInv, InOrder
  <2>1. TypeOK
    OBVIOUS
  <2>2. ASSUME InOrder PROVE Cardinality(Alive) <= 1
    <3>1. \A h, k \in Alive : h = k
      BY <2>1, <2>2, LaunchCount DEF Alive, ReadyIsSettled, UpIsKept, AttemptHasLaunch, NoAttempt, TypeOK
    <3>2. CASE Alive = {}
      <4>1. Cardinality(Alive) = 0
        BY <3>2, FS_EmptySet
      <4> QED BY <4>1
    <3>3. CASE Alive # {}
      <4>1. PICK h : Alive = {h}
        BY <3>1, <3>3
      <4>2. Cardinality(Alive) = 1
        BY <4>1, FS_Singleton
      <4> QED BY <4>2
    <3> QED BY <3>2, <3>3
  <2>3. OneHelper
    BY <2>2 DEF OneHelper
  <2>4. OffRunsNothing
    <3> SUFFICES ASSUME InOrder, st = "disabled", attempt = NoAttempt
                 PROVE  Alive = {} /\ timer = "none"
      BY DEF OffRunsNothing
    <3>1. client = 0 /\ timer = "none"
      BY DEF ReadyIsSettled, ShowsItsWork
    <3>2. ASSUME NEW h \in Launches, proc[h] = "alive" PROVE FALSE
      BY <3>1, <3>2, LaunchCount DEF UpIsKept, NoAttempt
    <3> QED BY <3>1, <3>2 DEF Alive
  <2> QED BY <2>1, <2>3, <2>4 DEF HelperIsOwned
<1> QED BY <1>1, Invariance, PTL

\* A supervisor without a ready helper is never stranded: a start shown has an
\* attempt or a drain, a failure shown a timer or a drain, and an open circuit
\* never arms the fast timer.
THEOREM RecoversAtPace == Spec => []RecoversAtItsPace
<1>1. ASSUME IInv PROVE RecoversAtItsPace
  BY <1>1 DEF IInv, KeptInv, InOrder, RecoversAtItsPace, NeverStranded, ShowsItsWork
<1> QED BY <1>1, Invariance, PTL

-----------------------------------------------------------------------------
(* WipcStream: the two ends of a stream.                                   *)

\* What the end that opened a stream may write, and the one that answers.
InitiatorFrames(side) ==
  {Frame(t, side) : t \in {"request_start", "request_chunk", "request_end",
                           "request_cancel"}} \union {Grant("response", side)}
ResponderFrames(side) ==
  {Frame(t, side) : t \in {"response_start", "response_chunk", "response_end",
                           "response_error"}} \union {Grant("request", side)}

\* Whether an end takes what comes, and gives credit, in a direction.
Takes(s, window) ==
  IF window = "request" THEN s.request = "open" ELSE ~IsResponseTerminal(s)

\* A copy that follows the protocol: it never failed, and its two directions fit.
Sound(s) ==
  /\ s \in Streams /\ ~s.failed /\ s.request # "failed"
  /\ s.cancelled <=> s.request = "cancelled"
  /\ s.request = "open" => ~IsResponseTerminal(s)
  /\ s.request = "response_closed" => IsResponseTerminal(s)
  /\ s.at = "removed" => IsResponseTerminal(s)
  /\ s.at = "unknown" => s = Unstarted(s.initiator)

\* i is the initiator's copy, wi what it wrote and the other end has not read; r
\* and wr are the responder's.
Wires(i, wi, r, wr) ==
  /\ Sound(i) /\ Sound(r) /\ r.initiator = i.initiator
  /\ wi \in Seq(InitiatorFrames(i.initiator))
  /\ wr \in Seq(ResponderFrames(Opposite(i.initiator)))

\* The start is the first frame read, and nothing is answered before it.
Opening(i, wi, r, wr) ==
  /\ i.at = "unknown" => r.at = "unknown" /\ wi = <<>>
  /\ r.at = "unknown" => wr = <<>>
  /\ r.at = "unknown" /\ i.at # "unknown" =>
       wi # <<>> /\ wi[1].type = "request_start"
  /\ \A k \in DOMAIN wi : wi[k].type = "request_start" =>
       k = 1 /\ r.at = "unknown"
  /\ r.at = "removed" => r.request \in {"ended", "cancelled"}

\* What of a type may come behind a frame of a type on one wire.
RequestPair(before, after) ==
  /\ before = "request_end" => after \notin {"request_chunk", "request_end"}
  /\ before = "request_cancel" =>
       after \notin {"request_chunk", "request_end", "request_cancel"}
ResponsePair(before, after) ==
  /\ before \in {"response_end", "response_error"} => after = "window_update"
  /\ after = "response_start" => before = "window_update"

\* The order of what is on each wire.
RequestFrames(w) ==
  \A k, l \in DOMAIN w : k < l => RequestPair(w[k].type, w[l].type)
ResponseFrames(w) ==
  \A k, l \in DOMAIN w : k < l => ResponsePair(w[k].type, w[l].type)

\* How far the request is at either end, and what of it is still on the way.
RequestOrder(i, wi, r) ==
  /\ i.request \in {"open", "response_closed"} =>
       /\ r.request \in {"open", "response_closed"}
       /\ \A k \in DOMAIN wi : wi[k].type \notin {"request_end", "request_cancel"}
  /\ i.request = "ended" =>
       /\ r.request # "cancelled"
       /\ \A k \in DOMAIN wi : wi[k].type # "request_cancel"
  /\ r.request = "ended" =>
       /\ i.request \in {"ended", "cancelled"}
       /\ \A k \in DOMAIN wi : wi[k].type \notin {"request_chunk", "request_end"}
  /\ r.request = "cancelled" =>
       /\ i.request = "cancelled"
       /\ \A k \in DOMAIN wi : wi[k].type \notin
            {"request_chunk", "request_end", "request_cancel"}

\* And the response.
ResponseOrder(i, r, wr) ==
  /\ i.response = "none" => \A k \in DOMAIN wr :
       wr[k].type \in {"response_chunk", "response_end"} =>
         \E l \in DOMAIN wr : l < k /\ wr[l].type = "response_start"
  /\ r.response = "none" =>
       i.response = "none" /\ \A k \in DOMAIN wr : wr[k].type = "window_update"
  /\ r.response = "open" =>
       /\ ~IsResponseTerminal(i)
       /\ \A k \in DOMAIN wr : wr[k].type \notin {"response_end", "response_error"}
       /\ i.response = "none" =>
            \E k \in DOMAIN wr : wr[k].type = "response_start"
  /\ i.response = "open" =>
       \A k \in DOMAIN wr : wr[k].type # "response_start"
  /\ IsResponseTerminal(i) => \A k \in DOMAIN wr : wr[k].type = "window_update"

\* A sender's credit, its chunks on the way and the grants on their way to it
\* are the receiver's credit; at most, when the sender no longer takes grants.
RequestSum(i, wi, wr) ==
  i.requestCredit + Count(wi, Frame("request_chunk", i.initiator))
    + Count(wr, Grant("request", Opposite(i.initiator)))
ResponseSum(i, wi, r, wr) ==
  r.responseCredit + Count(wr, Frame("response_chunk", Opposite(i.initiator)))
    + Count(wi, Grant("response", i.initiator))

\* While the sender may grow its credit the sum is the receiver's.
RequestBalance(i, wi, r, wr) ==
  /\ RequestSum(i, wi, wr) <= r.requestCredit
  /\ i.request = "open" => RequestSum(i, wi, wr) = r.requestCredit

ResponseBalance(i, wi, r, wr) ==
  /\ ResponseSum(i, wi, r, wr) <= i.responseCredit
  /\ ~IsResponseTerminal(r) => ResponseSum(i, wi, r, wr) = i.responseCredit

\* The two copies of a stream and the two wires between them.
Link(i, wi, r, wr) ==
  /\ Wires(i, wi, r, wr)
  /\ Opening(i, wi, r, wr)
  /\ RequestFrames(wi) /\ RequestOrder(i, wi, r)
  /\ ResponseFrames(wr) /\ ResponseOrder(i, r, wr)
  /\ RequestBalance(i, wi, r, wr)
  /\ ResponseBalance(i, wi, r, wr)

\* The values of node, helper and past, as in StreamTypeOK.
NodeRecords ==
  [stream : Streams, wire : Seq(Frames), closed : BOOLEAN,
   aborted : BOOLEAN, pump : Pumps, left : 0 .. MaxChunks,
   source : BOOLEAN, body : Bodies, held : Nat, tail : Seq(Links),
   caller : {"none", "waiting", "answered", "rejected"}]
HelperRecords ==
  [stream : Streams, wire : Seq(Frames), left : 0 .. MaxChunks, owed : Nat]
PastRecords ==
  [quit : BOOLEAN, crossed : BOOLEAN, dropped : BOOLEAN, refused : BOOLEAN,
   sent : 0 .. MaxChunks, got : 0 .. MaxChunks]

\* Each part is about a node n, a helper h, a connection u and a past p.
Typed(n, h, u, p) ==
  n \in NodeRecords /\ h \in HelperRecords /\ u \in BOOLEAN /\ p \in PastRecords

\* While there is a connection the ends are linked, whichever opened the stream.
Linked(n, h, u) ==
  u => IF IsRemote(n) THEN Link(n.stream, n.wire, h.stream, h.wire)
                      ELSE Link(h.stream, h.wire, n.stream, n.wire)

\* What an end took and has not given credit for is what its copy lacks.
HelperDrained(n, h, u) ==
  u => /\ CreditOf(h.stream, Outgoing(n)) + h.owed <= Credit
       /\ Takes(h.stream, Outgoing(n)) =>
            CreditOf(h.stream, Outgoing(n)) + h.owed = Credit

\* The chunks whose credit the node has not given back.
Owed(n) == Count(n.tail, "chunk") + Count(n.tail, "written")

\* The same of the node, as long as its body is open.
NodeDrained(n, u) ==
  u => /\ CreditOf(n.stream, Incoming(n)) + Owed(n) <= Credit
       /\ Takes(n.stream, Incoming(n)) /\ n.body = "open" =>
            CreditOf(n.stream, Incoming(n)) + Owed(n) = Credit

\* A stream that is not started is untouched, and one is closed when it is
\* removed or its connection is gone. Without a connection no upload is left to
\* end.
Known(n, h, u, p) ==
  /\ h.stream.initiator = n.stream.initiator
  /\ n.pump = "idle" <=> n.stream.at = "unknown"
  /\ n.stream.at = "unknown" =>
       /\ n.tail = <<>> /\ ~n.aborted /\ ~n.closed /\ n.source
       /\ n.caller = "none" /\ n.body = "open" /\ n.held = 0 /\ p.got = 0
  /\ ~u /\ n.stream.at # "unknown" =>
       n.closed /\ ~(n.stream.at = "active" /\ n.stream.request = "response_closed")
  /\ u => (n.closed <=> n.stream.at = "removed")

\* The pump of a response writes while the response is open.
PumpHost(n) ==
  ~IsRemote(n) =>
    /\ n.pump # "starting"
    /\ n.pump = "dispatching" => n.stream.response = "none"
    /\ n.pump \in {"reading", "credit", "waiting", "writing"} =>
         n.stream.response = "open"
    /\ n.pump = "ending" => n.closed \/ IsResponseTerminal(n.stream)

\* The pump of a request writes while its source is read.
PumpRemote(n) ==
  IsRemote(n) =>
    /\ n.pump \notin {"dispatching", "ending"}
    /\ n.pump = "starting" => n.source \/ n.aborted \/ n.closed
    /\ n.pump \in {"starting", "reading", "credit", "waiting", "writing"} =>
         ~n.source \/ n.aborted \/ n.closed \/ n.stream.request = "open"

\* A pump that asks for credit has a chunk to send.
PumpHasChunk(n) == n.pump \in {"credit", "waiting"} => n.left > 0

\* The peer's body is over.
InputOver(n) ==
  IF IsRemote(n) THEN n.stream.response = "succeeded"
                 ELSE n.stream.request \in {"ended", "cancelled"}

\* The end of a body, or its removal, is the last link of the chain.
TailOrder(n) ==
  /\ \A k \in DOMAIN n.tail : n.tail[k] \in {"end", "remove"} => k = Len(n.tail)
  /\ \A k \in DOMAIN n.tail : n.tail[k] = "end" => InputOver(n)
  /\ \A k \in DOMAIN n.tail : n.tail[k] = "remove" =>
       IsRemote(n) /\ IsResponseTerminal(n.stream) /\ n.body # "open"

\* A body has ended only when the peer's is over, and one of a stream that is gone
\* is not open.
BodyOrder(n) ==
  /\ n.body \in {"ended", "read"} => InputOver(n)
  /\ n.closed => n.body # "open"
  /\ ~IsRemote(n) /\ n.stream.request = "cancelled" => n.body # "open"

\* Chunks of that body on their way to the node.
ChunksIn(n, h) == Count(h.wire, Frame(ChunkOf(Incoming(n)), "helper"))

\* Every chunk the helper sent is on the way, in the chain, in the buffer or
\* read, as long as the body is whole.
Whole(n, h, p) ==
  /\ h.left + p.sent <= MaxChunks
  /\ p.got + n.held + Count(n.tail, "chunk") + ChunksIn(n, h) <= p.sent
  /\ n.body = "open" /\ (IsRemote(n) \/ ~IsResponseTerminal(n.stream)) =>
       p.got + n.held + Count(n.tail, "chunk") + ChunksIn(n, h) = p.sent
  /\ n.body = "ended" => p.got + n.held = p.sent
  /\ n.body = "read" => p.got = p.sent

\* All that is not about the pump, which is between two steps of a handler.
Sane(n, h, u, p) ==
  /\ Typed(n, h, u, p) /\ ~p.refused
  /\ Linked(n, h, u) /\ HelperDrained(n, h, u) /\ NodeDrained(n, u)
  /\ Known(n, h, u, p)
  /\ TailOrder(n) /\ BodyOrder(n) /\ Whole(n, h, p)

\* The pump is where its stream, its source and what is left allow.
Pumped(n) == PumpHost(n) /\ PumpRemote(n) /\ PumpHasChunk(n)

Good(n, h, u, p) == Sane(n, h, u, p) /\ Pumped(n)

\* The inductive invariant.
StreamInv == Good(node, helper, up, past)

-----------------------------------------------------------------------------
(* How many of an element a sequence has.                                  *)

\* The positions of an element are finitely many.
LEMMA PositionsFinite ==
  ASSUME NEW S, NEW w \in Seq(S), NEW e
  PROVE  /\ IsFiniteSet({k \in DOMAIN w : w[k] = e})
         /\ Count(w, e) \in Nat
<1>1. DOMAIN w = 1..Len(w) /\ Len(w) \in Nat
  OBVIOUS
<1>2. IsFiniteSet(DOMAIN w)
  BY <1>1, FS_Interval
<1>3. {k \in DOMAIN w : w[k] = e} \in SUBSET DOMAIN w
  OBVIOUS
<1>4. IsFiniteSet({k \in DOMAIN w : w[k] = e})
  BY <1>2, <1>3, FS_Subset
<1> QED BY <1>4, FS_CardinalityType DEF Count

\* Where the element is nowhere, there is none.
LEMMA CountNone ==
  ASSUME NEW w, NEW e, \A k \in DOMAIN w : w[k] # e
  PROVE  Count(w, e) = 0
<1>1. {k \in DOMAIN w : w[k] = e} = {}
  OBVIOUS
<1> QED BY <1>1, FS_EmptySet DEF Count

\* An appended element counts once.
LEMMA CountAppend ==
  ASSUME NEW S, NEW w \in Seq(S), NEW x \in S, NEW e
  PROVE  Count(Append(w, x), e) = Count(w, e) + (IF x = e THEN 1 ELSE 0)
<1> DEFINE A == {k \in DOMAIN w : w[k] = e}
           n == Len(w) + 1
<1>1. IsFiniteSet(A) /\ Cardinality(A) \in Nat
  BY PositionsFinite DEF Count
<1>2. /\ DOMAIN w = 1..Len(w) /\ Len(w) \in Nat /\ n \notin A
      /\ DOMAIN Append(w, x) = 1..(Len(w) + 1)
      /\ \A k \in DOMAIN w : Append(w, x)[k] = w[k]
      /\ Append(w, x)[Len(w) + 1] = x
  OBVIOUS
<1>3. CASE x = e
  <2>1. {k \in DOMAIN Append(w, x) : Append(w, x)[k] = e} = A \union {n}
    BY <1>3, <1>2
  <2>2. Cardinality(A \union {n}) = Cardinality(A) + 1
    BY <1>1, <1>2, FS_AddElement
  <2> QED BY <1>1, <1>3, <2>1, <2>2 DEF Count
<1>4. CASE x # e
  <2>1. \A k \in DOMAIN Append(w, x) :
          Append(w, x)[k] = e <=> k \in DOMAIN w /\ w[k] = e
    BY <1>4, <1>2
  <2>2. {k \in DOMAIN Append(w, x) : Append(w, x)[k] = e} = A
    BY <1>2, <2>1
  <2>3. Count(Append(w, x), e) = Count(w, e)
    BY <2>2, Zenon DEF Count
  <2>4. Count(w, e) \in Nat
    BY PositionsFinite
  <2> QED BY <1>4, <2>3, <2>4
<1> QED BY <1>3, <1>4

\* What is taken off the front counts no more.
LEMMA CountTail ==
  ASSUME NEW S, NEW w \in Seq(S), w # <<>>, NEW e
  PROVE  Count(w, e) = Count(Tail(w), e) + (IF Head(w) = e THEN 1 ELSE 0)
<1> DEFINE A == {k \in DOMAIN w : w[k] = e}
           B == {k \in DOMAIN Tail(w) : Tail(w)[k] = e}
           f == [k \in B |-> k + 1]
<1>1. Tail(w) \in Seq(S) /\ DOMAIN w = 1..Len(w) /\ Len(w) \in Nat \ {0}
      /\ DOMAIN Tail(w) = 1..(Len(w) - 1)
      /\ \A k \in DOMAIN Tail(w) : Tail(w)[k] = w[k + 1]
      /\ Head(w) = w[1]
  OBVIOUS
<1>2. IsFiniteSet(A) /\ IsFiniteSet(B) /\ Cardinality(A) \in Nat /\ Cardinality(B) \in Nat
  BY <1>1, PositionsFinite DEF Count
<1>3. f \in Bijection(B, A \ {1})
  <2>1. f \in [B -> A \ {1}]
    BY <1>1
  <2>2. \A a, b \in B : f[a] = f[b] => a = b
    BY <1>1
  <2>3. \A t \in A \ {1} : \E s \in B : f[s] = t
    <3>1. SUFFICES ASSUME NEW t \in A \ {1} PROVE t - 1 \in B /\ f[t - 1] = t
      OBVIOUS
    <3> QED BY <1>1
  <2> QED BY <2>1, <2>2, <2>3 DEF Bijection, Injection, Surjection, IsInjective
<1>4. Cardinality(A \ {1}) = Cardinality(B)
  BY <1>2, <1>3, FS_Bijection DEF ExistsBijection
<1>5. Cardinality(A \ {1}) = IF 1 \in A THEN Cardinality(A) - 1 ELSE Cardinality(A)
  BY <1>2, FS_RemoveElement
<1>6. 1 \in A <=> Head(w) = e
  BY <1>1
<1> HIDE DEF A, B
<1>7. Cardinality(A) = Cardinality(B) + (IF Head(w) = e THEN 1 ELSE 0)
  BY <1>2, <1>4, <1>5, <1>6
<1> QED BY <1>7 DEF Count, A, B

\* What replaces the first element counts in its place.
LEMMA CountFirst ==
  ASSUME NEW S, NEW w \in Seq(S), w # <<>>, NEW x \in S, NEW e
  PROVE  Count([w EXCEPT ![1] = x], e) = Count(Tail(w), e) + (IF x = e THEN 1 ELSE 0)
<1> DEFINE v == [w EXCEPT ![1] = x]
<1>1. v \in Seq(S) /\ v # <<>> /\ Len(v) = Len(w) /\ Head(v) = x
  OBVIOUS
<1>2. Tail(v) = Tail(w)
  <2>1. Tail(v) \in Seq(S) /\ Tail(w) \in Seq(S) /\ Len(Tail(v)) = Len(Tail(w))
    BY <1>1
  <2>2. \A k \in 1..Len(Tail(w)) : Tail(v)[k] = Tail(w)[k]
    BY <1>1
  <2> QED BY <2>1, <2>2
<1>3. Count(v, e) = Count(Tail(v), e) + (IF Head(v) = e THEN 1 ELSE 0)
  BY <1>1, CountTail
<1> QED BY <1>1, <1>2, <1>3

-----------------------------------------------------------------------------
(* What a copy that has not failed does with each frame.                   *)

\* A copy with no credit below nothing and none above the window.
LEMMA StreamType ==
  ASSUME NEW s, Sound(s)
  PROVE  /\ s.at \in {"unknown", "active", "removed"}
         /\ s.initiator \in Sides
         /\ s.request \in RequestStates \ {"failed"} /\ s.response \in ResponseStates
         /\ s.requestCredit \in 0..Credit /\ s.responseCredit \in 0..Credit
         /\ s.requestCredit \in Nat /\ s.responseCredit \in Nat
         /\ Credit \in Nat \ {0}
BY CreditAssumption DEF Sound, Streams

\* The two sides are each other's opposite.
LEMMA SidesOppose ==
  ASSUME NEW side \in Sides
  PROVE  Opposite(side) \in Sides /\ Opposite(side) # side /\ Opposite(Opposite(side)) = side
BY DEF Sides, Opposite

\* A copy takes the start of a stream it does not know, and only then.
LEMMA TakesStart ==
  ASSUME NEW s, Sound(s)
  PROVE  LET x == Receive(s, Frame("request_start", s.initiator))
         IN IF s.at = "unknown"
            THEN x = To("request_started", Started(s.initiator))
            ELSE x.outcome \in Refused
BY DEF Receive, ReceiveRequestStart, Frame, ConnectionError, To, Refused

\* It takes a chunk of the request for which it has credit, and discards what
\* nobody wants any more.
LEMMA TakesChunk ==
  ASSUME NEW s, Sound(s)
  PROVE  LET x == Receive(s, Frame("request_chunk", s.initiator))
         IN IF s.at = "active" /\ s.request # "ended" /\ s.requestCredit > 0
            THEN x = To(IF s.request = "open" THEN "request_chunk_delivered"
                                              ELSE "request_chunk_discarded",
                        [s EXCEPT !.requestCredit = @ - 1])
            ELSE x.outcome \in Refused
BY StreamType DEF Sound, Receive, ReceiveActive, ReceiveInactiveFrame, ReceiveRequestChunk,
   ExpectedSender, Frame, ConnectionError, FailStream, To, Refused, RequestStates

\* It takes the end of a request that has not ended.
LEMMA TakesEnd ==
  ASSUME NEW s, Sound(s)
  PROVE  LET x == Receive(s, Frame("request_end", s.initiator))
         IN IF s.at = "active" /\ s.request \in {"open", "response_closed"}
            THEN x = To("request_ended", [s EXCEPT !.request = "ended"])
            ELSE x.outcome \in Refused
BY DEF Sound, Receive, ReceiveActive, ReceiveInactiveFrame, ReceiveRequestEnd,
   ExpectedSender, Frame, ConnectionError, FailStream, To, Refused

\* It takes a cancellation, or ignores one that is too late.
LEMMA TakesCancel ==
  ASSUME NEW s, Sound(s)
  PROVE  LET x == Receive(s, Frame("request_cancel", s.initiator))
         IN IF s.at = "unknown" THEN x.outcome \in Refused /\ x.stream = s
            ELSE IF s.at = "removed" THEN x = To("inactive_frame_ignored", s)
            ELSE IF s.request = "cancelled" \/ IsResponseTerminal(s)
            THEN x = To("cancel_ignored", s)
            ELSE x = To("request_cancelled",
                        [s EXCEPT !.cancelled = TRUE, !.request = "cancelled"])
<1>1. s.at \in {"unknown", "active", "removed"} /\ s.initiator \in Sides
  BY StreamType
<1>2. CASE s.at # "active"
  BY <1>1, <1>2 DEF Receive, ReceiveInactiveFrame, Frame, ConnectionError, To, Refused
<1>3. CASE s.at = "active"
  <2>1. Receive(s, Frame("request_cancel", s.initiator))
          = ReceiveRequestCancel(s, Frame("request_cancel", s.initiator))
    BY <1>3 DEF Sound, Receive, ReceiveActive, ExpectedSender, Frame
  <2>2. s.cancelled <=> s.request = "cancelled"
    BY DEF Sound
  <2> QED BY <1>3, <2>1, <2>2, Zenon DEF ReceiveRequestCancel
<1> QED BY <1>2, <1>3

\* It takes the start of a response that has none.
LEMMA TakesAnswer ==
  ASSUME NEW s, Sound(s)
  PROVE  LET x == Receive(s, Frame("response_start", Opposite(s.initiator)))
         IN IF s.at = "active" /\ s.response = "none"
            THEN x = To("response_started", [s EXCEPT !.response = "open"])
            ELSE x.outcome \in Refused
BY DEF Sound, Receive, ReceiveActive, ReceiveInactiveFrame, ReceiveResponseStart,
   ExpectedSender, Responder, Frame, ConnectionError, FailStream, To, Refused

\* It takes a chunk of an open response for which it has credit.
LEMMA TakesAnswerChunk ==
  ASSUME NEW s, Sound(s)
  PROVE  LET x == Receive(s, Frame("response_chunk", Opposite(s.initiator)))
         IN IF s.at = "active" /\ s.response = "open" /\ s.responseCredit > 0
            THEN x = To("response_chunk_delivered", [s EXCEPT !.responseCredit = @ - 1])
            ELSE x.outcome \in Refused
BY StreamType DEF Sound, Receive, ReceiveActive, ReceiveInactiveFrame, ReceiveResponseChunk,
   ExpectedSender, Responder, Frame, ConnectionError, FailStream, To, Refused

\* The copy after a terminal response.
Closed(s, response) ==
  [s EXCEPT !.response = response,
            !.request = IF @ = "open" THEN "response_closed" ELSE @]

\* It takes the end of an open response.
LEMMA TakesAnswerEnd ==
  ASSUME NEW s, Sound(s)
  PROVE  LET x == Receive(s, Frame("response_end", Opposite(s.initiator)))
         IN IF s.at = "active" /\ s.response = "open"
            THEN x = To("response_ended", Closed(s, "succeeded"))
            ELSE x.outcome \in Refused
BY StreamType DEF Sound, Receive, ReceiveActive, ReceiveInactiveFrame, ReceiveResponseTerminal,
   IsResponseTerminal, ResponseStates, Closed,
   ExpectedSender, Responder, Frame, ConnectionError, FailStream, To, Refused

\* It takes the failure of a response that is not over.
LEMMA TakesAnswerError ==
  ASSUME NEW s, Sound(s)
  PROVE  LET x == Receive(s, Frame("response_error", Opposite(s.initiator)))
         IN IF s.at = "active" /\ ~IsResponseTerminal(s)
            THEN x = To("response_failed", Closed(s, "failed"))
            ELSE x.outcome \in Refused
BY StreamType DEF Sound, Receive, ReceiveActive, ReceiveInactiveFrame, ReceiveResponseTerminal,
   IsResponseTerminal, ResponseStates, Closed,
   ExpectedSender, Responder, Frame, ConnectionError, FailStream, To, Refused

\* Credit for the request, from the end that reads it.
LEMMA TakesRequestGrant ==
  ASSUME NEW s, Sound(s)
  PROVE  LET x == Receive(s, Grant("request", Opposite(s.initiator)))
         IN IF s.at = "unknown" THEN x.outcome \in Refused
            ELSE IF s.at = "removed" THEN x = To("inactive_frame_ignored", s)
            ELSE IF s.request # "open" THEN x = To("window_ignored", s)
            ELSE IF s.requestCredit < Credit
            THEN x = To("window_updated", [s EXCEPT !.requestCredit = @ + 1])
            ELSE x.outcome \in Refused
BY StreamType DEF Sound, Receive, ReceiveActive, ReceiveInactiveFrame, ReceiveWindowUpdate,
   GrantsWindow, Responder, Grant, ConnectionError, To, Refused

\* Credit for the response, from the end that reads that.
LEMMA TakesResponseGrant ==
  ASSUME NEW s, Sound(s)
  PROVE  LET x == Receive(s, Grant("response", s.initiator))
         IN IF s.at = "unknown" THEN x.outcome \in Refused
            ELSE IF s.at = "removed" THEN x = To("inactive_frame_ignored", s)
            ELSE IF IsResponseTerminal(s) THEN x = To("window_ignored", s)
            ELSE IF s.responseCredit < Credit
            THEN x = To("window_updated", [s EXCEPT !.responseCredit = @ + 1])
            ELSE x.outcome \in Refused
BY StreamType DEF Sound, Receive, ReceiveActive, ReceiveInactiveFrame, ReceiveWindowUpdate,
   GrantsWindow, Responder, Grant, ConnectionError, To, Refused

-----------------------------------------------------------------------------
(* A frame an end writes keeps the two copies and the two wires linked.    *)

\* What a sequence is with an element behind it.
LEMMA Appended ==
  ASSUME NEW S, NEW w \in Seq(S), NEW x \in S
  PROVE  /\ Append(w, x) \in Seq(S) /\ Append(w, x) # <<>>
         /\ DOMAIN w = 1..Len(w) /\ Len(w) \in Nat
         /\ DOMAIN Append(w, x) = 1..(Len(w) + 1)
         /\ \A k \in DOMAIN w : Append(w, x)[k] = w[k]
         /\ Append(w, x)[Len(w) + 1] = x
OBVIOUS

\* And without its first.
LEMMA Shortened ==
  ASSUME NEW S, NEW w \in Seq(S), w # <<>>
  PROVE  /\ Tail(w) \in Seq(S) /\ Head(w) = w[1] /\ w[1] \in S
         /\ DOMAIN w = 1..Len(w) /\ Len(w) \in Nat \ {0} /\ 1 \in DOMAIN w
         /\ DOMAIN Tail(w) = 1..(Len(w) - 1)
         /\ \A k \in DOMAIN Tail(w) : k + 1 \in DOMAIN w /\ Tail(w)[k] = w[k + 1]
OBVIOUS

\* A chunk of the request, against credit.
LEMMA SendChunk ==
  ASSUME NEW i, NEW wi, NEW r, NEW wr, Link(i, wi, r, wr),
         i.at = "active", i.request = "open", i.requestCredit > 0
  PROVE  Link([i EXCEPT !.requestCredit = @ - 1], Append(wi, Frame("request_chunk", i.initiator)), r, wr)
<1> DEFINE side == i.initiator
           f == Frame("request_chunk", side)
           j == [i EXCEPT !.requestCredit = @ - 1]
           v == Append(wi, f)
<1>1. /\ Sound(i) /\ Sound(r) /\ r.initiator = side /\ side \in Sides
      /\ wi \in Seq(InitiatorFrames(side)) /\ wr \in Seq(ResponderFrames(Opposite(side)))
      /\ f \in InitiatorFrames(side) /\ f.type = "request_chunk"
  BY StreamType DEF Link, Wires, InitiatorFrames, ResponderFrames, Frame, Grant
<1>2. /\ Sound(j)
      /\ j.at = i.at /\ j.request = i.request /\ j.response = i.response
  BY <1>1, StreamType DEF Sound, Streams, IsResponseTerminal
<1>3. j.initiator = side /\ j.requestCredit = i.requestCredit - 1 /\ j.responseCredit = i.responseCredit
  BY <1>1 DEF Sound, Streams, Started, Closed, Unstarted
<1>4. /\ v \in Seq(InitiatorFrames(side)) /\ v # <<>>
      /\ DOMAIN wi = 1..Len(wi) /\ Len(wi) \in Nat /\ DOMAIN v = 1..(Len(wi) + 1)
      /\ \A k \in DOMAIN wi : v[k] = wi[k]
      /\ v[Len(wi) + 1] = f
  BY <1>1, Appended
<1>5. \A e : Count(v, e) = Count(wi, e) + (IF f = e THEN 1 ELSE 0)
  BY <1>1, CountAppend
<1>6. /\ Count(wi, Frame("request_chunk", side)) \in Nat
      /\ Count(wi, Grant("response", side)) \in Nat
      /\ Count(wr, Frame("response_chunk", Opposite(side))) \in Nat
      /\ Count(wr, Grant("request", Opposite(side))) \in Nat
      /\ i.requestCredit \in Nat /\ i.responseCredit \in Nat
      /\ r.requestCredit \in Nat /\ r.responseCredit \in Nat
      /\ j.requestCredit \in Nat /\ j.responseCredit \in Nat
  BY <1>1, <1>2, PositionsFinite, StreamType
<1>7. Count(v, Frame("request_chunk", side)) = Count(wi, Frame("request_chunk", side)) + 1
  BY <1>5, <1>6 DEF Frame, Grant
<1>8. Count(v, Grant("response", side)) = Count(wi, Grant("response", side))
  BY <1>5, <1>6 DEF Frame, Grant
<1> HIDE DEF j, v, f
<1>9. Wires(j, v, r, wr)
  BY <1>1, <1>2, <1>4, <1>3 DEF Wires
<1>10. Opening(j, v, r, wr)
  BY <1>1, <1>2, <1>4 DEF Link, Opening
<1>11. \A k \in DOMAIN v : (k \in DOMAIN wi /\ v[k] = wi[k]) \/ (k = Len(wi) + 1 /\ v[k] = f)
  BY <1>4
<1>12. RequestFrames(v)
  <2>1. SUFFICES ASSUME NEW k \in DOMAIN v, NEW l \in DOMAIN v, k < l
                 PROVE  RequestPair(v[k].type, v[l].type)
    BY DEF RequestFrames
  <2>2. k \in DOMAIN wi /\ v[k] = wi[k]
    BY <1>4, <1>11, <2>1
  <2>3. CASE l \in DOMAIN wi /\ v[l] = wi[l]
    BY <2>1, <2>2, <2>3 DEF Link, RequestFrames
  <2>4. CASE v[l] = f
    BY <1>1, <1>2, <2>2, <2>4 DEF Link, RequestOrder, RequestPair, IsResponseTerminal
  <2> QED BY <1>11, <2>3, <2>4
<1>13. RequestOrder(j, v, r)
  BY <1>1, <1>2, <1>11 DEF Link, RequestOrder
<1>14. ResponseFrames(wr)
  BY DEF Link
<1>15. ResponseOrder(j, r, wr)
  BY <1>2 DEF Link, ResponseOrder, IsResponseTerminal
<1>16. RequestBalance(j, v, r, wr)
  <2>1. RequestSum(j, v, wr) = RequestSum(i, wi, wr)
    BY <1>6, <1>7, <1>3 DEF RequestSum
  <2>2. RequestSum(i, wi, wr) \in Nat
    BY <1>6 DEF RequestSum
  <2> QED BY <1>2, <1>6, <1>3, <2>1, <2>2 DEF Link, RequestBalance
<1>17. ResponseBalance(j, v, r, wr)
  <2>1. ResponseSum(j, v, r, wr) = ResponseSum(i, wi, r, wr)
    BY <1>6, <1>8, <1>3 DEF ResponseSum
  <2>2. ResponseSum(i, wi, r, wr) \in Nat
    BY <1>6 DEF ResponseSum
  <2> QED BY <1>2, <1>6, <1>3, <2>1, <2>2 DEF Link, ResponseBalance, IsResponseTerminal
<1> QED BY <1>9, <1>10, <1>12, <1>13, <1>14, <1>15, <1>16, <1>17 DEF Link, j, v, f

\* The end of the request.
LEMMA SendEnd ==
  ASSUME NEW i, NEW wi, NEW r, NEW wr, Link(i, wi, r, wr),
         i.at = "active", i.request \in {"open", "response_closed"}
  PROVE  Link([i EXCEPT !.request = "ended"], Append(wi, Frame("request_end", i.initiator)), r, wr)
<1> DEFINE side == i.initiator
           f == Frame("request_end", side)
           j == [i EXCEPT !.request = "ended"]
           v == Append(wi, f)
<1>1. /\ Sound(i) /\ Sound(r) /\ r.initiator = side /\ side \in Sides
      /\ wi \in Seq(InitiatorFrames(side)) /\ wr \in Seq(ResponderFrames(Opposite(side)))
      /\ f \in InitiatorFrames(side) /\ f.type = "request_end"
  BY StreamType DEF Link, Wires, InitiatorFrames, ResponderFrames, Frame, Grant
<1>2. /\ Sound(j)
      /\ j.at = i.at /\ j.response = i.response
      /\ j.request = "ended" /\ i.request # "ended"
  BY <1>1, StreamType DEF Sound, Streams, IsResponseTerminal, Unstarted, Started, RequestStates, ResponseStates, Closed, Link, ResponseOrder, RequestOrder
<1>3. j.initiator = side /\ j.requestCredit = i.requestCredit /\ j.responseCredit = i.responseCredit
  BY <1>1 DEF Sound, Streams, Started, Closed, Unstarted
<1>4. /\ v \in Seq(InitiatorFrames(side)) /\ v # <<>>
      /\ DOMAIN wi = 1..Len(wi) /\ Len(wi) \in Nat /\ DOMAIN v = 1..(Len(wi) + 1)
      /\ \A k \in DOMAIN wi : v[k] = wi[k]
      /\ v[Len(wi) + 1] = f
  BY <1>1, Appended
<1>5. \A e : Count(v, e) = Count(wi, e) + (IF f = e THEN 1 ELSE 0)
  BY <1>1, CountAppend
<1>6. /\ Count(wi, Frame("request_chunk", side)) \in Nat
      /\ Count(wi, Grant("response", side)) \in Nat
      /\ Count(wr, Frame("response_chunk", Opposite(side))) \in Nat
      /\ Count(wr, Grant("request", Opposite(side))) \in Nat
      /\ i.requestCredit \in Nat /\ i.responseCredit \in Nat
      /\ r.requestCredit \in Nat /\ r.responseCredit \in Nat
      /\ j.requestCredit \in Nat /\ j.responseCredit \in Nat
  BY <1>1, <1>2, PositionsFinite, StreamType
<1>7. Count(v, Frame("request_chunk", side)) = Count(wi, Frame("request_chunk", side))
  BY <1>5, <1>6 DEF Frame, Grant
<1>8. Count(v, Grant("response", side)) = Count(wi, Grant("response", side))
  BY <1>5, <1>6 DEF Frame, Grant
<1> HIDE DEF j, v, f
<1>9. Wires(j, v, r, wr)
  BY <1>1, <1>2, <1>4, <1>3 DEF Wires
<1>10. Opening(j, v, r, wr)
  BY <1>1, <1>2, <1>4 DEF Link, Opening
<1>11. \A k \in DOMAIN v : (k \in DOMAIN wi /\ v[k] = wi[k]) \/ (k = Len(wi) + 1 /\ v[k] = f)
  BY <1>4
<1>12. RequestFrames(v)
  <2>1. SUFFICES ASSUME NEW k \in DOMAIN v, NEW l \in DOMAIN v, k < l
                 PROVE  RequestPair(v[k].type, v[l].type)
    BY DEF RequestFrames
  <2>2. k \in DOMAIN wi /\ v[k] = wi[k]
    BY <1>4, <1>11, <2>1
  <2>3. CASE l \in DOMAIN wi /\ v[l] = wi[l]
    BY <2>1, <2>2, <2>3 DEF Link, RequestFrames
  <2>4. CASE v[l] = f
    BY <1>1, <1>2, <2>2, <2>4 DEF Link, RequestOrder, RequestPair, IsResponseTerminal
  <2> QED BY <1>11, <2>3, <2>4
<1>13. RequestOrder(j, v, r)
  BY <1>1, <1>2, <1>11 DEF Link, RequestOrder
<1>14. ResponseFrames(wr)
  BY DEF Link
<1>15. ResponseOrder(j, r, wr)
  BY <1>2 DEF Link, ResponseOrder, IsResponseTerminal
<1>16. RequestBalance(j, v, r, wr)
  <2>1. RequestSum(j, v, wr) = RequestSum(i, wi, wr)
    BY <1>6, <1>7, <1>3 DEF RequestSum
  <2>2. RequestSum(i, wi, wr) \in Nat
    BY <1>6 DEF RequestSum
  <2> QED BY <1>2, <1>6, <1>3, <2>1, <2>2 DEF Link, RequestBalance
<1>17. ResponseBalance(j, v, r, wr)
  <2>1. ResponseSum(j, v, r, wr) = ResponseSum(i, wi, r, wr)
    BY <1>6, <1>8, <1>3 DEF ResponseSum
  <2>2. ResponseSum(i, wi, r, wr) \in Nat
    BY <1>6 DEF ResponseSum
  <2> QED BY <1>2, <1>6, <1>3, <2>1, <2>2 DEF Link, ResponseBalance, IsResponseTerminal
<1> QED BY <1>9, <1>10, <1>12, <1>13, <1>14, <1>15, <1>16, <1>17 DEF Link, j, v, f

\* The cancellation of the request.
LEMMA SendCancel ==
  ASSUME NEW i, NEW wi, NEW r, NEW wr, Link(i, wi, r, wr),
         i.at = "active", i.request # "cancelled", ~IsResponseTerminal(i)
  PROVE  Link([i EXCEPT !.cancelled = TRUE, !.request = "cancelled"], Append(wi, Frame("request_cancel", i.initiator)), r, wr)
<1> DEFINE side == i.initiator
           f == Frame("request_cancel", side)
           j == [i EXCEPT !.cancelled = TRUE, !.request = "cancelled"]
           v == Append(wi, f)
<1>1. /\ Sound(i) /\ Sound(r) /\ r.initiator = side /\ side \in Sides
      /\ wi \in Seq(InitiatorFrames(side)) /\ wr \in Seq(ResponderFrames(Opposite(side)))
      /\ f \in InitiatorFrames(side) /\ f.type = "request_cancel"
  BY StreamType DEF Link, Wires, InitiatorFrames, ResponderFrames, Frame, Grant
<1>2. /\ Sound(j)
      /\ j.at = i.at /\ j.response = i.response
      /\ j.request = "cancelled" /\ i.request \in {"open", "ended"}
  BY <1>1, StreamType DEF Sound, Streams, IsResponseTerminal, Unstarted, Started, RequestStates, ResponseStates, Closed, Link, ResponseOrder, RequestOrder
<1>3. j.initiator = side /\ j.requestCredit = i.requestCredit /\ j.responseCredit = i.responseCredit
  BY <1>1 DEF Sound, Streams, Started, Closed, Unstarted
<1>4. /\ v \in Seq(InitiatorFrames(side)) /\ v # <<>>
      /\ DOMAIN wi = 1..Len(wi) /\ Len(wi) \in Nat /\ DOMAIN v = 1..(Len(wi) + 1)
      /\ \A k \in DOMAIN wi : v[k] = wi[k]
      /\ v[Len(wi) + 1] = f
  BY <1>1, Appended
<1>5. \A e : Count(v, e) = Count(wi, e) + (IF f = e THEN 1 ELSE 0)
  BY <1>1, CountAppend
<1>6. /\ Count(wi, Frame("request_chunk", side)) \in Nat
      /\ Count(wi, Grant("response", side)) \in Nat
      /\ Count(wr, Frame("response_chunk", Opposite(side))) \in Nat
      /\ Count(wr, Grant("request", Opposite(side))) \in Nat
      /\ i.requestCredit \in Nat /\ i.responseCredit \in Nat
      /\ r.requestCredit \in Nat /\ r.responseCredit \in Nat
      /\ j.requestCredit \in Nat /\ j.responseCredit \in Nat
  BY <1>1, <1>2, PositionsFinite, StreamType
<1>7. Count(v, Frame("request_chunk", side)) = Count(wi, Frame("request_chunk", side))
  BY <1>5, <1>6 DEF Frame, Grant
<1>8. Count(v, Grant("response", side)) = Count(wi, Grant("response", side))
  BY <1>5, <1>6 DEF Frame, Grant
<1> HIDE DEF j, v, f
<1>9. Wires(j, v, r, wr)
  BY <1>1, <1>2, <1>4, <1>3 DEF Wires
<1>10. Opening(j, v, r, wr)
  BY <1>1, <1>2, <1>4 DEF Link, Opening
<1>11. \A k \in DOMAIN v : (k \in DOMAIN wi /\ v[k] = wi[k]) \/ (k = Len(wi) + 1 /\ v[k] = f)
  BY <1>4
<1>12. RequestFrames(v)
  <2>1. SUFFICES ASSUME NEW k \in DOMAIN v, NEW l \in DOMAIN v, k < l
                 PROVE  RequestPair(v[k].type, v[l].type)
    BY DEF RequestFrames
  <2>2. k \in DOMAIN wi /\ v[k] = wi[k]
    BY <1>4, <1>11, <2>1
  <2>3. CASE l \in DOMAIN wi /\ v[l] = wi[l]
    BY <2>1, <2>2, <2>3 DEF Link, RequestFrames
  <2>4. CASE v[l] = f
    BY <1>1, <1>2, <2>2, <2>4 DEF Link, RequestOrder, RequestPair, IsResponseTerminal
  <2> QED BY <1>11, <2>3, <2>4
<1>13. RequestOrder(j, v, r)
  BY <1>1, <1>2, <1>11 DEF Link, RequestOrder
<1>14. ResponseFrames(wr)
  BY DEF Link
<1>15. ResponseOrder(j, r, wr)
  BY <1>2 DEF Link, ResponseOrder, IsResponseTerminal
<1>16. RequestBalance(j, v, r, wr)
  <2>1. RequestSum(j, v, wr) = RequestSum(i, wi, wr)
    BY <1>6, <1>7, <1>3 DEF RequestSum
  <2>2. RequestSum(i, wi, wr) \in Nat
    BY <1>6 DEF RequestSum
  <2> QED BY <1>2, <1>6, <1>3, <2>1, <2>2 DEF Link, RequestBalance
<1>17. ResponseBalance(j, v, r, wr)
  <2>1. ResponseSum(j, v, r, wr) = ResponseSum(i, wi, r, wr)
    BY <1>6, <1>8, <1>3 DEF ResponseSum
  <2>2. ResponseSum(i, wi, r, wr) \in Nat
    BY <1>6 DEF ResponseSum
  <2> QED BY <1>2, <1>6, <1>3, <2>1, <2>2 DEF Link, ResponseBalance, IsResponseTerminal
<1> QED BY <1>9, <1>10, <1>12, <1>13, <1>14, <1>15, <1>16, <1>17 DEF Link, j, v, f

\* Credit for the response.
LEMMA SendResponseGrant ==
  ASSUME NEW i, NEW wi, NEW r, NEW wr, Link(i, wi, r, wr),
         i.at = "active", ~IsResponseTerminal(i), i.responseCredit < Credit
  PROVE  Link([i EXCEPT !.responseCredit = @ + 1], Append(wi, Grant("response", i.initiator)), r, wr)
<1> DEFINE side == i.initiator
           f == Grant("response", side)
           j == [i EXCEPT !.responseCredit = @ + 1]
           v == Append(wi, f)
<1>1. /\ Sound(i) /\ Sound(r) /\ r.initiator = side /\ side \in Sides
      /\ wi \in Seq(InitiatorFrames(side)) /\ wr \in Seq(ResponderFrames(Opposite(side)))
      /\ f \in InitiatorFrames(side) /\ f.type = "window_update"
  BY StreamType DEF Link, Wires, InitiatorFrames, ResponderFrames, Frame, Grant
<1>2. /\ Sound(j)
      /\ j.at = i.at /\ j.request = i.request /\ j.response = i.response
  BY <1>1, StreamType DEF Sound, Streams, IsResponseTerminal
<1>3. j.initiator = side /\ j.requestCredit = i.requestCredit /\ j.responseCredit = i.responseCredit + 1
  BY <1>1 DEF Sound, Streams, Started, Closed, Unstarted
<1>4. /\ v \in Seq(InitiatorFrames(side)) /\ v # <<>>
      /\ DOMAIN wi = 1..Len(wi) /\ Len(wi) \in Nat /\ DOMAIN v = 1..(Len(wi) + 1)
      /\ \A k \in DOMAIN wi : v[k] = wi[k]
      /\ v[Len(wi) + 1] = f
  BY <1>1, Appended
<1>5. \A e : Count(v, e) = Count(wi, e) + (IF f = e THEN 1 ELSE 0)
  BY <1>1, CountAppend
<1>6. /\ Count(wi, Frame("request_chunk", side)) \in Nat
      /\ Count(wi, Grant("response", side)) \in Nat
      /\ Count(wr, Frame("response_chunk", Opposite(side))) \in Nat
      /\ Count(wr, Grant("request", Opposite(side))) \in Nat
      /\ i.requestCredit \in Nat /\ i.responseCredit \in Nat
      /\ r.requestCredit \in Nat /\ r.responseCredit \in Nat
      /\ j.requestCredit \in Nat /\ j.responseCredit \in Nat
  BY <1>1, <1>2, PositionsFinite, StreamType
<1>7. Count(v, Frame("request_chunk", side)) = Count(wi, Frame("request_chunk", side))
  BY <1>5, <1>6 DEF Frame, Grant
<1>8. Count(v, Grant("response", side)) = Count(wi, Grant("response", side)) + 1
  BY <1>5, <1>6 DEF Frame, Grant
<1> HIDE DEF j, v, f
<1>9. Wires(j, v, r, wr)
  BY <1>1, <1>2, <1>4, <1>3 DEF Wires
<1>10. Opening(j, v, r, wr)
  BY <1>1, <1>2, <1>4 DEF Link, Opening
<1>11. \A k \in DOMAIN v : (k \in DOMAIN wi /\ v[k] = wi[k]) \/ (k = Len(wi) + 1 /\ v[k] = f)
  BY <1>4
<1>12. RequestFrames(v)
  <2>1. SUFFICES ASSUME NEW k \in DOMAIN v, NEW l \in DOMAIN v, k < l
                 PROVE  RequestPair(v[k].type, v[l].type)
    BY DEF RequestFrames
  <2>2. k \in DOMAIN wi /\ v[k] = wi[k]
    BY <1>4, <1>11, <2>1
  <2>3. CASE l \in DOMAIN wi /\ v[l] = wi[l]
    BY <2>1, <2>2, <2>3 DEF Link, RequestFrames
  <2>4. CASE v[l] = f
    BY <1>1, <1>2, <2>2, <2>4 DEF Link, RequestOrder, RequestPair, IsResponseTerminal
  <2> QED BY <1>11, <2>3, <2>4
<1>13. RequestOrder(j, v, r)
  BY <1>1, <1>2, <1>11 DEF Link, RequestOrder
<1>14. ResponseFrames(wr)
  BY DEF Link
<1>15. ResponseOrder(j, r, wr)
  BY <1>2 DEF Link, ResponseOrder, IsResponseTerminal
<1>16. RequestBalance(j, v, r, wr)
  <2>1. RequestSum(j, v, wr) = RequestSum(i, wi, wr)
    BY <1>6, <1>7, <1>3 DEF RequestSum
  <2>2. RequestSum(i, wi, wr) \in Nat
    BY <1>6 DEF RequestSum
  <2> QED BY <1>2, <1>6, <1>3, <2>1, <2>2 DEF Link, RequestBalance
<1>17. ResponseBalance(j, v, r, wr)
  <2>1. ResponseSum(j, v, r, wr) = ResponseSum(i, wi, r, wr) + 1
    BY <1>6, <1>8, <1>3 DEF ResponseSum
  <2>2. ResponseSum(i, wi, r, wr) \in Nat
    BY <1>6 DEF ResponseSum
  <2> QED BY <1>2, <1>6, <1>3, <2>1, <2>2 DEF Link, ResponseBalance, IsResponseTerminal
<1> QED BY <1>9, <1>10, <1>12, <1>13, <1>14, <1>15, <1>16, <1>17 DEF Link, j, v, f

\* The start of the request.
LEMMA SendStart ==
  ASSUME NEW i, NEW wi, NEW r, NEW wr, Link(i, wi, r, wr),
         i.at = "unknown"
  PROVE  Link(Started(i.initiator), Append(wi, Frame("request_start", i.initiator)), r, wr)
<1> DEFINE side == i.initiator
           f == Frame("request_start", side)
           j == Started(i.initiator)
           v == Append(wi, f)
<1>1. /\ Sound(i) /\ Sound(r) /\ r.initiator = side /\ side \in Sides
      /\ wi \in Seq(InitiatorFrames(side)) /\ wr \in Seq(ResponderFrames(Opposite(side)))
      /\ f \in InitiatorFrames(side) /\ f.type = "request_start"
  BY StreamType DEF Link, Wires, InitiatorFrames, ResponderFrames, Frame, Grant
<1>2. /\ Sound(j)
      /\ j.request = i.request /\ j.response = i.response
      /\ j.at = "active" /\ j.request = "open" /\ j.response = "none"
  BY <1>1, StreamType DEF Sound, Streams, IsResponseTerminal, Unstarted, Started, RequestStates, ResponseStates, Closed, Link, ResponseOrder, RequestOrder
<1>3. j.initiator = side /\ j.requestCredit = i.requestCredit /\ j.responseCredit = i.responseCredit
  BY <1>1 DEF Sound, Streams, Started, Closed, Unstarted
<1>4. /\ v \in Seq(InitiatorFrames(side)) /\ v # <<>>
      /\ DOMAIN wi = 1..Len(wi) /\ Len(wi) \in Nat /\ DOMAIN v = 1..(Len(wi) + 1)
      /\ \A k \in DOMAIN wi : v[k] = wi[k]
      /\ v[Len(wi) + 1] = f
  BY <1>1, Appended
<1>5. \A e : Count(v, e) = Count(wi, e) + (IF f = e THEN 1 ELSE 0)
  BY <1>1, CountAppend
<1>6. /\ Count(wi, Frame("request_chunk", side)) \in Nat
      /\ Count(wi, Grant("response", side)) \in Nat
      /\ Count(wr, Frame("response_chunk", Opposite(side))) \in Nat
      /\ Count(wr, Grant("request", Opposite(side))) \in Nat
      /\ i.requestCredit \in Nat /\ i.responseCredit \in Nat
      /\ r.requestCredit \in Nat /\ r.responseCredit \in Nat
      /\ j.requestCredit \in Nat /\ j.responseCredit \in Nat
  BY <1>1, <1>2, PositionsFinite, StreamType
<1>7. Count(v, Frame("request_chunk", side)) = Count(wi, Frame("request_chunk", side))
  BY <1>5, <1>6 DEF Frame, Grant
<1>8. Count(v, Grant("response", side)) = Count(wi, Grant("response", side))
  BY <1>5, <1>6 DEF Frame, Grant
<1> HIDE DEF j, v, f
<1>9. Wires(j, v, r, wr)
  BY <1>1, <1>2, <1>4, <1>3 DEF Wires
<1>10. Opening(j, v, r, wr)
  BY <1>1, <1>2, <1>4 DEF Link, Opening
<1>11. \A k \in DOMAIN v : (k \in DOMAIN wi /\ v[k] = wi[k]) \/ (k = Len(wi) + 1 /\ v[k] = f)
  BY <1>4
<1>12. RequestFrames(v)
  <2>1. SUFFICES ASSUME NEW k \in DOMAIN v, NEW l \in DOMAIN v, k < l
                 PROVE  RequestPair(v[k].type, v[l].type)
    BY DEF RequestFrames
  <2>2. k \in DOMAIN wi /\ v[k] = wi[k]
    BY <1>4, <1>11, <2>1
  <2>3. CASE l \in DOMAIN wi /\ v[l] = wi[l]
    BY <2>1, <2>2, <2>3 DEF Link, RequestFrames
  <2>4. CASE v[l] = f
    BY <1>1, <1>2, <2>2, <2>4 DEF Link, RequestOrder, RequestPair, IsResponseTerminal
  <2> QED BY <1>11, <2>3, <2>4
<1>13. RequestOrder(j, v, r)
  BY <1>1, <1>2, <1>11 DEF Link, RequestOrder
<1>14. ResponseFrames(wr)
  BY DEF Link
<1>15. ResponseOrder(j, r, wr)
  BY <1>2 DEF Link, ResponseOrder, IsResponseTerminal
<1>16. RequestBalance(j, v, r, wr)
  <2>1. RequestSum(j, v, wr) = RequestSum(i, wi, wr)
    BY <1>6, <1>7, <1>3 DEF RequestSum
  <2>2. RequestSum(i, wi, wr) \in Nat
    BY <1>6 DEF RequestSum
  <2> QED BY <1>2, <1>6, <1>3, <2>1, <2>2 DEF Link, RequestBalance
<1>17. ResponseBalance(j, v, r, wr)
  <2>1. ResponseSum(j, v, r, wr) = ResponseSum(i, wi, r, wr)
    BY <1>6, <1>8, <1>3 DEF ResponseSum
  <2>2. ResponseSum(i, wi, r, wr) \in Nat
    BY <1>6 DEF ResponseSum
  <2> QED BY <1>2, <1>6, <1>3, <2>1, <2>2 DEF Link, ResponseBalance, IsResponseTerminal
<1> QED BY <1>9, <1>10, <1>12, <1>13, <1>14, <1>15, <1>16, <1>17 DEF Link, j, v, f

\* The start of the response.
LEMMA SendAnswer ==
  ASSUME NEW i, NEW wi, NEW r, NEW wr, Link(i, wi, r, wr),
         r.at = "active", r.response = "none"
  PROVE  Link(i, wi, [r EXCEPT !.response = "open"], Append(wr, Frame("response_start", Opposite(i.initiator))))
<1> DEFINE side == i.initiator
           f == Frame("response_start", Opposite(side))
           j == [r EXCEPT !.response = "open"]
           v == Append(wr, f)
<1>1. /\ Sound(i) /\ Sound(r) /\ r.initiator = side /\ side \in Sides
      /\ wi \in Seq(InitiatorFrames(side)) /\ wr \in Seq(ResponderFrames(Opposite(side)))
      /\ f \in ResponderFrames(Opposite(side)) /\ f.type = "response_start"
  BY StreamType DEF Link, Wires, InitiatorFrames, ResponderFrames, Frame, Grant
<1>2. /\ Sound(j)
      /\ j.at = r.at /\ j.request = r.request
      /\ j.response = "open"
  BY <1>1, StreamType DEF Sound, Streams, IsResponseTerminal, Unstarted, Started, RequestStates, ResponseStates, Closed, Link, ResponseOrder, RequestOrder
<1>3. j.initiator = side /\ j.requestCredit = r.requestCredit /\ j.responseCredit = r.responseCredit
  BY <1>1 DEF Sound, Streams, Started, Closed, Unstarted
<1>4. /\ v \in Seq(ResponderFrames(Opposite(side))) /\ v # <<>>
      /\ DOMAIN wr = 1..Len(wr) /\ Len(wr) \in Nat /\ DOMAIN v = 1..(Len(wr) + 1)
      /\ \A k \in DOMAIN wr : v[k] = wr[k]
      /\ v[Len(wr) + 1] = f
  BY <1>1, Appended
<1>5. \A e : Count(v, e) = Count(wr, e) + (IF f = e THEN 1 ELSE 0)
  BY <1>1, CountAppend
<1>6. /\ Count(wi, Frame("request_chunk", side)) \in Nat
      /\ Count(wi, Grant("response", side)) \in Nat
      /\ Count(wr, Frame("response_chunk", Opposite(side))) \in Nat
      /\ Count(wr, Grant("request", Opposite(side))) \in Nat
      /\ i.requestCredit \in Nat /\ i.responseCredit \in Nat
      /\ r.requestCredit \in Nat /\ r.responseCredit \in Nat
      /\ j.requestCredit \in Nat /\ j.responseCredit \in Nat
  BY <1>1, <1>2, PositionsFinite, StreamType
<1>7. Count(v, Grant("request", Opposite(side))) = Count(wr, Grant("request", Opposite(side)))
  BY <1>5, <1>6 DEF Frame, Grant
<1>8. Count(v, Frame("response_chunk", Opposite(side))) = Count(wr, Frame("response_chunk", Opposite(side)))
  BY <1>5, <1>6 DEF Frame, Grant
<1> HIDE DEF j, v, f
<1>9. Wires(i, wi, j, v)
  BY <1>1, <1>2, <1>4, <1>3 DEF Wires
<1>10. Opening(i, wi, j, v)
  BY <1>1, <1>2, <1>4 DEF Link, Opening
<1>11. \A k \in DOMAIN v : (k \in DOMAIN wr /\ v[k] = wr[k]) \/ (k = Len(wr) + 1 /\ v[k] = f)
  BY <1>4
<1>12. RequestFrames(wi)
  BY DEF Link
<1>13. RequestOrder(i, wi, j)
  BY <1>2 DEF Link, RequestOrder
<1>14. ResponseFrames(v)
  <2>1. SUFFICES ASSUME NEW k \in DOMAIN v, NEW l \in DOMAIN v, k < l
                 PROVE  ResponsePair(v[k].type, v[l].type)
    BY DEF ResponseFrames
  <2>2. k \in DOMAIN wr /\ v[k] = wr[k]
    BY <1>4, <1>11, <2>1
  <2>3. CASE l \in DOMAIN wr /\ v[l] = wr[l]
    BY <2>1, <2>2, <2>3 DEF Link, ResponseFrames
  <2>4. CASE v[l] = f
    BY <1>1, <1>2, <2>2, <2>4 DEF Link, ResponseOrder, ResponsePair, IsResponseTerminal
  <2> QED BY <1>11, <2>3, <2>4
<1>15. ResponseOrder(i, j, v)
  <2>1. ResponseOrder(i, r, wr)
    BY DEF Link
  <2>2. ASSUME i.response = "none", NEW k \in DOMAIN v, v[k].type \in {"response_chunk", "response_end"}
        PROVE  \E l \in DOMAIN v : l < k /\ v[l].type = "response_start"
    <3>1. PICK l \in DOMAIN wr : l < k /\ wr[l].type = "response_start"
      BY <1>1, <1>4, <1>11, <2>1, <2>2 DEF ResponseOrder
    <3> QED BY <1>4, <3>1
  <2>3. ASSUME j.response = "none"
        PROVE  i.response = "none" /\ \A k \in DOMAIN v : v[k].type = "window_update"
    BY <1>1, <1>2, <1>11, <2>1, <2>3 DEF ResponseOrder
  <2>4. ASSUME j.response = "open"
        PROVE  /\ ~IsResponseTerminal(i)
               /\ \A k \in DOMAIN v : v[k].type \notin {"response_end", "response_error"}
    BY <1>1, <1>2, <1>11, <2>1, <2>4 DEF ResponseOrder, IsResponseTerminal
  <2>5. ASSUME j.response = "open", i.response = "none"
        PROVE  \E k \in DOMAIN v : v[k].type = "response_start"
    BY <1>1, <1>2, <1>4, <2>1, <2>5 DEF ResponseOrder
  <2>6. ASSUME i.response = "open"
        PROVE  \A k \in DOMAIN v : v[k].type # "response_start"
    BY <1>1, <1>11, <2>1, <2>6 DEF ResponseOrder
  <2>7. ASSUME IsResponseTerminal(i)
        PROVE  \A k \in DOMAIN v : v[k].type = "window_update"
    BY <1>1, <1>2, <1>11, <2>1, <2>7 DEF ResponseOrder, IsResponseTerminal
  <2> QED BY <2>2, <2>3, <2>4, <2>5, <2>6, <2>7 DEF ResponseOrder
<1>16. RequestBalance(i, wi, j, v)
  <2>1. RequestSum(i, wi, v) = RequestSum(i, wi, wr)
    BY <1>6, <1>7, <1>3 DEF RequestSum
  <2>2. RequestSum(i, wi, wr) \in Nat
    BY <1>6 DEF RequestSum
  <2> QED BY <1>2, <1>6, <1>3, <2>1, <2>2 DEF Link, RequestBalance
<1>17. ResponseBalance(i, wi, j, v)
  <2>1. ResponseSum(i, wi, j, v) = ResponseSum(i, wi, r, wr)
    BY <1>6, <1>8, <1>3 DEF ResponseSum
  <2>2. ResponseSum(i, wi, r, wr) \in Nat
    BY <1>6 DEF ResponseSum
  <2> QED BY <1>2, <1>6, <1>3, <2>1, <2>2 DEF Link, ResponseBalance, IsResponseTerminal
<1> QED BY <1>9, <1>10, <1>12, <1>13, <1>14, <1>15, <1>16, <1>17 DEF Link, j, v, f

\* A chunk of the response, against credit.
LEMMA SendAnswerChunk ==
  ASSUME NEW i, NEW wi, NEW r, NEW wr, Link(i, wi, r, wr),
         r.at = "active", r.response = "open", r.responseCredit > 0
  PROVE  Link(i, wi, [r EXCEPT !.responseCredit = @ - 1], Append(wr, Frame("response_chunk", Opposite(i.initiator))))
<1> DEFINE side == i.initiator
           f == Frame("response_chunk", Opposite(side))
           j == [r EXCEPT !.responseCredit = @ - 1]
           v == Append(wr, f)
<1>1. /\ Sound(i) /\ Sound(r) /\ r.initiator = side /\ side \in Sides
      /\ wi \in Seq(InitiatorFrames(side)) /\ wr \in Seq(ResponderFrames(Opposite(side)))
      /\ f \in ResponderFrames(Opposite(side)) /\ f.type = "response_chunk"
  BY StreamType DEF Link, Wires, InitiatorFrames, ResponderFrames, Frame, Grant
<1>2. /\ Sound(j)
      /\ j.at = r.at /\ j.request = r.request /\ j.response = r.response
  BY <1>1, StreamType DEF Sound, Streams, IsResponseTerminal
<1>3. j.initiator = side /\ j.requestCredit = r.requestCredit /\ j.responseCredit = r.responseCredit - 1
  BY <1>1 DEF Sound, Streams, Started, Closed, Unstarted
<1>4. /\ v \in Seq(ResponderFrames(Opposite(side))) /\ v # <<>>
      /\ DOMAIN wr = 1..Len(wr) /\ Len(wr) \in Nat /\ DOMAIN v = 1..(Len(wr) + 1)
      /\ \A k \in DOMAIN wr : v[k] = wr[k]
      /\ v[Len(wr) + 1] = f
  BY <1>1, Appended
<1>5. \A e : Count(v, e) = Count(wr, e) + (IF f = e THEN 1 ELSE 0)
  BY <1>1, CountAppend
<1>6. /\ Count(wi, Frame("request_chunk", side)) \in Nat
      /\ Count(wi, Grant("response", side)) \in Nat
      /\ Count(wr, Frame("response_chunk", Opposite(side))) \in Nat
      /\ Count(wr, Grant("request", Opposite(side))) \in Nat
      /\ i.requestCredit \in Nat /\ i.responseCredit \in Nat
      /\ r.requestCredit \in Nat /\ r.responseCredit \in Nat
      /\ j.requestCredit \in Nat /\ j.responseCredit \in Nat
  BY <1>1, <1>2, PositionsFinite, StreamType
<1>7. Count(v, Grant("request", Opposite(side))) = Count(wr, Grant("request", Opposite(side)))
  BY <1>5, <1>6 DEF Frame, Grant
<1>8. Count(v, Frame("response_chunk", Opposite(side))) = Count(wr, Frame("response_chunk", Opposite(side))) + 1
  BY <1>5, <1>6 DEF Frame, Grant
<1> HIDE DEF j, v, f
<1>9. Wires(i, wi, j, v)
  BY <1>1, <1>2, <1>4, <1>3 DEF Wires
<1>10. Opening(i, wi, j, v)
  BY <1>1, <1>2, <1>4 DEF Link, Opening
<1>11. \A k \in DOMAIN v : (k \in DOMAIN wr /\ v[k] = wr[k]) \/ (k = Len(wr) + 1 /\ v[k] = f)
  BY <1>4
<1>12. RequestFrames(wi)
  BY DEF Link
<1>13. RequestOrder(i, wi, j)
  BY <1>2 DEF Link, RequestOrder
<1>14. ResponseFrames(v)
  <2>1. SUFFICES ASSUME NEW k \in DOMAIN v, NEW l \in DOMAIN v, k < l
                 PROVE  ResponsePair(v[k].type, v[l].type)
    BY DEF ResponseFrames
  <2>2. k \in DOMAIN wr /\ v[k] = wr[k]
    BY <1>4, <1>11, <2>1
  <2>3. CASE l \in DOMAIN wr /\ v[l] = wr[l]
    BY <2>1, <2>2, <2>3 DEF Link, ResponseFrames
  <2>4. CASE v[l] = f
    BY <1>1, <1>2, <2>2, <2>4 DEF Link, ResponseOrder, ResponsePair, IsResponseTerminal
  <2> QED BY <1>11, <2>3, <2>4
<1>15. ResponseOrder(i, j, v)
  <2>1. ResponseOrder(i, r, wr)
    BY DEF Link
  <2>2. ASSUME i.response = "none", NEW k \in DOMAIN v, v[k].type \in {"response_chunk", "response_end"}
        PROVE  \E l \in DOMAIN v : l < k /\ v[l].type = "response_start"
    <3>1. PICK l \in DOMAIN wr : l < k /\ wr[l].type = "response_start"
      BY <1>1, <1>4, <1>11, <2>1, <2>2 DEF ResponseOrder
    <3> QED BY <1>4, <3>1
  <2>3. ASSUME j.response = "none"
        PROVE  i.response = "none" /\ \A k \in DOMAIN v : v[k].type = "window_update"
    BY <1>1, <1>2, <1>11, <2>1, <2>3 DEF ResponseOrder
  <2>4. ASSUME j.response = "open"
        PROVE  /\ ~IsResponseTerminal(i)
               /\ \A k \in DOMAIN v : v[k].type \notin {"response_end", "response_error"}
    BY <1>1, <1>2, <1>11, <2>1, <2>4 DEF ResponseOrder, IsResponseTerminal
  <2>5. ASSUME j.response = "open", i.response = "none"
        PROVE  \E k \in DOMAIN v : v[k].type = "response_start"
    BY <1>1, <1>2, <1>4, <2>1, <2>5 DEF ResponseOrder
  <2>6. ASSUME i.response = "open"
        PROVE  \A k \in DOMAIN v : v[k].type # "response_start"
    BY <1>1, <1>11, <2>1, <2>6 DEF ResponseOrder
  <2>7. ASSUME IsResponseTerminal(i)
        PROVE  \A k \in DOMAIN v : v[k].type = "window_update"
    BY <1>1, <1>2, <1>11, <2>1, <2>7 DEF ResponseOrder, IsResponseTerminal
  <2> QED BY <2>2, <2>3, <2>4, <2>5, <2>6, <2>7 DEF ResponseOrder
<1>16. RequestBalance(i, wi, j, v)
  <2>1. RequestSum(i, wi, v) = RequestSum(i, wi, wr)
    BY <1>6, <1>7, <1>3 DEF RequestSum
  <2>2. RequestSum(i, wi, wr) \in Nat
    BY <1>6 DEF RequestSum
  <2> QED BY <1>2, <1>6, <1>3, <2>1, <2>2 DEF Link, RequestBalance
<1>17. ResponseBalance(i, wi, j, v)
  <2>1. ResponseSum(i, wi, j, v) = ResponseSum(i, wi, r, wr)
    BY <1>6, <1>8, <1>3 DEF ResponseSum
  <2>2. ResponseSum(i, wi, r, wr) \in Nat
    BY <1>6 DEF ResponseSum
  <2> QED BY <1>2, <1>6, <1>3, <2>1, <2>2 DEF Link, ResponseBalance, IsResponseTerminal
<1> QED BY <1>9, <1>10, <1>12, <1>13, <1>14, <1>15, <1>16, <1>17 DEF Link, j, v, f

\* The end of the response.
LEMMA SendAnswerEnd ==
  ASSUME NEW i, NEW wi, NEW r, NEW wr, Link(i, wi, r, wr),
         r.at = "active", r.response = "open"
  PROVE  Link(i, wi, Closed(r, "succeeded"), Append(wr, Frame("response_end", Opposite(i.initiator))))
<1> DEFINE side == i.initiator
           f == Frame("response_end", Opposite(side))
           j == Closed(r, "succeeded")
           v == Append(wr, f)
<1>1. /\ Sound(i) /\ Sound(r) /\ r.initiator = side /\ side \in Sides
      /\ wi \in Seq(InitiatorFrames(side)) /\ wr \in Seq(ResponderFrames(Opposite(side)))
      /\ f \in ResponderFrames(Opposite(side)) /\ f.type = "response_end"
  BY StreamType DEF Link, Wires, InitiatorFrames, ResponderFrames, Frame, Grant
<1>2. /\ Sound(j)
      /\ j.at = r.at
      /\ j.response = "succeeded" /\ r.request # "response_closed"
      /\ j.request = IF r.request = "open" THEN "response_closed" ELSE r.request
  BY <1>1, StreamType DEF Sound, Streams, IsResponseTerminal, Unstarted, Started, RequestStates, ResponseStates, Closed, Link, ResponseOrder, RequestOrder
<1>3. j.initiator = side /\ j.requestCredit = r.requestCredit /\ j.responseCredit = r.responseCredit
  BY <1>1 DEF Sound, Streams, Started, Closed, Unstarted
<1>4. /\ v \in Seq(ResponderFrames(Opposite(side))) /\ v # <<>>
      /\ DOMAIN wr = 1..Len(wr) /\ Len(wr) \in Nat /\ DOMAIN v = 1..(Len(wr) + 1)
      /\ \A k \in DOMAIN wr : v[k] = wr[k]
      /\ v[Len(wr) + 1] = f
  BY <1>1, Appended
<1>5. \A e : Count(v, e) = Count(wr, e) + (IF f = e THEN 1 ELSE 0)
  BY <1>1, CountAppend
<1>6. /\ Count(wi, Frame("request_chunk", side)) \in Nat
      /\ Count(wi, Grant("response", side)) \in Nat
      /\ Count(wr, Frame("response_chunk", Opposite(side))) \in Nat
      /\ Count(wr, Grant("request", Opposite(side))) \in Nat
      /\ i.requestCredit \in Nat /\ i.responseCredit \in Nat
      /\ r.requestCredit \in Nat /\ r.responseCredit \in Nat
      /\ j.requestCredit \in Nat /\ j.responseCredit \in Nat
  BY <1>1, <1>2, PositionsFinite, StreamType
<1>7. Count(v, Grant("request", Opposite(side))) = Count(wr, Grant("request", Opposite(side)))
  BY <1>5, <1>6 DEF Frame, Grant
<1>8. Count(v, Frame("response_chunk", Opposite(side))) = Count(wr, Frame("response_chunk", Opposite(side)))
  BY <1>5, <1>6 DEF Frame, Grant
<1> HIDE DEF j, v, f
<1>9. Wires(i, wi, j, v)
  BY <1>1, <1>2, <1>4, <1>3 DEF Wires
<1>10. Opening(i, wi, j, v)
  BY <1>1, <1>2, <1>4 DEF Link, Opening
<1>11. \A k \in DOMAIN v : (k \in DOMAIN wr /\ v[k] = wr[k]) \/ (k = Len(wr) + 1 /\ v[k] = f)
  BY <1>4
<1>12. RequestFrames(wi)
  BY DEF Link
<1>13. RequestOrder(i, wi, j)
  BY <1>2 DEF Link, RequestOrder
<1>14. ResponseFrames(v)
  <2>1. SUFFICES ASSUME NEW k \in DOMAIN v, NEW l \in DOMAIN v, k < l
                 PROVE  ResponsePair(v[k].type, v[l].type)
    BY DEF ResponseFrames
  <2>2. k \in DOMAIN wr /\ v[k] = wr[k]
    BY <1>4, <1>11, <2>1
  <2>3. CASE l \in DOMAIN wr /\ v[l] = wr[l]
    BY <2>1, <2>2, <2>3 DEF Link, ResponseFrames
  <2>4. CASE v[l] = f
    BY <1>1, <1>2, <2>2, <2>4 DEF Link, ResponseOrder, ResponsePair, IsResponseTerminal
  <2> QED BY <1>11, <2>3, <2>4
<1>15. ResponseOrder(i, j, v)
  <2>1. ResponseOrder(i, r, wr)
    BY DEF Link
  <2>2. ASSUME i.response = "none", NEW k \in DOMAIN v, v[k].type \in {"response_chunk", "response_end"}
        PROVE  \E l \in DOMAIN v : l < k /\ v[l].type = "response_start"
    <3>1. PICK l \in DOMAIN wr : l < k /\ wr[l].type = "response_start"
      BY <1>1, <1>4, <1>11, <2>1, <2>2 DEF ResponseOrder
    <3> QED BY <1>4, <3>1
  <2>3. ASSUME j.response = "none"
        PROVE  i.response = "none" /\ \A k \in DOMAIN v : v[k].type = "window_update"
    BY <1>1, <1>2, <1>11, <2>1, <2>3 DEF ResponseOrder
  <2>4. ASSUME j.response = "open"
        PROVE  /\ ~IsResponseTerminal(i)
               /\ \A k \in DOMAIN v : v[k].type \notin {"response_end", "response_error"}
    BY <1>1, <1>2, <1>11, <2>1, <2>4 DEF ResponseOrder, IsResponseTerminal
  <2>5. ASSUME j.response = "open", i.response = "none"
        PROVE  \E k \in DOMAIN v : v[k].type = "response_start"
    BY <1>1, <1>2, <1>4, <2>1, <2>5 DEF ResponseOrder
  <2>6. ASSUME i.response = "open"
        PROVE  \A k \in DOMAIN v : v[k].type # "response_start"
    BY <1>1, <1>11, <2>1, <2>6 DEF ResponseOrder
  <2>7. ASSUME IsResponseTerminal(i)
        PROVE  \A k \in DOMAIN v : v[k].type = "window_update"
    BY <1>1, <1>2, <1>11, <2>1, <2>7 DEF ResponseOrder, IsResponseTerminal
  <2> QED BY <2>2, <2>3, <2>4, <2>5, <2>6, <2>7 DEF ResponseOrder
<1>16. RequestBalance(i, wi, j, v)
  <2>1. RequestSum(i, wi, v) = RequestSum(i, wi, wr)
    BY <1>6, <1>7, <1>3 DEF RequestSum
  <2>2. RequestSum(i, wi, wr) \in Nat
    BY <1>6 DEF RequestSum
  <2> QED BY <1>2, <1>6, <1>3, <2>1, <2>2 DEF Link, RequestBalance
<1>17. ResponseBalance(i, wi, j, v)
  <2>1. ResponseSum(i, wi, j, v) = ResponseSum(i, wi, r, wr)
    BY <1>6, <1>8, <1>3 DEF ResponseSum
  <2>2. ResponseSum(i, wi, r, wr) \in Nat
    BY <1>6 DEF ResponseSum
  <2> QED BY <1>2, <1>6, <1>3, <2>1, <2>2 DEF Link, ResponseBalance, IsResponseTerminal
<1> QED BY <1>9, <1>10, <1>12, <1>13, <1>14, <1>15, <1>16, <1>17 DEF Link, j, v, f

\* The failure of the response.
LEMMA SendAnswerError ==
  ASSUME NEW i, NEW wi, NEW r, NEW wr, Link(i, wi, r, wr),
         r.at = "active", ~IsResponseTerminal(r)
  PROVE  Link(i, wi, Closed(r, "failed"), Append(wr, Frame("response_error", Opposite(i.initiator))))
<1> DEFINE side == i.initiator
           f == Frame("response_error", Opposite(side))
           j == Closed(r, "failed")
           v == Append(wr, f)
<1>1. /\ Sound(i) /\ Sound(r) /\ r.initiator = side /\ side \in Sides
      /\ wi \in Seq(InitiatorFrames(side)) /\ wr \in Seq(ResponderFrames(Opposite(side)))
      /\ f \in ResponderFrames(Opposite(side)) /\ f.type = "response_error"
  BY StreamType DEF Link, Wires, InitiatorFrames, ResponderFrames, Frame, Grant
<1>2. /\ Sound(j)
      /\ j.at = r.at
      /\ j.response = "failed" /\ r.response \in {"none", "open"}
      /\ r.request # "response_closed"
      /\ j.request = IF r.request = "open" THEN "response_closed" ELSE r.request
  BY <1>1, StreamType DEF Sound, Streams, IsResponseTerminal, Unstarted, Started, RequestStates, ResponseStates, Closed, Link, ResponseOrder, RequestOrder
<1>3. j.initiator = side /\ j.requestCredit = r.requestCredit /\ j.responseCredit = r.responseCredit
  BY <1>1 DEF Sound, Streams, Started, Closed, Unstarted
<1>4. /\ v \in Seq(ResponderFrames(Opposite(side))) /\ v # <<>>
      /\ DOMAIN wr = 1..Len(wr) /\ Len(wr) \in Nat /\ DOMAIN v = 1..(Len(wr) + 1)
      /\ \A k \in DOMAIN wr : v[k] = wr[k]
      /\ v[Len(wr) + 1] = f
  BY <1>1, Appended
<1>5. \A e : Count(v, e) = Count(wr, e) + (IF f = e THEN 1 ELSE 0)
  BY <1>1, CountAppend
<1>6. /\ Count(wi, Frame("request_chunk", side)) \in Nat
      /\ Count(wi, Grant("response", side)) \in Nat
      /\ Count(wr, Frame("response_chunk", Opposite(side))) \in Nat
      /\ Count(wr, Grant("request", Opposite(side))) \in Nat
      /\ i.requestCredit \in Nat /\ i.responseCredit \in Nat
      /\ r.requestCredit \in Nat /\ r.responseCredit \in Nat
      /\ j.requestCredit \in Nat /\ j.responseCredit \in Nat
  BY <1>1, <1>2, PositionsFinite, StreamType
<1>7. Count(v, Grant("request", Opposite(side))) = Count(wr, Grant("request", Opposite(side)))
  BY <1>5, <1>6 DEF Frame, Grant
<1>8. Count(v, Frame("response_chunk", Opposite(side))) = Count(wr, Frame("response_chunk", Opposite(side)))
  BY <1>5, <1>6 DEF Frame, Grant
<1> HIDE DEF j, v, f
<1>9. Wires(i, wi, j, v)
  BY <1>1, <1>2, <1>4, <1>3 DEF Wires
<1>10. Opening(i, wi, j, v)
  BY <1>1, <1>2, <1>4 DEF Link, Opening
<1>11. \A k \in DOMAIN v : (k \in DOMAIN wr /\ v[k] = wr[k]) \/ (k = Len(wr) + 1 /\ v[k] = f)
  BY <1>4
<1>12. RequestFrames(wi)
  BY DEF Link
<1>13. RequestOrder(i, wi, j)
  BY <1>2 DEF Link, RequestOrder
<1>14. ResponseFrames(v)
  <2>1. SUFFICES ASSUME NEW k \in DOMAIN v, NEW l \in DOMAIN v, k < l
                 PROVE  ResponsePair(v[k].type, v[l].type)
    BY DEF ResponseFrames
  <2>2. k \in DOMAIN wr /\ v[k] = wr[k]
    BY <1>4, <1>11, <2>1
  <2>3. CASE l \in DOMAIN wr /\ v[l] = wr[l]
    BY <2>1, <2>2, <2>3 DEF Link, ResponseFrames
  <2>4. CASE v[l] = f
    BY <1>1, <1>2, <2>2, <2>4 DEF Link, ResponseOrder, ResponsePair, IsResponseTerminal
  <2> QED BY <1>11, <2>3, <2>4
<1>15. ResponseOrder(i, j, v)
  <2>1. ResponseOrder(i, r, wr)
    BY DEF Link
  <2>2. ASSUME i.response = "none", NEW k \in DOMAIN v, v[k].type \in {"response_chunk", "response_end"}
        PROVE  \E l \in DOMAIN v : l < k /\ v[l].type = "response_start"
    <3>1. PICK l \in DOMAIN wr : l < k /\ wr[l].type = "response_start"
      BY <1>1, <1>4, <1>11, <2>1, <2>2 DEF ResponseOrder
    <3> QED BY <1>4, <3>1
  <2>3. ASSUME j.response = "none"
        PROVE  i.response = "none" /\ \A k \in DOMAIN v : v[k].type = "window_update"
    BY <1>1, <1>2, <1>11, <2>1, <2>3 DEF ResponseOrder
  <2>4. ASSUME j.response = "open"
        PROVE  /\ ~IsResponseTerminal(i)
               /\ \A k \in DOMAIN v : v[k].type \notin {"response_end", "response_error"}
    BY <1>1, <1>2, <1>11, <2>1, <2>4 DEF ResponseOrder, IsResponseTerminal
  <2>5. ASSUME j.response = "open", i.response = "none"
        PROVE  \E k \in DOMAIN v : v[k].type = "response_start"
    BY <1>1, <1>2, <1>4, <2>1, <2>5 DEF ResponseOrder
  <2>6. ASSUME i.response = "open"
        PROVE  \A k \in DOMAIN v : v[k].type # "response_start"
    BY <1>1, <1>11, <2>1, <2>6 DEF ResponseOrder
  <2>7. ASSUME IsResponseTerminal(i)
        PROVE  \A k \in DOMAIN v : v[k].type = "window_update"
    BY <1>1, <1>2, <1>11, <2>1, <2>7 DEF ResponseOrder, IsResponseTerminal
  <2> QED BY <2>2, <2>3, <2>4, <2>5, <2>6, <2>7 DEF ResponseOrder
<1>16. RequestBalance(i, wi, j, v)
  <2>1. RequestSum(i, wi, v) = RequestSum(i, wi, wr)
    BY <1>6, <1>7, <1>3 DEF RequestSum
  <2>2. RequestSum(i, wi, wr) \in Nat
    BY <1>6 DEF RequestSum
  <2> QED BY <1>2, <1>6, <1>3, <2>1, <2>2 DEF Link, RequestBalance
<1>17. ResponseBalance(i, wi, j, v)
  <2>1. ResponseSum(i, wi, j, v) = ResponseSum(i, wi, r, wr)
    BY <1>6, <1>8, <1>3 DEF ResponseSum
  <2>2. ResponseSum(i, wi, r, wr) \in Nat
    BY <1>6 DEF ResponseSum
  <2> QED BY <1>2, <1>6, <1>3, <2>1, <2>2 DEF Link, ResponseBalance, IsResponseTerminal
<1> QED BY <1>9, <1>10, <1>12, <1>13, <1>14, <1>15, <1>16, <1>17 DEF Link, j, v, f

\* Credit for the request.
LEMMA SendRequestGrant ==
  ASSUME NEW i, NEW wi, NEW r, NEW wr, Link(i, wi, r, wr),
         r.at = "active", r.request = "open", r.requestCredit < Credit
  PROVE  Link(i, wi, [r EXCEPT !.requestCredit = @ + 1], Append(wr, Grant("request", Opposite(i.initiator))))
<1> DEFINE side == i.initiator
           f == Grant("request", Opposite(side))
           j == [r EXCEPT !.requestCredit = @ + 1]
           v == Append(wr, f)
<1>1. /\ Sound(i) /\ Sound(r) /\ r.initiator = side /\ side \in Sides
      /\ wi \in Seq(InitiatorFrames(side)) /\ wr \in Seq(ResponderFrames(Opposite(side)))
      /\ f \in ResponderFrames(Opposite(side)) /\ f.type = "window_update"
  BY StreamType DEF Link, Wires, InitiatorFrames, ResponderFrames, Frame, Grant
<1>2. /\ Sound(j)
      /\ j.at = r.at /\ j.request = r.request /\ j.response = r.response
  BY <1>1, StreamType, SMTT(30) DEF Sound, Streams, IsResponseTerminal
<1>3. j.initiator = side /\ j.requestCredit = r.requestCredit + 1 /\ j.responseCredit = r.responseCredit
  BY <1>1 DEF Sound, Streams, Started, Closed, Unstarted
<1>4. /\ v \in Seq(ResponderFrames(Opposite(side))) /\ v # <<>>
      /\ DOMAIN wr = 1..Len(wr) /\ Len(wr) \in Nat /\ DOMAIN v = 1..(Len(wr) + 1)
      /\ \A k \in DOMAIN wr : v[k] = wr[k]
      /\ v[Len(wr) + 1] = f
  BY <1>1, Appended
<1>5. \A e : Count(v, e) = Count(wr, e) + (IF f = e THEN 1 ELSE 0)
  BY <1>1, CountAppend
<1>6. /\ Count(wi, Frame("request_chunk", side)) \in Nat
      /\ Count(wi, Grant("response", side)) \in Nat
      /\ Count(wr, Frame("response_chunk", Opposite(side))) \in Nat
      /\ Count(wr, Grant("request", Opposite(side))) \in Nat
      /\ i.requestCredit \in Nat /\ i.responseCredit \in Nat
      /\ r.requestCredit \in Nat /\ r.responseCredit \in Nat
      /\ j.requestCredit \in Nat /\ j.responseCredit \in Nat
  BY <1>1, <1>2, PositionsFinite, StreamType
<1>7. Count(v, Grant("request", Opposite(side))) = Count(wr, Grant("request", Opposite(side))) + 1
  BY <1>5, <1>6 DEF Frame, Grant
<1>8. Count(v, Frame("response_chunk", Opposite(side))) = Count(wr, Frame("response_chunk", Opposite(side)))
  BY <1>5, <1>6 DEF Frame, Grant
<1> HIDE DEF j, v, f
<1>9. Wires(i, wi, j, v)
  BY <1>1, <1>2, <1>4, <1>3 DEF Wires
<1>10. Opening(i, wi, j, v)
  BY <1>1, <1>2, <1>4 DEF Link, Opening
<1>11. \A k \in DOMAIN v : (k \in DOMAIN wr /\ v[k] = wr[k]) \/ (k = Len(wr) + 1 /\ v[k] = f)
  BY <1>4
<1>12. RequestFrames(wi)
  BY DEF Link
<1>13. RequestOrder(i, wi, j)
  BY <1>2 DEF Link, RequestOrder
<1>14. ResponseFrames(v)
  <2>1. SUFFICES ASSUME NEW k \in DOMAIN v, NEW l \in DOMAIN v, k < l
                 PROVE  ResponsePair(v[k].type, v[l].type)
    BY DEF ResponseFrames
  <2>2. k \in DOMAIN wr /\ v[k] = wr[k]
    BY <1>4, <1>11, <2>1
  <2>3. CASE l \in DOMAIN wr /\ v[l] = wr[l]
    BY <2>1, <2>2, <2>3 DEF Link, ResponseFrames
  <2>4. CASE v[l] = f
    BY <1>1, <1>2, <2>2, <2>4 DEF Link, ResponseOrder, ResponsePair, IsResponseTerminal
  <2> QED BY <1>11, <2>3, <2>4
<1>15. ResponseOrder(i, j, v)
  <2>1. ResponseOrder(i, r, wr)
    BY DEF Link
  <2>2. ASSUME i.response = "none", NEW k \in DOMAIN v, v[k].type \in {"response_chunk", "response_end"}
        PROVE  \E l \in DOMAIN v : l < k /\ v[l].type = "response_start"
    <3>1. PICK l \in DOMAIN wr : l < k /\ wr[l].type = "response_start"
      BY <1>1, <1>4, <1>11, <2>1, <2>2 DEF ResponseOrder
    <3> QED BY <1>4, <3>1
  <2>3. ASSUME j.response = "none"
        PROVE  i.response = "none" /\ \A k \in DOMAIN v : v[k].type = "window_update"
    BY <1>1, <1>2, <1>11, <2>1, <2>3 DEF ResponseOrder
  <2>4. ASSUME j.response = "open"
        PROVE  /\ ~IsResponseTerminal(i)
               /\ \A k \in DOMAIN v : v[k].type \notin {"response_end", "response_error"}
    BY <1>1, <1>2, <1>11, <2>1, <2>4 DEF ResponseOrder, IsResponseTerminal
  <2>5. ASSUME j.response = "open", i.response = "none"
        PROVE  \E k \in DOMAIN v : v[k].type = "response_start"
    BY <1>1, <1>2, <1>4, <2>1, <2>5 DEF ResponseOrder
  <2>6. ASSUME i.response = "open"
        PROVE  \A k \in DOMAIN v : v[k].type # "response_start"
    BY <1>1, <1>11, <2>1, <2>6 DEF ResponseOrder
  <2>7. ASSUME IsResponseTerminal(i)
        PROVE  \A k \in DOMAIN v : v[k].type = "window_update"
    BY <1>1, <1>2, <1>11, <2>1, <2>7 DEF ResponseOrder, IsResponseTerminal
  <2> QED BY <2>2, <2>3, <2>4, <2>5, <2>6, <2>7 DEF ResponseOrder
<1>16. RequestBalance(i, wi, j, v)
  <2>1. RequestSum(i, wi, v) = RequestSum(i, wi, wr) + 1
    BY <1>6, <1>7, <1>3 DEF RequestSum
  <2>2. RequestSum(i, wi, wr) \in Nat
    BY <1>6 DEF RequestSum
  <2> QED BY <1>2, <1>6, <1>3, <2>1, <2>2 DEF Link, RequestBalance
<1>17. ResponseBalance(i, wi, j, v)
  <2>1. ResponseSum(i, wi, j, v) = ResponseSum(i, wi, r, wr)
    BY <1>6, <1>8, <1>3 DEF ResponseSum
  <2>2. ResponseSum(i, wi, r, wr) \in Nat
    BY <1>6 DEF ResponseSum
  <2> QED BY <1>2, <1>6, <1>3, <2>1, <2>2 DEF Link, ResponseBalance, IsResponseTerminal
<1> QED BY <1>9, <1>10, <1>12, <1>13, <1>14, <1>15, <1>16, <1>17 DEF Link, j, v, f

-----------------------------------------------------------------------------
(* A frame an end reads is one its copy allows, and the link goes on.      *)

\* The sums when the other end has read the first frame of the request's wire, j
\* being its copy then.
LEMMA FirstOfRequest ==
  ASSUME NEW i, NEW wi, NEW r, NEW wr, Link(i, wi, r, wr),
         wi # <<>>, NEW j
  PROVE  /\ i.requestCredit \in Nat /\ i.responseCredit \in Nat
         /\ r.requestCredit \in Nat /\ r.responseCredit \in Nat
         /\ RequestSum(i, wi, wr) \in Nat /\ RequestSum(i, wi, wr) <= r.requestCredit
         /\ ResponseSum(i, wi, r, wr) \in Nat /\ ResponseSum(i, wi, r, wr) <= i.responseCredit
         /\ Head(wi) # Frame("request_chunk", i.initiator) => RequestSum(i, Tail(wi), wr) = RequestSum(i, wi, wr)
         /\ Head(wi) = Frame("request_chunk", i.initiator) => RequestSum(i, Tail(wi), wr) = RequestSum(i, wi, wr) - 1 /\ RequestSum(i, wi, wr) > 0
         /\ Head(wi) = Grant("response", i.initiator) => ResponseSum(i, wi, r, wr) > r.responseCredit
         /\ Head(wi) = Grant("response", i.initiator) /\ j.responseCredit = r.responseCredit + 1 => ResponseSum(i, Tail(wi), j, wr) = ResponseSum(i, wi, r, wr)
         /\ Head(wi) = Grant("response", i.initiator) /\ j.responseCredit = r.responseCredit => ResponseSum(i, Tail(wi), j, wr) = ResponseSum(i, wi, r, wr) - 1
         /\ Head(wi) # Grant("response", i.initiator) /\ j.responseCredit = r.responseCredit => ResponseSum(i, Tail(wi), j, wr) = ResponseSum(i, wi, r, wr)
<1> DEFINE side == i.initiator
           v == Tail(wi)
           C == Frame("request_chunk", i.initiator)
           G == Grant("response", i.initiator)
           chunks == Count(wi, Frame("request_chunk", side))
           grants == Count(wr, Grant("request", Opposite(side)))
           answers == Count(wr, Frame("response_chunk", Opposite(side)))
           credits == Count(wi, Grant("response", side))
           chunksLeft == Count(v, C)
           grantsLeft == Count(v, G)
<1>1. /\ Sound(i) /\ Sound(r) /\ r.initiator = side
      /\ wi \in Seq(InitiatorFrames(side)) /\ wr \in Seq(ResponderFrames(Opposite(side)))
  BY DEF Link, Wires
<1>2. v \in Seq(InitiatorFrames(side))
  BY <1>1, Shortened
<1>3. /\ chunks \in Nat /\ grants \in Nat /\ answers \in Nat /\ credits \in Nat
      /\ chunksLeft \in Nat /\ grantsLeft \in Nat
  BY <1>1, <1>2, PositionsFinite
<1>4. /\ chunks = chunksLeft + (IF Head(wi) = C THEN 1 ELSE 0)
      /\ credits = grantsLeft + (IF Head(wi) = G THEN 1 ELSE 0)
  BY <1>1, CountTail
<1>5. /\ RequestSum(i, wi, wr) = i.requestCredit + chunks + grants
      /\ ResponseSum(i, wi, r, wr) = r.responseCredit + answers + credits
      /\ RequestSum(i, v, wr) = i.requestCredit + chunksLeft + grants
      /\ ResponseSum(i, v, j, wr) = j.responseCredit + answers + grantsLeft
  BY DEF RequestSum, ResponseSum
<1>6. /\ i.requestCredit \in Nat /\ i.responseCredit \in Nat
      /\ r.requestCredit \in Nat /\ r.responseCredit \in Nat
  BY <1>1, StreamType
<1>7. /\ RequestSum(i, wi, wr) <= r.requestCredit
      /\ ResponseSum(i, wi, r, wr) <= i.responseCredit
  BY DEF Link, RequestBalance, ResponseBalance
<1> HIDE DEF side, v, C, G, chunks, grants, answers, credits, chunksLeft, grantsLeft
<1>8. /\ i.requestCredit + chunks + grants \in Nat
      /\ r.responseCredit + answers + credits \in Nat
  BY <1>3, <1>6
<1>9. /\ RequestSum(i, wi, wr) \in Nat /\ ResponseSum(i, wi, r, wr) \in Nat
  BY <1>5, <1>8, Zenon
<1>10. ASSUME Head(wi) # C
       PROVE  RequestSum(i, v, wr) = RequestSum(i, wi, wr)
  <2>1. chunks = chunksLeft
    BY <1>3, <1>4, <1>10
  <2> QED BY <1>5, <2>1, Zenon
<1>11. ASSUME Head(wi) = C
       PROVE  RequestSum(i, v, wr) = RequestSum(i, wi, wr) - 1 /\ RequestSum(i, wi, wr) > 0
  <2>1. chunks = chunksLeft + 1
    BY <1>4, <1>11
  <2>2. i.requestCredit + chunksLeft + grants = (i.requestCredit + chunks + grants) - 1
    BY <1>3, <1>6, <2>1
  <2>3. i.requestCredit + chunks + grants > 0
    BY <1>3, <1>6, <2>1
  <2> QED BY <1>5, <2>2, <2>3, Zenon
<1>12. ASSUME Head(wi) = G
       PROVE  ResponseSum(i, wi, r, wr) > r.responseCredit
  <2>1. credits = grantsLeft + 1
    BY <1>4, <1>12
  <2>2. r.responseCredit + answers + credits > r.responseCredit
    BY <1>3, <1>6, <2>1
  <2> QED BY <1>5, <2>2, Zenon
<1>13. ASSUME Head(wi) = G, j.responseCredit = r.responseCredit + 1
       PROVE  ResponseSum(i, v, j, wr) = ResponseSum(i, wi, r, wr)
  <2>1. credits = grantsLeft + 1
    BY <1>4, <1>13
  <2>2. j.responseCredit + answers + grantsLeft = r.responseCredit + answers + credits
    <3> DEFINE x == r.responseCredit
               y == j.responseCredit
    <3>1. x \in Nat /\ answers \in Nat /\ grantsLeft \in Nat /\ y = x + 1 /\ credits = grantsLeft + 1
      BY <1>3, <1>6, <1>13, <2>1
    <3> HIDE DEF x, y
    <3>2. y + answers + grantsLeft = x + answers + credits
      BY <3>1
    <3> QED BY <3>2 DEF x, y
  <2> QED BY <1>5, <2>2, Zenon
<1>14. ASSUME Head(wi) = G, j.responseCredit = r.responseCredit
       PROVE  ResponseSum(i, v, j, wr) = ResponseSum(i, wi, r, wr) - 1
  <2>1. credits = grantsLeft + 1
    BY <1>4, <1>14
  <2>2. j.responseCredit + answers + grantsLeft = (r.responseCredit + answers + credits) - 1
    <3> DEFINE x == r.responseCredit
               y == j.responseCredit
    <3>1. x \in Nat /\ answers \in Nat /\ grantsLeft \in Nat /\ y = x /\ credits = grantsLeft + 1
      BY <1>3, <1>6, <1>14, <2>1
    <3> HIDE DEF x, y
    <3>2. y + answers + grantsLeft = (x + answers + credits) - 1
      BY <3>1
    <3> QED BY <3>2 DEF x, y
  <2> QED BY <1>5, <2>2, Zenon
<1>15. ASSUME Head(wi) # G, j.responseCredit = r.responseCredit
       PROVE  ResponseSum(i, v, j, wr) = ResponseSum(i, wi, r, wr)
  <2>1. credits = grantsLeft
    BY <1>3, <1>4, <1>15
  <2> QED BY <1>5, <1>15, <2>1, Zenon
<1> QED BY <1>6, <1>7, <1>9, <1>10, <1>11, <1>12, <1>13, <1>14, <1>15 DEF v, C, G

\* The same of the response's wire, whose reader is the initiator.
LEMMA FirstOfResponse ==
  ASSUME NEW i, NEW wi, NEW r, NEW wr, Link(i, wi, r, wr),
         wr # <<>>, NEW j, j.initiator = i.initiator
  PROVE  /\ i.requestCredit \in Nat /\ i.responseCredit \in Nat
         /\ r.requestCredit \in Nat /\ r.responseCredit \in Nat
         /\ RequestSum(i, wi, wr) \in Nat /\ RequestSum(i, wi, wr) <= r.requestCredit
         /\ ResponseSum(i, wi, r, wr) \in Nat /\ ResponseSum(i, wi, r, wr) <= i.responseCredit
         /\ Head(wr) # Frame("response_chunk", Opposite(i.initiator)) => ResponseSum(j, wi, r, Tail(wr)) = ResponseSum(i, wi, r, wr)
         /\ Head(wr) = Frame("response_chunk", Opposite(i.initiator)) => ResponseSum(j, wi, r, Tail(wr)) = ResponseSum(i, wi, r, wr) - 1 /\ ResponseSum(i, wi, r, wr) > 0
         /\ Head(wr) = Grant("request", Opposite(i.initiator)) => RequestSum(i, wi, wr) > i.requestCredit
         /\ Head(wr) = Grant("request", Opposite(i.initiator)) /\ j.requestCredit = i.requestCredit + 1 => RequestSum(j, wi, Tail(wr)) = RequestSum(i, wi, wr)
         /\ Head(wr) = Grant("request", Opposite(i.initiator)) /\ j.requestCredit = i.requestCredit => RequestSum(j, wi, Tail(wr)) = RequestSum(i, wi, wr) - 1
         /\ Head(wr) # Grant("request", Opposite(i.initiator)) /\ j.requestCredit = i.requestCredit => RequestSum(j, wi, Tail(wr)) = RequestSum(i, wi, wr)
<1> DEFINE side == i.initiator
           v == Tail(wr)
           C == Frame("response_chunk", Opposite(i.initiator))
           G == Grant("request", Opposite(i.initiator))
           chunks == Count(wi, Frame("request_chunk", side))
           grants == Count(wr, Grant("request", Opposite(side)))
           answers == Count(wr, Frame("response_chunk", Opposite(side)))
           credits == Count(wi, Grant("response", side))
           chunksLeft == Count(v, C)
           grantsLeft == Count(v, G)
<1>1. /\ Sound(i) /\ Sound(r) /\ r.initiator = side
      /\ wi \in Seq(InitiatorFrames(side)) /\ wr \in Seq(ResponderFrames(Opposite(side)))
  BY DEF Link, Wires
<1>2. v \in Seq(ResponderFrames(Opposite(side)))
  BY <1>1, Shortened
<1>3. /\ chunks \in Nat /\ grants \in Nat /\ answers \in Nat /\ credits \in Nat
      /\ chunksLeft \in Nat /\ grantsLeft \in Nat
  BY <1>1, <1>2, PositionsFinite
<1>4. /\ answers = chunksLeft + (IF Head(wr) = C THEN 1 ELSE 0)
      /\ grants = grantsLeft + (IF Head(wr) = G THEN 1 ELSE 0)
  BY <1>1, CountTail
<1>5. /\ RequestSum(i, wi, wr) = i.requestCredit + chunks + grants
      /\ ResponseSum(i, wi, r, wr) = r.responseCredit + answers + credits
      /\ ResponseSum(j, wi, r, v) = r.responseCredit + chunksLeft + credits
      /\ RequestSum(j, wi, v) = j.requestCredit + chunks + grantsLeft
  BY DEF RequestSum, ResponseSum
<1>6. /\ i.requestCredit \in Nat /\ i.responseCredit \in Nat
      /\ r.requestCredit \in Nat /\ r.responseCredit \in Nat
  BY <1>1, StreamType
<1>7. /\ RequestSum(i, wi, wr) <= r.requestCredit
      /\ ResponseSum(i, wi, r, wr) <= i.responseCredit
  BY DEF Link, RequestBalance, ResponseBalance
<1> HIDE DEF side, v, C, G, chunks, grants, answers, credits, chunksLeft, grantsLeft
<1>8. /\ r.responseCredit + answers + credits \in Nat
      /\ i.requestCredit + chunks + grants \in Nat
  BY <1>3, <1>6
<1>9. /\ RequestSum(i, wi, wr) \in Nat /\ ResponseSum(i, wi, r, wr) \in Nat
  BY <1>5, <1>8, Zenon
<1>10. ASSUME Head(wr) # C
       PROVE  ResponseSum(j, wi, r, v) = ResponseSum(i, wi, r, wr)
  <2>1. answers = chunksLeft
    BY <1>3, <1>4, <1>10
  <2> QED BY <1>5, <2>1, Zenon
<1>11. ASSUME Head(wr) = C
       PROVE  ResponseSum(j, wi, r, v) = ResponseSum(i, wi, r, wr) - 1 /\ ResponseSum(i, wi, r, wr) > 0
  <2>1. answers = chunksLeft + 1
    BY <1>4, <1>11
  <2>2. r.responseCredit + chunksLeft + credits = (r.responseCredit + answers + credits) - 1
    BY <1>3, <1>6, <2>1
  <2>3. r.responseCredit + answers + credits > 0
    BY <1>3, <1>6, <2>1
  <2> QED BY <1>5, <2>2, <2>3, Zenon
<1>12. ASSUME Head(wr) = G
       PROVE  RequestSum(i, wi, wr) > i.requestCredit
  <2>1. grants = grantsLeft + 1
    BY <1>4, <1>12
  <2>2. i.requestCredit + chunks + grants > i.requestCredit
    BY <1>3, <1>6, <2>1
  <2> QED BY <1>5, <2>2, Zenon
<1>13. ASSUME Head(wr) = G, j.requestCredit = i.requestCredit + 1
       PROVE  RequestSum(j, wi, v) = RequestSum(i, wi, wr)
  <2>1. grants = grantsLeft + 1
    BY <1>4, <1>13
  <2>2. j.requestCredit + chunks + grantsLeft = i.requestCredit + chunks + grants
    <3> DEFINE x == i.requestCredit
               y == j.requestCredit
    <3>1. x \in Nat /\ chunks \in Nat /\ grantsLeft \in Nat /\ y = x + 1 /\ grants = grantsLeft + 1
      BY <1>3, <1>6, <1>13, <2>1
    <3> HIDE DEF x, y
    <3>2. y + chunks + grantsLeft = x + chunks + grants
      BY <3>1
    <3> QED BY <3>2 DEF x, y
  <2> QED BY <1>5, <2>2, Zenon
<1>14. ASSUME Head(wr) = G, j.requestCredit = i.requestCredit
       PROVE  RequestSum(j, wi, v) = RequestSum(i, wi, wr) - 1
  <2>1. grants = grantsLeft + 1
    BY <1>4, <1>14
  <2>2. j.requestCredit + chunks + grantsLeft = (i.requestCredit + chunks + grants) - 1
    <3> DEFINE x == i.requestCredit
               y == j.requestCredit
    <3>1. x \in Nat /\ chunks \in Nat /\ grantsLeft \in Nat /\ y = x /\ grants = grantsLeft + 1
      BY <1>3, <1>6, <1>14, <2>1
    <3> HIDE DEF x, y
    <3>2. y + chunks + grantsLeft = (x + chunks + grants) - 1
      BY <3>1
    <3> QED BY <3>2 DEF x, y
  <2> QED BY <1>5, <2>2, Zenon
<1>15. ASSUME Head(wr) # G, j.requestCredit = i.requestCredit
       PROVE  RequestSum(j, wi, v) = RequestSum(i, wi, wr)
  <2>1. grants = grantsLeft
    BY <1>3, <1>4, <1>15
  <2> QED BY <1>5, <1>15, <2>1, Zenon
<1> QED BY <1>6, <1>7, <1>9, <1>10, <1>11, <1>12, <1>13, <1>14, <1>15 DEF v, C, G

\* The order of the response's wire without its first frame.
LEMMA OrderBehind ==
  ASSUME NEW i, NEW r, NEW S, NEW wr \in Seq(S), wr # <<>>,
         ResponseOrder(i, r, wr), ResponseFrames(wr), NEW j, NEW v, v = Tail(wr),
         j.response = "none" => i.response = "none" /\ wr[1].type # "response_start",
         r.response = "none" => j.response = "none",
         r.response = "open" => ~IsResponseTerminal(j),
         j.response = "open" => i.response = "open" \/ wr[1].type # "window_update",
         IsResponseTerminal(j) =>
           IsResponseTerminal(i) \/ wr[1].type \in {"response_end", "response_error"}
  PROVE  ResponseOrder(j, r, v)
<1>1. /\ v \in Seq(S) /\ 1 \in DOMAIN wr
      /\ \A k \in DOMAIN v : k + 1 \in DOMAIN wr /\ v[k] = wr[k + 1] /\ 1 < k + 1
      /\ \A k \in DOMAIN wr : k = 1 \/ (k - 1 \in DOMAIN v /\ v[k - 1] = wr[k])
      /\ DOMAIN v \subseteq Nat /\ DOMAIN wr \subseteq Nat
  BY Shortened
<1>2. \A k \in DOMAIN v : ResponsePair(wr[1].type, v[k].type)
  BY <1>1 DEF ResponseFrames
<1>3. ASSUME j.response = "none", NEW k \in DOMAIN v, v[k].type \in {"response_chunk", "response_end"}
      PROVE  \E l \in DOMAIN v : l < k /\ v[l].type = "response_start"
  <2>1. PICK l \in DOMAIN wr : l < k + 1 /\ wr[l].type = "response_start"
    BY <1>1, <1>3 DEF ResponseOrder
  <2>2. l # 1
    BY <1>3, <2>1
  <2>3. l - 1 \in DOMAIN v /\ v[l - 1] = wr[l] /\ l - 1 < k
    BY <1>1, <2>1, <2>2
  <2> QED BY <2>1, <2>3
<1>4. ASSUME r.response = "none"
      PROVE  j.response = "none" /\ \A k \in DOMAIN v : v[k].type = "window_update"
  BY <1>1, <1>4 DEF ResponseOrder
<1>5. ASSUME r.response = "open"
      PROVE  /\ ~IsResponseTerminal(j)
             /\ \A k \in DOMAIN v : v[k].type \notin {"response_end", "response_error"}
  BY <1>1, <1>5 DEF ResponseOrder
<1>6. ASSUME r.response = "open", j.response = "none"
      PROVE  \E k \in DOMAIN v : v[k].type = "response_start"
  <2>1. PICK l \in DOMAIN wr : wr[l].type = "response_start"
    BY <1>6 DEF ResponseOrder
  <2>2. l # 1
    BY <1>6, <2>1
  <2> QED BY <1>1, <2>1, <2>2
<1>7. ASSUME j.response = "open"
      PROVE  \A k \in DOMAIN v : v[k].type # "response_start"
  BY <1>1, <1>2, <1>7 DEF ResponseOrder, ResponsePair
<1>8. ASSUME IsResponseTerminal(j)
      PROVE  \A k \in DOMAIN v : v[k].type = "window_update"
  BY <1>1, <1>2, <1>8 DEF ResponseOrder, ResponsePair
<1> QED BY <1>3, <1>4, <1>5, <1>6, <1>7, <1>8 DEF ResponseOrder

\* The start of a request finds a stream nobody has seen.
LEMMA ReadStart ==
  ASSUME NEW i, NEW wi, NEW r, NEW wr, Link(i, wi, r, wr),
         wi # <<>>, Head(wi) = Frame("request_start", i.initiator)
  PROVE  r.at = "unknown"
         /\ Link(i, Tail(wi), Started(i.initiator), wr)
<1> DEFINE side == i.initiator
           f == Frame("request_start", side)
           j == Started(i.initiator)
           v == Tail(wi)
<1>1. /\ Sound(i) /\ Sound(r) /\ r.initiator = side /\ side \in Sides
      /\ wi \in Seq(InitiatorFrames(side)) /\ wr \in Seq(ResponderFrames(Opposite(side)))
      /\ f.type = "request_start"
  BY StreamType DEF Link, Wires, Frame, Grant
<1>2. /\ v \in Seq(InitiatorFrames(side)) /\ wi[1] = f /\ 1 \in DOMAIN wi
      /\ \A k \in DOMAIN v : k + 1 \in DOMAIN wi /\ v[k] = wi[k + 1] /\ 1 < k + 1
      /\ \A k \in DOMAIN wi : k = 1 \/ (k - 1 \in DOMAIN v /\ v[k - 1] = wi[k])
      /\ DOMAIN v \subseteq Nat /\ DOMAIN wi \subseteq Nat
  BY <1>1, Shortened
<1>3. j.initiator = side /\ j.requestCredit = r.requestCredit /\ j.responseCredit = r.responseCredit
  BY <1>1, <1>2 DEF Link, Opening, Sound, Streams, Started, Unstarted, Closed
<1> HIDE DEF j
<1>4. /\ i.requestCredit \in Nat /\ i.responseCredit \in Nat
      /\ r.requestCredit \in Nat /\ r.responseCredit \in Nat
      /\ RequestSum(i, wi, wr) \in Nat /\ RequestSum(i, wi, wr) <= r.requestCredit
      /\ ResponseSum(i, wi, r, wr) \in Nat /\ ResponseSum(i, wi, r, wr) <= i.responseCredit
      /\ RequestSum(i, v, wr) = RequestSum(i, wi, wr)
      /\ ResponseSum(i, v, j, wr) = ResponseSum(i, wi, r, wr)
  <2>1. Head(wi) # Frame("request_chunk", side) /\ Head(wi) # Grant("response", side)
    BY DEF Frame, Grant
  <2> QED BY <1>1, <1>3, <2>1, FirstOfRequest
<1>5. r.at = "unknown"
  BY <1>1, <1>2, StreamType DEF Link, Opening, RequestOrder, ResponseOrder, IsResponseTerminal, ResponseStates
<1>6. /\ Sound(j)
      /\ j.at = "active" /\ j.request = "open" /\ j.response = "none" /\ r.request = "open" /\ r.response = "none"
  <2>1. j \in Streams
    BY <1>1, <1>5, StreamType DEF j, Sound, Streams, ResponseStates, RequestStates, Started, Unstarted, Closed
  <2> QED BY <1>1, <1>5, <2>1 DEF j, Sound, Streams, IsResponseTerminal, Unstarted, Started, RequestStates, ResponseStates, Closed
<1> HIDE DEF v, f
<1>7. Wires(i, v, j, wr)
  BY <1>1, <1>2, <1>3, <1>6 DEF Wires
<1>8. Opening(i, v, j, wr)
  BY <1>1, <1>2, <1>5, <1>6 DEF Link, Opening, RequestOrder, ResponseOrder, IsResponseTerminal
<1>9. RequestFrames(v)
  BY <1>2 DEF Link, RequestFrames
<1>10. \A k \in DOMAIN v : RequestPair("request_start", v[k].type)
  BY <1>1, <1>2 DEF Link, RequestFrames
<1>11. RequestOrder(i, v, j)
  BY <1>1, <1>2, <1>5, <1>6, <1>10 DEF Link, RequestOrder, RequestPair
<1>12. ResponseFrames(wr)
  BY DEF Link
<1>13. ResponseOrder(i, j, wr)
  BY <1>6 DEF Link, ResponseOrder
<1>14. RequestBalance(i, v, j, wr)
  BY <1>5, <1>3, <1>4, <1>6 DEF Link, RequestBalance
<1>15. ResponseBalance(i, v, j, wr)
  BY <1>5, <1>3, <1>4, <1>6 DEF Link, ResponseBalance, IsResponseTerminal
<1> QED BY <1>5, <1>7, <1>8, <1>9, <1>10, <1>11, <1>12, <1>13, <1>14, <1>15 DEF Link, j, v, f

\* A chunk of the request finds it not ended, and credit.
LEMMA ReadChunk ==
  ASSUME NEW i, NEW wi, NEW r, NEW wr, Link(i, wi, r, wr),
         wi # <<>>, Head(wi) = Frame("request_chunk", i.initiator)
  PROVE  r.at = "active" /\ r.request # "ended" /\ r.requestCredit > 0
         /\ Link(i, Tail(wi), [r EXCEPT !.requestCredit = @ - 1], wr)
<1> DEFINE side == i.initiator
           f == Frame("request_chunk", side)
           j == [r EXCEPT !.requestCredit = @ - 1]
           v == Tail(wi)
<1>1. /\ Sound(i) /\ Sound(r) /\ r.initiator = side /\ side \in Sides
      /\ wi \in Seq(InitiatorFrames(side)) /\ wr \in Seq(ResponderFrames(Opposite(side)))
      /\ f.type = "request_chunk"
  BY StreamType DEF Link, Wires, Frame, Grant
<1>2. /\ v \in Seq(InitiatorFrames(side)) /\ wi[1] = f /\ 1 \in DOMAIN wi
      /\ \A k \in DOMAIN v : k + 1 \in DOMAIN wi /\ v[k] = wi[k + 1] /\ 1 < k + 1
      /\ \A k \in DOMAIN wi : k = 1 \/ (k - 1 \in DOMAIN v /\ v[k - 1] = wi[k])
      /\ DOMAIN v \subseteq Nat /\ DOMAIN wi \subseteq Nat
  BY <1>1, Shortened
<1>3. j.initiator = side /\ j.requestCredit = r.requestCredit - 1 /\ j.responseCredit = r.responseCredit
  BY <1>1 DEF Sound, Streams, Started, Unstarted, Closed
<1> HIDE DEF j
<1>4. /\ i.requestCredit \in Nat /\ i.responseCredit \in Nat
      /\ r.requestCredit \in Nat /\ r.responseCredit \in Nat
      /\ RequestSum(i, wi, wr) \in Nat /\ RequestSum(i, wi, wr) <= r.requestCredit
      /\ ResponseSum(i, wi, r, wr) \in Nat /\ ResponseSum(i, wi, r, wr) <= i.responseCredit
      /\ RequestSum(i, v, wr) = RequestSum(i, wi, wr) - 1
      /\ ResponseSum(i, v, j, wr) = ResponseSum(i, wi, r, wr)
      /\ RequestSum(i, wi, wr) > 0
  <2>1. Head(wi) = Frame("request_chunk", side) /\ Head(wi) # Grant("response", side)
    BY DEF Frame, Grant
  <2> QED BY <1>1, <1>3, <2>1, FirstOfRequest
<1>5. r.at = "active" /\ r.request # "ended" /\ r.requestCredit > 0
  <2>1. /\ r.request # "ended" /\ r.request # "cancelled" /\ r.at # "unknown"
    BY <1>1, <1>2 DEF Link, Opening, RequestOrder
  <2>2. r.at = "active"
    BY <1>1, <2>1, StreamType DEF Link, Opening
  <2> QED BY <1>4, <2>1, <2>2
<1>6. /\ Sound(j)
      /\ j.at = r.at /\ j.request = r.request /\ j.response = r.response
  <2>1. j \in Streams
    <3>1. j.requestCredit \in 0..Credit /\ j.responseCredit \in 0..Credit
      BY <1>1, <1>3, <1>5, StreamType
    <3> QED BY <1>1, <3>1 DEF j, Sound, Streams
  <2> QED BY <1>1, <1>5, <2>1 DEF j, Sound, Streams, IsResponseTerminal
<1> HIDE DEF v, f
<1>7. Wires(i, v, j, wr)
  BY <1>1, <1>2, <1>3, <1>6 DEF Wires
<1>8. Opening(i, v, j, wr)
  BY <1>1, <1>2, <1>5, <1>6 DEF Link, Opening, RequestOrder, ResponseOrder, IsResponseTerminal
<1>9. RequestFrames(v)
  BY <1>2 DEF Link, RequestFrames
<1>10. \A k \in DOMAIN v : RequestPair("request_chunk", v[k].type)
  BY <1>1, <1>2 DEF Link, RequestFrames
<1>11. RequestOrder(i, v, j)
  BY <1>1, <1>2, <1>5, <1>6, <1>10 DEF Link, RequestOrder, RequestPair
<1>12. ResponseFrames(wr)
  BY DEF Link
<1>13. ResponseOrder(i, j, wr)
  BY <1>6 DEF Link, ResponseOrder
<1>14. RequestBalance(i, v, j, wr)
  BY <1>5, <1>3, <1>4, <1>6 DEF Link, RequestBalance
<1>15. ResponseBalance(i, v, j, wr)
  BY <1>5, <1>3, <1>4, <1>6 DEF Link, ResponseBalance, IsResponseTerminal
<1> QED BY <1>5, <1>7, <1>8, <1>9, <1>10, <1>11, <1>12, <1>13, <1>14, <1>15 DEF Link, j, v, f

\* The end of a request finds it not ended.
LEMMA ReadEnd ==
  ASSUME NEW i, NEW wi, NEW r, NEW wr, Link(i, wi, r, wr),
         wi # <<>>, Head(wi) = Frame("request_end", i.initiator)
  PROVE  r.at = "active" /\ r.request \in {"open", "response_closed"} /\ i.request \in {"ended", "cancelled"}
         /\ Link(i, Tail(wi), [r EXCEPT !.request = "ended"], wr)
<1> DEFINE side == i.initiator
           f == Frame("request_end", side)
           j == [r EXCEPT !.request = "ended"]
           v == Tail(wi)
<1>1. /\ Sound(i) /\ Sound(r) /\ r.initiator = side /\ side \in Sides
      /\ wi \in Seq(InitiatorFrames(side)) /\ wr \in Seq(ResponderFrames(Opposite(side)))
      /\ f.type = "request_end"
  BY StreamType DEF Link, Wires, Frame, Grant
<1>2. /\ v \in Seq(InitiatorFrames(side)) /\ wi[1] = f /\ 1 \in DOMAIN wi
      /\ \A k \in DOMAIN v : k + 1 \in DOMAIN wi /\ v[k] = wi[k + 1] /\ 1 < k + 1
      /\ \A k \in DOMAIN wi : k = 1 \/ (k - 1 \in DOMAIN v /\ v[k - 1] = wi[k])
      /\ DOMAIN v \subseteq Nat /\ DOMAIN wi \subseteq Nat
  BY <1>1, Shortened
<1>3. j.initiator = side /\ j.requestCredit = r.requestCredit /\ j.responseCredit = r.responseCredit
  BY <1>1 DEF Sound, Streams, Started, Unstarted, Closed
<1> HIDE DEF j
<1>4. /\ i.requestCredit \in Nat /\ i.responseCredit \in Nat
      /\ r.requestCredit \in Nat /\ r.responseCredit \in Nat
      /\ RequestSum(i, wi, wr) \in Nat /\ RequestSum(i, wi, wr) <= r.requestCredit
      /\ ResponseSum(i, wi, r, wr) \in Nat /\ ResponseSum(i, wi, r, wr) <= i.responseCredit
      /\ RequestSum(i, v, wr) = RequestSum(i, wi, wr)
      /\ ResponseSum(i, v, j, wr) = ResponseSum(i, wi, r, wr)
  <2>1. Head(wi) # Frame("request_chunk", side) /\ Head(wi) # Grant("response", side)
    BY DEF Frame, Grant
  <2> QED BY <1>1, <1>3, <2>1, FirstOfRequest
<1>5. r.at = "active" /\ r.request \in {"open", "response_closed"} /\ i.request \in {"ended", "cancelled"}
  <2>1. /\ r.request # "ended" /\ r.request # "cancelled" /\ r.at # "unknown"
        /\ i.request \notin {"open", "response_closed"}
    BY <1>1, <1>2 DEF Link, Opening, RequestOrder
  <2>2. r.at = "active"
    BY <1>1, <2>1, StreamType DEF Link, Opening
  <2> QED BY <1>1, <2>1, <2>2, StreamType DEF RequestStates
<1>6. /\ Sound(j)
      /\ j.at = r.at /\ j.response = r.response
      /\ j.request = "ended"
  <2>1. j \in Streams
    BY <1>1, <1>5, StreamType DEF j, Sound, Streams, ResponseStates, RequestStates, Started, Unstarted, Closed
  <2> QED BY <1>1, <1>5, <2>1 DEF j, Sound, Streams, IsResponseTerminal, Unstarted, Started, RequestStates, ResponseStates, Closed
<1> HIDE DEF v, f
<1>7. Wires(i, v, j, wr)
  BY <1>1, <1>2, <1>3, <1>6 DEF Wires
<1>8. Opening(i, v, j, wr)
  BY <1>1, <1>2, <1>5, <1>6 DEF Link, Opening, RequestOrder, ResponseOrder, IsResponseTerminal
<1>9. RequestFrames(v)
  BY <1>2 DEF Link, RequestFrames
<1>10. \A k \in DOMAIN v : RequestPair("request_end", v[k].type)
  BY <1>1, <1>2 DEF Link, RequestFrames
<1>11. RequestOrder(i, v, j)
  BY <1>1, <1>2, <1>5, <1>6, <1>10 DEF Link, RequestOrder, RequestPair
<1>12. ResponseFrames(wr)
  BY DEF Link
<1>13. ResponseOrder(i, j, wr)
  BY <1>6 DEF Link, ResponseOrder
<1>14. RequestBalance(i, v, j, wr)
  BY <1>5, <1>3, <1>4, <1>6 DEF Link, RequestBalance
<1>15. ResponseBalance(i, v, j, wr)
  BY <1>5, <1>3, <1>4, <1>6 DEF Link, ResponseBalance, IsResponseTerminal
<1> QED BY <1>5, <1>7, <1>8, <1>9, <1>10, <1>11, <1>12, <1>13, <1>14, <1>15 DEF Link, j, v, f

\* A cancellation finds a request that was not cancelled before.
LEMMA ReadCancel ==
  ASSUME NEW i, NEW wi, NEW r, NEW wr, Link(i, wi, r, wr),
         wi # <<>>, Head(wi) = Frame("request_cancel", i.initiator),
         ~IsResponseTerminal(r)
  PROVE  r.at = "active" /\ r.request # "cancelled" /\ i.request = "cancelled"
         /\ Link(i, Tail(wi), [r EXCEPT !.cancelled = TRUE, !.request = "cancelled"], wr)
<1> DEFINE side == i.initiator
           f == Frame("request_cancel", side)
           j == [r EXCEPT !.cancelled = TRUE, !.request = "cancelled"]
           v == Tail(wi)
<1>1. /\ Sound(i) /\ Sound(r) /\ r.initiator = side /\ side \in Sides
      /\ wi \in Seq(InitiatorFrames(side)) /\ wr \in Seq(ResponderFrames(Opposite(side)))
      /\ f.type = "request_cancel"
  BY StreamType DEF Link, Wires, Frame, Grant
<1>2. /\ v \in Seq(InitiatorFrames(side)) /\ wi[1] = f /\ 1 \in DOMAIN wi
      /\ \A k \in DOMAIN v : k + 1 \in DOMAIN wi /\ v[k] = wi[k + 1] /\ 1 < k + 1
      /\ \A k \in DOMAIN wi : k = 1 \/ (k - 1 \in DOMAIN v /\ v[k - 1] = wi[k])
      /\ DOMAIN v \subseteq Nat /\ DOMAIN wi \subseteq Nat
  BY <1>1, Shortened
<1>3. j.initiator = side /\ j.requestCredit = r.requestCredit /\ j.responseCredit = r.responseCredit
  BY <1>1 DEF Sound, Streams, Started, Unstarted, Closed
<1> HIDE DEF j
<1>4. /\ i.requestCredit \in Nat /\ i.responseCredit \in Nat
      /\ r.requestCredit \in Nat /\ r.responseCredit \in Nat
      /\ RequestSum(i, wi, wr) \in Nat /\ RequestSum(i, wi, wr) <= r.requestCredit
      /\ ResponseSum(i, wi, r, wr) \in Nat /\ ResponseSum(i, wi, r, wr) <= i.responseCredit
      /\ RequestSum(i, v, wr) = RequestSum(i, wi, wr)
      /\ ResponseSum(i, v, j, wr) = ResponseSum(i, wi, r, wr)
  <2>1. Head(wi) # Frame("request_chunk", side) /\ Head(wi) # Grant("response", side)
    BY DEF Frame, Grant
  <2> QED BY <1>1, <1>3, <2>1, FirstOfRequest
<1>5. r.at = "active" /\ r.request # "cancelled" /\ i.request = "cancelled"
  <2>1. r.at # "unknown" /\ r.at # "removed" /\ r.request # "cancelled"
        /\ i.request \notin {"open", "response_closed", "ended"}
    BY <1>1, <1>2 DEF Link, Opening, RequestOrder, Sound
  <2> QED BY <1>1, <2>1, StreamType DEF RequestStates
<1>6. /\ Sound(j)
      /\ j.at = r.at /\ j.response = r.response
      /\ j.request = "cancelled"
  <2>1. j \in Streams
    BY <1>1, <1>5, StreamType DEF j, Sound, Streams, ResponseStates, RequestStates, Started, Unstarted, Closed
  <2> QED BY <1>1, <1>5, <2>1 DEF j, Sound, Streams, IsResponseTerminal, Unstarted, Started, RequestStates, ResponseStates, Closed
<1> HIDE DEF v, f
<1>7. Wires(i, v, j, wr)
  BY <1>1, <1>2, <1>3, <1>6 DEF Wires
<1>8. Opening(i, v, j, wr)
  BY <1>1, <1>2, <1>5, <1>6 DEF Link, Opening, RequestOrder, ResponseOrder, IsResponseTerminal
<1>9. RequestFrames(v)
  BY <1>2 DEF Link, RequestFrames
<1>10. \A k \in DOMAIN v : RequestPair("request_cancel", v[k].type)
  BY <1>1, <1>2 DEF Link, RequestFrames
<1>11. RequestOrder(i, v, j)
  BY <1>1, <1>2, <1>5, <1>6, <1>10 DEF Link, RequestOrder, RequestPair
<1>12. ResponseFrames(wr)
  BY DEF Link
<1>13. ResponseOrder(i, j, wr)
  BY <1>6 DEF Link, ResponseOrder
<1>14. RequestBalance(i, v, j, wr)
  BY <1>5, <1>3, <1>4, <1>6 DEF Link, RequestBalance
<1>15. ResponseBalance(i, v, j, wr)
  BY <1>5, <1>3, <1>4, <1>6 DEF Link, ResponseBalance, IsResponseTerminal
<1> QED BY <1>5, <1>7, <1>8, <1>9, <1>10, <1>11, <1>12, <1>13, <1>14, <1>15 DEF Link, j, v, f

\* A cancellation of a request whose response is over changes nothing.
LEMMA DropCancel ==
  ASSUME NEW i, NEW wi, NEW r, NEW wr, Link(i, wi, r, wr),
         wi # <<>>, Head(wi) = Frame("request_cancel", i.initiator),
         IsResponseTerminal(r)
  PROVE  r.at # "unknown"
         /\ Link(i, Tail(wi), r, wr)
<1> DEFINE side == i.initiator
           f == Frame("request_cancel", side)
           j == r
           v == Tail(wi)
<1>1. /\ Sound(i) /\ Sound(r) /\ r.initiator = side /\ side \in Sides
      /\ wi \in Seq(InitiatorFrames(side)) /\ wr \in Seq(ResponderFrames(Opposite(side)))
      /\ f.type = "request_cancel"
  BY StreamType DEF Link, Wires, Frame, Grant
<1>2. /\ v \in Seq(InitiatorFrames(side)) /\ wi[1] = f /\ 1 \in DOMAIN wi
      /\ \A k \in DOMAIN v : k + 1 \in DOMAIN wi /\ v[k] = wi[k + 1] /\ 1 < k + 1
      /\ \A k \in DOMAIN wi : k = 1 \/ (k - 1 \in DOMAIN v /\ v[k - 1] = wi[k])
      /\ DOMAIN v \subseteq Nat /\ DOMAIN wi \subseteq Nat
  BY <1>1, Shortened
<1>3. j.initiator = side /\ j.requestCredit = r.requestCredit /\ j.responseCredit = r.responseCredit
  BY <1>1 DEF Sound, Streams, Started, Unstarted, Closed
<1> HIDE DEF j
<1>4. /\ i.requestCredit \in Nat /\ i.responseCredit \in Nat
      /\ r.requestCredit \in Nat /\ r.responseCredit \in Nat
      /\ RequestSum(i, wi, wr) \in Nat /\ RequestSum(i, wi, wr) <= r.requestCredit
      /\ ResponseSum(i, wi, r, wr) \in Nat /\ ResponseSum(i, wi, r, wr) <= i.responseCredit
      /\ RequestSum(i, v, wr) = RequestSum(i, wi, wr)
      /\ ResponseSum(i, v, j, wr) = ResponseSum(i, wi, r, wr)
  <2>1. Head(wi) # Frame("request_chunk", side) /\ Head(wi) # Grant("response", side)
    BY DEF Frame, Grant
  <2> QED BY <1>1, <1>3, <2>1, FirstOfRequest
<1>5. r.at # "unknown"
  BY <1>1, <1>2 DEF Link, Opening
<1>6. /\ Sound(j)
      /\ j.at = r.at /\ j.request = r.request /\ j.response = r.response
  <2>1. j \in Streams
    BY <1>1, <1>5, StreamType DEF j, Sound, Streams, ResponseStates, RequestStates, Started, Unstarted, Closed
  <2> QED BY <1>1, <1>5, <2>1 DEF j, Sound, Streams, IsResponseTerminal
<1> HIDE DEF v, f
<1>7. Wires(i, v, j, wr)
  BY <1>1, <1>2, <1>3, <1>6 DEF Wires
<1>8. Opening(i, v, j, wr)
  BY <1>1, <1>2, <1>5, <1>6 DEF Link, Opening, RequestOrder, ResponseOrder, IsResponseTerminal
<1>9. RequestFrames(v)
  BY <1>2 DEF Link, RequestFrames
<1>10. \A k \in DOMAIN v : RequestPair("request_cancel", v[k].type)
  BY <1>1, <1>2 DEF Link, RequestFrames
<1>11. RequestOrder(i, v, j)
  BY <1>1, <1>2, <1>5, <1>6, <1>10 DEF Link, RequestOrder, RequestPair
<1>12. ResponseFrames(wr)
  BY DEF Link
<1>13. ResponseOrder(i, j, wr)
  BY <1>6 DEF Link, ResponseOrder
<1>14. RequestBalance(i, v, j, wr)
  BY <1>5, <1>3, <1>4, <1>6 DEF Link, RequestBalance
<1>15. ResponseBalance(i, v, j, wr)
  BY <1>5, <1>3, <1>4, <1>6 DEF Link, ResponseBalance, IsResponseTerminal
<1> QED BY <1>5, <1>7, <1>8, <1>9, <1>10, <1>11, <1>12, <1>13, <1>14, <1>15 DEF Link, j, v, f

\* Credit for the response stays within the window.
LEMMA ReadResponseGrant ==
  ASSUME NEW i, NEW wi, NEW r, NEW wr, Link(i, wi, r, wr),
         wi # <<>>, Head(wi) = Grant("response", i.initiator),
         ~IsResponseTerminal(r)
  PROVE  r.at = "active" /\ r.responseCredit < Credit
         /\ Link(i, Tail(wi), [r EXCEPT !.responseCredit = @ + 1], wr)
<1> DEFINE side == i.initiator
           f == Grant("response", side)
           j == [r EXCEPT !.responseCredit = @ + 1]
           v == Tail(wi)
<1>1. /\ Sound(i) /\ Sound(r) /\ r.initiator = side /\ side \in Sides
      /\ wi \in Seq(InitiatorFrames(side)) /\ wr \in Seq(ResponderFrames(Opposite(side)))
      /\ f.type = "window_update"
  BY StreamType DEF Link, Wires, Frame, Grant
<1>2. /\ v \in Seq(InitiatorFrames(side)) /\ wi[1] = f /\ 1 \in DOMAIN wi
      /\ \A k \in DOMAIN v : k + 1 \in DOMAIN wi /\ v[k] = wi[k + 1] /\ 1 < k + 1
      /\ \A k \in DOMAIN wi : k = 1 \/ (k - 1 \in DOMAIN v /\ v[k - 1] = wi[k])
      /\ DOMAIN v \subseteq Nat /\ DOMAIN wi \subseteq Nat
  BY <1>1, Shortened
<1>3. j.initiator = side /\ j.requestCredit = r.requestCredit /\ j.responseCredit = r.responseCredit + 1
  BY <1>1 DEF Sound, Streams, Started, Unstarted, Closed
<1> HIDE DEF j
<1>4. /\ i.requestCredit \in Nat /\ i.responseCredit \in Nat
      /\ r.requestCredit \in Nat /\ r.responseCredit \in Nat
      /\ RequestSum(i, wi, wr) \in Nat /\ RequestSum(i, wi, wr) <= r.requestCredit
      /\ ResponseSum(i, wi, r, wr) \in Nat /\ ResponseSum(i, wi, r, wr) <= i.responseCredit
      /\ RequestSum(i, v, wr) = RequestSum(i, wi, wr)
      /\ ResponseSum(i, v, j, wr) = ResponseSum(i, wi, r, wr)
      /\ ResponseSum(i, wi, r, wr) > r.responseCredit
  <2>1. Head(wi) # Frame("request_chunk", side) /\ Head(wi) = Grant("response", side)
    BY DEF Frame, Grant
  <2> QED BY <1>1, <1>3, <2>1, FirstOfRequest
<1>5. r.at = "active" /\ r.responseCredit < Credit
  <2>1. r.at # "unknown" /\ r.at # "removed"
    BY <1>1, <1>2 DEF Link, Opening, Sound
  <2> QED BY <1>1, <1>4, <2>1, StreamType
<1>6. /\ Sound(j)
      /\ j.at = r.at /\ j.request = r.request /\ j.response = r.response
  <2>1. j \in Streams
    <3>1. j.requestCredit \in 0..Credit /\ j.responseCredit \in 0..Credit
      BY <1>1, <1>3, <1>5, StreamType
    <3> QED BY <1>1, <3>1 DEF j, Sound, Streams
  <2> QED BY <1>1, <1>5, <2>1 DEF j, Sound, Streams, IsResponseTerminal
<1> HIDE DEF v, f
<1>7. Wires(i, v, j, wr)
  BY <1>1, <1>2, <1>3, <1>6 DEF Wires
<1>8. Opening(i, v, j, wr)
  BY <1>1, <1>2, <1>5, <1>6 DEF Link, Opening, RequestOrder, ResponseOrder, IsResponseTerminal
<1>9. RequestFrames(v)
  BY <1>2 DEF Link, RequestFrames
<1>10. \A k \in DOMAIN v : RequestPair("window_update", v[k].type)
  BY <1>1, <1>2 DEF Link, RequestFrames
<1>11. RequestOrder(i, v, j)
  BY <1>1, <1>2, <1>5, <1>6, <1>10 DEF Link, RequestOrder, RequestPair
<1>12. ResponseFrames(wr)
  BY DEF Link
<1>13. ResponseOrder(i, j, wr)
  BY <1>6 DEF Link, ResponseOrder
<1>14. RequestBalance(i, v, j, wr)
  BY <1>5, <1>3, <1>4, <1>6 DEF Link, RequestBalance
<1>15. ResponseBalance(i, v, j, wr)
  BY <1>5, <1>3, <1>4, <1>6 DEF Link, ResponseBalance, IsResponseTerminal
<1> QED BY <1>5, <1>7, <1>8, <1>9, <1>10, <1>11, <1>12, <1>13, <1>14, <1>15 DEF Link, j, v, f

\* Credit for a response that is over changes nothing.
LEMMA DropResponseGrant ==
  ASSUME NEW i, NEW wi, NEW r, NEW wr, Link(i, wi, r, wr),
         wi # <<>>, Head(wi) = Grant("response", i.initiator),
         IsResponseTerminal(r)
  PROVE  r.at # "unknown"
         /\ Link(i, Tail(wi), r, wr)
<1> DEFINE side == i.initiator
           f == Grant("response", side)
           j == r
           v == Tail(wi)
<1>1. /\ Sound(i) /\ Sound(r) /\ r.initiator = side /\ side \in Sides
      /\ wi \in Seq(InitiatorFrames(side)) /\ wr \in Seq(ResponderFrames(Opposite(side)))
      /\ f.type = "window_update"
  BY StreamType DEF Link, Wires, Frame, Grant
<1>2. /\ v \in Seq(InitiatorFrames(side)) /\ wi[1] = f /\ 1 \in DOMAIN wi
      /\ \A k \in DOMAIN v : k + 1 \in DOMAIN wi /\ v[k] = wi[k + 1] /\ 1 < k + 1
      /\ \A k \in DOMAIN wi : k = 1 \/ (k - 1 \in DOMAIN v /\ v[k - 1] = wi[k])
      /\ DOMAIN v \subseteq Nat /\ DOMAIN wi \subseteq Nat
  BY <1>1, Shortened
<1>3. j.initiator = side /\ j.requestCredit = r.requestCredit /\ j.responseCredit = r.responseCredit
  BY <1>1 DEF Sound, Streams, Started, Unstarted, Closed
<1> HIDE DEF j
<1>4. /\ i.requestCredit \in Nat /\ i.responseCredit \in Nat
      /\ r.requestCredit \in Nat /\ r.responseCredit \in Nat
      /\ RequestSum(i, wi, wr) \in Nat /\ RequestSum(i, wi, wr) <= r.requestCredit
      /\ ResponseSum(i, wi, r, wr) \in Nat /\ ResponseSum(i, wi, r, wr) <= i.responseCredit
      /\ RequestSum(i, v, wr) = RequestSum(i, wi, wr)
      /\ ResponseSum(i, v, j, wr) = ResponseSum(i, wi, r, wr) - 1
  <2>1. Head(wi) # Frame("request_chunk", side) /\ Head(wi) = Grant("response", side)
    BY DEF Frame, Grant
  <2> QED BY <1>1, <1>3, <2>1, FirstOfRequest
<1>5. r.at # "unknown"
  BY <1>1, <1>2 DEF Link, Opening
<1>6. /\ Sound(j)
      /\ j.at = r.at /\ j.request = r.request /\ j.response = r.response
  <2>1. j \in Streams
    BY <1>1, <1>5, StreamType DEF j, Sound, Streams, ResponseStates, RequestStates, Started, Unstarted, Closed
  <2> QED BY <1>1, <1>5, <2>1 DEF j, Sound, Streams, IsResponseTerminal
<1> HIDE DEF v, f
<1>7. Wires(i, v, j, wr)
  BY <1>1, <1>2, <1>3, <1>6 DEF Wires
<1>8. Opening(i, v, j, wr)
  BY <1>1, <1>2, <1>5, <1>6 DEF Link, Opening, RequestOrder, ResponseOrder, IsResponseTerminal
<1>9. RequestFrames(v)
  BY <1>2 DEF Link, RequestFrames
<1>10. \A k \in DOMAIN v : RequestPair("window_update", v[k].type)
  BY <1>1, <1>2 DEF Link, RequestFrames
<1>11. RequestOrder(i, v, j)
  BY <1>1, <1>2, <1>5, <1>6, <1>10 DEF Link, RequestOrder, RequestPair
<1>12. ResponseFrames(wr)
  BY DEF Link
<1>13. ResponseOrder(i, j, wr)
  BY <1>6 DEF Link, ResponseOrder
<1>14. RequestBalance(i, v, j, wr)
  BY <1>5, <1>3, <1>4, <1>6 DEF Link, RequestBalance
<1>15. ResponseBalance(i, v, j, wr)
  BY <1>5, <1>3, <1>4, <1>6 DEF Link, ResponseBalance, IsResponseTerminal
<1> QED BY <1>5, <1>7, <1>8, <1>9, <1>10, <1>11, <1>12, <1>13, <1>14, <1>15 DEF Link, j, v, f

\* The start of a response finds none.
LEMMA ReadAnswer ==
  ASSUME NEW i, NEW wi, NEW r, NEW wr, Link(i, wi, r, wr),
         wr # <<>>, Head(wr) = Frame("response_start", Opposite(i.initiator))
  PROVE  i.at = "active" /\ i.response = "none" /\ r.response # "none"
         /\ Link([i EXCEPT !.response = "open"], wi, r, Tail(wr))
<1> DEFINE side == i.initiator
           f == Frame("response_start", Opposite(side))
           j == [i EXCEPT !.response = "open"]
           v == Tail(wr)
<1>1. /\ Sound(i) /\ Sound(r) /\ r.initiator = side /\ side \in Sides
      /\ wi \in Seq(InitiatorFrames(side)) /\ wr \in Seq(ResponderFrames(Opposite(side)))
      /\ f.type = "response_start"
  BY StreamType DEF Link, Wires, Frame, Grant
<1>2. /\ v \in Seq(ResponderFrames(Opposite(side))) /\ wr[1] = f /\ 1 \in DOMAIN wr
      /\ \A k \in DOMAIN v : k + 1 \in DOMAIN wr /\ v[k] = wr[k + 1] /\ 1 < k + 1
      /\ \A k \in DOMAIN wr : k = 1 \/ (k - 1 \in DOMAIN v /\ v[k - 1] = wr[k])
      /\ DOMAIN v \subseteq Nat /\ DOMAIN wr \subseteq Nat
  BY <1>1, Shortened
<1>3. j.initiator = side /\ j.requestCredit = i.requestCredit /\ j.responseCredit = i.responseCredit
  BY <1>1 DEF Sound, Streams, Started, Unstarted, Closed
<1> HIDE DEF j
<1>4. /\ i.requestCredit \in Nat /\ i.responseCredit \in Nat
      /\ r.requestCredit \in Nat /\ r.responseCredit \in Nat
      /\ RequestSum(i, wi, wr) \in Nat /\ RequestSum(i, wi, wr) <= r.requestCredit
      /\ ResponseSum(i, wi, r, wr) \in Nat /\ ResponseSum(i, wi, r, wr) <= i.responseCredit
      /\ RequestSum(j, wi, v) = RequestSum(i, wi, wr)
      /\ ResponseSum(j, wi, r, v) = ResponseSum(i, wi, r, wr)
  <2>1. Head(wr) # Frame("response_chunk", Opposite(side)) /\ Head(wr) # Grant("request", Opposite(side))
    BY DEF Frame, Grant
  <2> QED BY <1>1, <1>3, <2>1, FirstOfResponse
<1>5. i.at = "active" /\ i.response = "none" /\ r.response # "none"
  <2>1. i.at # "unknown" /\ ~IsResponseTerminal(i) /\ r.response # "none"
    BY <1>1, <1>2 DEF Link, Opening, ResponseOrder
  <2>2. i.at = "active"
    BY <1>1, <2>1, StreamType DEF Sound
  <2>3. i.response # "open"
    BY <1>1, <1>2 DEF Link, ResponseOrder
  <2> QED BY <1>1, <2>1, <2>2, <2>3, StreamType DEF ResponseStates, IsResponseTerminal
<1>6. /\ Sound(j)
      /\ j.at = i.at /\ j.request = i.request
      /\ j.response = "open"
  <2>1. j \in Streams
    BY <1>1, <1>5, StreamType DEF j, Sound, Streams, ResponseStates, RequestStates, Started, Unstarted, Closed
  <2> QED BY <1>1, <1>5, <2>1 DEF j, Sound, Streams, IsResponseTerminal
<1> HIDE DEF v, f
<1>7. Wires(j, wi, r, v)
  BY <1>1, <1>2, <1>3, <1>6 DEF Wires
<1>8. Opening(j, wi, r, v)
  BY <1>1, <1>2, <1>5, <1>6 DEF Link, Opening, RequestOrder, ResponseOrder, IsResponseTerminal
<1>9. RequestFrames(wi)
  BY DEF Link
<1>10. ResponseFrames(v)
  BY <1>2 DEF Link, ResponseFrames
<1>11. RequestOrder(j, wi, r)
  BY <1>6 DEF Link, RequestOrder
<1>12. ResponseOrder(j, r, v)
  <2>1. ResponseOrder(i, r, wr) /\ ResponseFrames(wr)
    BY DEF Link
  <2>2. /\ j.response = "none" => i.response = "none" /\ wr[1].type # "response_start"
        /\ r.response = "none" => j.response = "none"
        /\ r.response = "open" => ~IsResponseTerminal(j)
        /\ j.response = "open" => i.response = "open" \/ wr[1].type # "window_update"
        /\ IsResponseTerminal(j) =>
             IsResponseTerminal(i) \/ wr[1].type \in {"response_end", "response_error"}
    BY <1>1, <1>2, <1>5, <1>6, <2>1 DEF ResponseOrder, IsResponseTerminal
  <2> QED BY <1>1, <2>1, <2>2, OrderBehind DEF v
<1>13. RequestBalance(j, wi, r, v)
  BY <1>5, <1>3, <1>4, <1>6 DEF Link, RequestBalance
<1>14. ResponseBalance(j, wi, r, v)
  BY <1>5, <1>3, <1>4, <1>6 DEF Link, ResponseBalance, IsResponseTerminal
<1> QED BY <1>5, <1>7, <1>8, <1>9, <1>10, <1>11, <1>12, <1>13, <1>14 DEF Link, j, v, f

\* A chunk of a response finds it open, and credit.
LEMMA ReadAnswerChunk ==
  ASSUME NEW i, NEW wi, NEW r, NEW wr, Link(i, wi, r, wr),
         wr # <<>>, Head(wr) = Frame("response_chunk", Opposite(i.initiator))
  PROVE  i.at = "active" /\ i.response = "open" /\ i.responseCredit > 0
         /\ Link([i EXCEPT !.responseCredit = @ - 1], wi, r, Tail(wr))
<1> DEFINE side == i.initiator
           f == Frame("response_chunk", Opposite(side))
           j == [i EXCEPT !.responseCredit = @ - 1]
           v == Tail(wr)
<1>1. /\ Sound(i) /\ Sound(r) /\ r.initiator = side /\ side \in Sides
      /\ wi \in Seq(InitiatorFrames(side)) /\ wr \in Seq(ResponderFrames(Opposite(side)))
      /\ f.type = "response_chunk"
  BY StreamType DEF Link, Wires, Frame, Grant
<1>2. /\ v \in Seq(ResponderFrames(Opposite(side))) /\ wr[1] = f /\ 1 \in DOMAIN wr
      /\ \A k \in DOMAIN v : k + 1 \in DOMAIN wr /\ v[k] = wr[k + 1] /\ 1 < k + 1
      /\ \A k \in DOMAIN wr : k = 1 \/ (k - 1 \in DOMAIN v /\ v[k - 1] = wr[k])
      /\ DOMAIN v \subseteq Nat /\ DOMAIN wr \subseteq Nat
  BY <1>1, Shortened
<1>3. j.initiator = side /\ j.requestCredit = i.requestCredit /\ j.responseCredit = i.responseCredit - 1
  BY <1>1 DEF Sound, Streams, Started, Unstarted, Closed
<1> HIDE DEF j
<1>4. /\ i.requestCredit \in Nat /\ i.responseCredit \in Nat
      /\ r.requestCredit \in Nat /\ r.responseCredit \in Nat
      /\ RequestSum(i, wi, wr) \in Nat /\ RequestSum(i, wi, wr) <= r.requestCredit
      /\ ResponseSum(i, wi, r, wr) \in Nat /\ ResponseSum(i, wi, r, wr) <= i.responseCredit
      /\ RequestSum(j, wi, v) = RequestSum(i, wi, wr)
      /\ ResponseSum(j, wi, r, v) = ResponseSum(i, wi, r, wr) - 1
      /\ ResponseSum(i, wi, r, wr) > 0
  <2>1. Head(wr) = Frame("response_chunk", Opposite(side)) /\ Head(wr) # Grant("request", Opposite(side))
    BY DEF Frame, Grant
  <2> QED BY <1>1, <1>3, <2>1, FirstOfResponse
<1>5. i.at = "active" /\ i.response = "open" /\ i.responseCredit > 0
  <2>1. i.at # "unknown" /\ ~IsResponseTerminal(i) /\ r.response # "none"
    BY <1>1, <1>2 DEF Link, Opening, ResponseOrder
  <2>2. i.at = "active"
    BY <1>1, <2>1, StreamType DEF Sound
  <2>3. i.response # "none"
    BY <1>1, <1>2 DEF Link, ResponseOrder
  <2> QED BY <1>1, <1>4, <2>1, <2>2, <2>3, StreamType DEF ResponseStates, IsResponseTerminal
<1>6. /\ Sound(j)
      /\ j.at = i.at /\ j.request = i.request /\ j.response = i.response
  <2>1. j \in Streams
    <3>1. j.requestCredit \in 0..Credit /\ j.responseCredit \in 0..Credit
      BY <1>1, <1>3, <1>5, StreamType
    <3> QED BY <1>1, <3>1 DEF j, Sound, Streams
  <2> QED BY <1>1, <1>5, <2>1 DEF j, Sound, Streams, IsResponseTerminal
<1> HIDE DEF v, f
<1>7. Wires(j, wi, r, v)
  BY <1>1, <1>2, <1>3, <1>6 DEF Wires
<1>8. Opening(j, wi, r, v)
  BY <1>1, <1>2, <1>5, <1>6 DEF Link, Opening, RequestOrder, ResponseOrder, IsResponseTerminal
<1>9. RequestFrames(wi)
  BY DEF Link
<1>10. ResponseFrames(v)
  BY <1>2 DEF Link, ResponseFrames
<1>11. RequestOrder(j, wi, r)
  BY <1>6 DEF Link, RequestOrder
<1>12. ResponseOrder(j, r, v)
  <2>1. ResponseOrder(i, r, wr) /\ ResponseFrames(wr)
    BY DEF Link
  <2>2. /\ j.response = "none" => i.response = "none" /\ wr[1].type # "response_start"
        /\ r.response = "none" => j.response = "none"
        /\ r.response = "open" => ~IsResponseTerminal(j)
        /\ j.response = "open" => i.response = "open" \/ wr[1].type # "window_update"
        /\ IsResponseTerminal(j) =>
             IsResponseTerminal(i) \/ wr[1].type \in {"response_end", "response_error"}
    BY <1>1, <1>2, <1>5, <1>6, <2>1 DEF ResponseOrder, IsResponseTerminal
  <2> QED BY <1>1, <2>1, <2>2, OrderBehind DEF v
<1>13. RequestBalance(j, wi, r, v)
  BY <1>5, <1>3, <1>4, <1>6 DEF Link, RequestBalance
<1>14. ResponseBalance(j, wi, r, v)
  BY <1>5, <1>3, <1>4, <1>6 DEF Link, ResponseBalance, IsResponseTerminal
<1> QED BY <1>5, <1>7, <1>8, <1>9, <1>10, <1>11, <1>12, <1>13, <1>14 DEF Link, j, v, f

\* The end of a response finds it open.
LEMMA ReadAnswerEnd ==
  ASSUME NEW i, NEW wi, NEW r, NEW wr, Link(i, wi, r, wr),
         wr # <<>>, Head(wr) = Frame("response_end", Opposite(i.initiator))
  PROVE  i.at = "active" /\ i.response = "open" /\ IsResponseTerminal(r)
         /\ Link(Closed(i, "succeeded"), wi, r, Tail(wr))
<1> DEFINE side == i.initiator
           f == Frame("response_end", Opposite(side))
           j == Closed(i, "succeeded")
           v == Tail(wr)
<1>1. /\ Sound(i) /\ Sound(r) /\ r.initiator = side /\ side \in Sides
      /\ wi \in Seq(InitiatorFrames(side)) /\ wr \in Seq(ResponderFrames(Opposite(side)))
      /\ f.type = "response_end"
  BY StreamType DEF Link, Wires, Frame, Grant
<1>2. /\ v \in Seq(ResponderFrames(Opposite(side))) /\ wr[1] = f /\ 1 \in DOMAIN wr
      /\ \A k \in DOMAIN v : k + 1 \in DOMAIN wr /\ v[k] = wr[k + 1] /\ 1 < k + 1
      /\ \A k \in DOMAIN wr : k = 1 \/ (k - 1 \in DOMAIN v /\ v[k - 1] = wr[k])
      /\ DOMAIN v \subseteq Nat /\ DOMAIN wr \subseteq Nat
  BY <1>1, Shortened
<1>3. j.initiator = side /\ j.requestCredit = i.requestCredit /\ j.responseCredit = i.responseCredit
  BY <1>1 DEF Sound, Streams, Started, Unstarted, Closed
<1> HIDE DEF j
<1>4. /\ i.requestCredit \in Nat /\ i.responseCredit \in Nat
      /\ r.requestCredit \in Nat /\ r.responseCredit \in Nat
      /\ RequestSum(i, wi, wr) \in Nat /\ RequestSum(i, wi, wr) <= r.requestCredit
      /\ ResponseSum(i, wi, r, wr) \in Nat /\ ResponseSum(i, wi, r, wr) <= i.responseCredit
      /\ RequestSum(j, wi, v) = RequestSum(i, wi, wr)
      /\ ResponseSum(j, wi, r, v) = ResponseSum(i, wi, r, wr)
  <2>1. Head(wr) # Frame("response_chunk", Opposite(side)) /\ Head(wr) # Grant("request", Opposite(side))
    BY DEF Frame, Grant
  <2> QED BY <1>1, <1>3, <2>1, FirstOfResponse
<1>5. i.at = "active" /\ i.response = "open" /\ IsResponseTerminal(r)
  <2>1. i.at # "unknown" /\ ~IsResponseTerminal(i) /\ r.response # "none"
    BY <1>1, <1>2 DEF Link, Opening, ResponseOrder
  <2>2. i.at = "active"
    BY <1>1, <2>1, StreamType DEF Sound
  <2>3. i.response # "none"
    BY <1>1, <1>2 DEF Link, ResponseOrder
  <2>4. r.response # "open"
    BY <1>1, <1>2 DEF Link, ResponseOrder
  <2> QED BY <1>1, <2>1, <2>2, <2>3, <2>4, StreamType DEF ResponseStates, IsResponseTerminal
<1>6. /\ Sound(j)
      /\ j.at = i.at /\ j.response = "succeeded" /\ i.request # "response_closed"
      /\ j.request = IF i.request = "open" THEN "response_closed" ELSE i.request
  <2>1. j \in Streams
    BY <1>1, <1>5, StreamType DEF j, Sound, Streams, ResponseStates, RequestStates, Started, Unstarted, Closed
  <2> QED BY <1>1, <1>5, <2>1 DEF j, Sound, Streams, IsResponseTerminal, Unstarted, Started, RequestStates, ResponseStates, Closed
<1> HIDE DEF v, f
<1>7. Wires(j, wi, r, v)
  BY <1>1, <1>2, <1>3, <1>6 DEF Wires
<1>8. Opening(j, wi, r, v)
  BY <1>1, <1>2, <1>5, <1>6 DEF Link, Opening, RequestOrder, ResponseOrder, IsResponseTerminal
<1>9. RequestFrames(wi)
  BY DEF Link
<1>10. ResponseFrames(v)
  BY <1>2 DEF Link, ResponseFrames
<1>11. RequestOrder(j, wi, r)
  BY <1>6 DEF Link, RequestOrder
<1>12. ResponseOrder(j, r, v)
  <2>1. ResponseOrder(i, r, wr) /\ ResponseFrames(wr)
    BY DEF Link
  <2>2. /\ j.response = "none" => i.response = "none" /\ wr[1].type # "response_start"
        /\ r.response = "none" => j.response = "none"
        /\ r.response = "open" => ~IsResponseTerminal(j)
        /\ j.response = "open" => i.response = "open" \/ wr[1].type # "window_update"
        /\ IsResponseTerminal(j) =>
             IsResponseTerminal(i) \/ wr[1].type \in {"response_end", "response_error"}
    BY <1>1, <1>2, <1>5, <1>6, <2>1 DEF ResponseOrder, IsResponseTerminal
  <2> QED BY <1>1, <2>1, <2>2, OrderBehind DEF v
<1>13. RequestBalance(j, wi, r, v)
  BY <1>5, <1>3, <1>4, <1>6 DEF Link, RequestBalance
<1>14. ResponseBalance(j, wi, r, v)
  BY <1>5, <1>3, <1>4, <1>6 DEF Link, ResponseBalance, IsResponseTerminal
<1> QED BY <1>5, <1>7, <1>8, <1>9, <1>10, <1>11, <1>12, <1>13, <1>14 DEF Link, j, v, f

\* The failure of a response finds it not over.
LEMMA ReadAnswerError ==
  ASSUME NEW i, NEW wi, NEW r, NEW wr, Link(i, wi, r, wr),
         wr # <<>>, Head(wr) = Frame("response_error", Opposite(i.initiator))
  PROVE  i.at = "active" /\ i.response \in {"none", "open"} /\ IsResponseTerminal(r)
         /\ Link(Closed(i, "failed"), wi, r, Tail(wr))
<1> DEFINE side == i.initiator
           f == Frame("response_error", Opposite(side))
           j == Closed(i, "failed")
           v == Tail(wr)
<1>1. /\ Sound(i) /\ Sound(r) /\ r.initiator = side /\ side \in Sides
      /\ wi \in Seq(InitiatorFrames(side)) /\ wr \in Seq(ResponderFrames(Opposite(side)))
      /\ f.type = "response_error"
  BY StreamType DEF Link, Wires, Frame, Grant
<1>2. /\ v \in Seq(ResponderFrames(Opposite(side))) /\ wr[1] = f /\ 1 \in DOMAIN wr
      /\ \A k \in DOMAIN v : k + 1 \in DOMAIN wr /\ v[k] = wr[k + 1] /\ 1 < k + 1
      /\ \A k \in DOMAIN wr : k = 1 \/ (k - 1 \in DOMAIN v /\ v[k - 1] = wr[k])
      /\ DOMAIN v \subseteq Nat /\ DOMAIN wr \subseteq Nat
  BY <1>1, Shortened
<1>3. j.initiator = side /\ j.requestCredit = i.requestCredit /\ j.responseCredit = i.responseCredit
  BY <1>1 DEF Sound, Streams, Started, Unstarted, Closed
<1> HIDE DEF j
<1>4. /\ i.requestCredit \in Nat /\ i.responseCredit \in Nat
      /\ r.requestCredit \in Nat /\ r.responseCredit \in Nat
      /\ RequestSum(i, wi, wr) \in Nat /\ RequestSum(i, wi, wr) <= r.requestCredit
      /\ ResponseSum(i, wi, r, wr) \in Nat /\ ResponseSum(i, wi, r, wr) <= i.responseCredit
      /\ RequestSum(j, wi, v) = RequestSum(i, wi, wr)
      /\ ResponseSum(j, wi, r, v) = ResponseSum(i, wi, r, wr)
  <2>1. Head(wr) # Frame("response_chunk", Opposite(side)) /\ Head(wr) # Grant("request", Opposite(side))
    BY DEF Frame, Grant
  <2> QED BY <1>1, <1>3, <2>1, FirstOfResponse
<1>5. i.at = "active" /\ i.response \in {"none", "open"} /\ IsResponseTerminal(r)
  <2>1. i.at # "unknown" /\ ~IsResponseTerminal(i) /\ r.response # "none"
    BY <1>1, <1>2 DEF Link, Opening, ResponseOrder
  <2>2. i.at = "active"
    BY <1>1, <2>1, StreamType DEF Sound
  <2>3. r.response # "open"
    BY <1>1, <1>2 DEF Link, ResponseOrder
  <2> QED BY <1>1, <2>1, <2>2, <2>3, StreamType DEF ResponseStates, IsResponseTerminal
<1>6. /\ Sound(j)
      /\ j.at = i.at /\ j.response = "failed" /\ i.request # "response_closed"
      /\ j.request = IF i.request = "open" THEN "response_closed" ELSE i.request
  <2>1. j \in Streams
    BY <1>1, <1>5, StreamType DEF j, Sound, Streams, ResponseStates, RequestStates, Started, Unstarted, Closed
  <2> QED BY <1>1, <1>5, <2>1 DEF j, Sound, Streams, IsResponseTerminal, Unstarted, Started, RequestStates, ResponseStates, Closed
<1> HIDE DEF v, f
<1>7. Wires(j, wi, r, v)
  BY <1>1, <1>2, <1>3, <1>6 DEF Wires
<1>8. Opening(j, wi, r, v)
  BY <1>1, <1>2, <1>5, <1>6 DEF Link, Opening, RequestOrder, ResponseOrder, IsResponseTerminal
<1>9. RequestFrames(wi)
  BY DEF Link
<1>10. ResponseFrames(v)
  BY <1>2 DEF Link, ResponseFrames
<1>11. RequestOrder(j, wi, r)
  BY <1>6 DEF Link, RequestOrder
<1>12. ResponseOrder(j, r, v)
  <2>1. ResponseOrder(i, r, wr) /\ ResponseFrames(wr)
    BY DEF Link
  <2>2. /\ j.response = "none" => i.response = "none" /\ wr[1].type # "response_start"
        /\ r.response = "none" => j.response = "none"
        /\ r.response = "open" => ~IsResponseTerminal(j)
        /\ j.response = "open" => i.response = "open" \/ wr[1].type # "window_update"
        /\ IsResponseTerminal(j) =>
             IsResponseTerminal(i) \/ wr[1].type \in {"response_end", "response_error"}
    BY <1>1, <1>2, <1>5, <1>6, <2>1 DEF ResponseOrder, IsResponseTerminal
  <2> QED BY <1>1, <2>1, <2>2, OrderBehind DEF v
<1>13. RequestBalance(j, wi, r, v)
  BY <1>5, <1>3, <1>4, <1>6 DEF Link, RequestBalance
<1>14. ResponseBalance(j, wi, r, v)
  BY <1>5, <1>3, <1>4, <1>6 DEF Link, ResponseBalance, IsResponseTerminal
<1> QED BY <1>5, <1>7, <1>8, <1>9, <1>10, <1>11, <1>12, <1>13, <1>14 DEF Link, j, v, f

\* Credit for the request stays within the window.
LEMMA ReadRequestGrant ==
  ASSUME NEW i, NEW wi, NEW r, NEW wr, Link(i, wi, r, wr),
         wr # <<>>, Head(wr) = Grant("request", Opposite(i.initiator)),
         i.request = "open"
  PROVE  i.at = "active" /\ i.requestCredit < Credit
         /\ Link([i EXCEPT !.requestCredit = @ + 1], wi, r, Tail(wr))
<1> DEFINE side == i.initiator
           f == Grant("request", Opposite(side))
           j == [i EXCEPT !.requestCredit = @ + 1]
           v == Tail(wr)
<1>1. /\ Sound(i) /\ Sound(r) /\ r.initiator = side /\ side \in Sides
      /\ wi \in Seq(InitiatorFrames(side)) /\ wr \in Seq(ResponderFrames(Opposite(side)))
      /\ f.type = "window_update"
  BY StreamType DEF Link, Wires, Frame, Grant
<1>2. /\ v \in Seq(ResponderFrames(Opposite(side))) /\ wr[1] = f /\ 1 \in DOMAIN wr
      /\ \A k \in DOMAIN v : k + 1 \in DOMAIN wr /\ v[k] = wr[k + 1] /\ 1 < k + 1
      /\ \A k \in DOMAIN wr : k = 1 \/ (k - 1 \in DOMAIN v /\ v[k - 1] = wr[k])
      /\ DOMAIN v \subseteq Nat /\ DOMAIN wr \subseteq Nat
  BY <1>1, Shortened
<1>3. j.initiator = side /\ j.requestCredit = i.requestCredit + 1 /\ j.responseCredit = i.responseCredit
  BY <1>1 DEF Sound, Streams, Started, Unstarted, Closed
<1> HIDE DEF j
<1>4. /\ i.requestCredit \in Nat /\ i.responseCredit \in Nat
      /\ r.requestCredit \in Nat /\ r.responseCredit \in Nat
      /\ RequestSum(i, wi, wr) \in Nat /\ RequestSum(i, wi, wr) <= r.requestCredit
      /\ ResponseSum(i, wi, r, wr) \in Nat /\ ResponseSum(i, wi, r, wr) <= i.responseCredit
      /\ RequestSum(j, wi, v) = RequestSum(i, wi, wr)
      /\ ResponseSum(j, wi, r, v) = ResponseSum(i, wi, r, wr)
      /\ RequestSum(i, wi, wr) > i.requestCredit
  <2>1. Head(wr) # Frame("response_chunk", Opposite(side)) /\ Head(wr) = Grant("request", Opposite(side))
    BY DEF Frame, Grant
  <2> QED BY <1>1, <1>3, <2>1, FirstOfResponse
<1>5. i.at = "active" /\ i.requestCredit < Credit
  <2>1. i.at # "unknown" /\ i.at # "removed"
    BY <1>1, <1>2 DEF Link, Opening, Sound
  <2> QED BY <1>1, <1>4, <2>1, StreamType
<1>6. /\ Sound(j)
      /\ j.at = i.at /\ j.request = i.request /\ j.response = i.response
  <2>1. j \in Streams
    <3>1. j.requestCredit \in 0..Credit /\ j.responseCredit \in 0..Credit
      BY <1>1, <1>3, <1>5, StreamType
    <3> QED BY <1>1, <3>1 DEF j, Sound, Streams
  <2> QED BY <1>1, <1>5, <2>1 DEF j, Sound, Streams, IsResponseTerminal
<1> HIDE DEF v, f
<1>7. Wires(j, wi, r, v)
  BY <1>1, <1>2, <1>3, <1>6 DEF Wires
<1>8. Opening(j, wi, r, v)
  BY <1>1, <1>2, <1>5, <1>6 DEF Link, Opening, RequestOrder, ResponseOrder, IsResponseTerminal
<1>9. RequestFrames(wi)
  BY DEF Link
<1>10. ResponseFrames(v)
  BY <1>2 DEF Link, ResponseFrames
<1>11. RequestOrder(j, wi, r)
  BY <1>6 DEF Link, RequestOrder
<1>12. ResponseOrder(j, r, v)
  <2>1. ResponseOrder(i, r, wr) /\ ResponseFrames(wr)
    BY DEF Link
  <2>2. /\ j.response = "none" => i.response = "none" /\ wr[1].type # "response_start"
        /\ r.response = "none" => j.response = "none"
        /\ r.response = "open" => ~IsResponseTerminal(j)
        /\ j.response = "open" => i.response = "open" \/ wr[1].type # "window_update"
        /\ IsResponseTerminal(j) =>
             IsResponseTerminal(i) \/ wr[1].type \in {"response_end", "response_error"}
    BY <1>1, <1>2, <1>5, <1>6, <2>1 DEF ResponseOrder, IsResponseTerminal
  <2> QED BY <1>1, <2>1, <2>2, OrderBehind DEF v
<1>13. RequestBalance(j, wi, r, v)
  BY <1>5, <1>3, <1>4, <1>6 DEF Link, RequestBalance
<1>14. ResponseBalance(j, wi, r, v)
  BY <1>5, <1>3, <1>4, <1>6 DEF Link, ResponseBalance, IsResponseTerminal
<1> QED BY <1>5, <1>7, <1>8, <1>9, <1>10, <1>11, <1>12, <1>13, <1>14 DEF Link, j, v, f

\* Credit for a request that is over changes nothing.
LEMMA DropRequestGrant ==
  ASSUME NEW i, NEW wi, NEW r, NEW wr, Link(i, wi, r, wr),
         wr # <<>>, Head(wr) = Grant("request", Opposite(i.initiator)),
         i.request # "open"
  PROVE  i.at # "unknown"
         /\ Link(i, wi, r, Tail(wr))
<1> DEFINE side == i.initiator
           f == Grant("request", Opposite(side))
           j == i
           v == Tail(wr)
<1>1. /\ Sound(i) /\ Sound(r) /\ r.initiator = side /\ side \in Sides
      /\ wi \in Seq(InitiatorFrames(side)) /\ wr \in Seq(ResponderFrames(Opposite(side)))
      /\ f.type = "window_update"
  BY StreamType DEF Link, Wires, Frame, Grant
<1>2. /\ v \in Seq(ResponderFrames(Opposite(side))) /\ wr[1] = f /\ 1 \in DOMAIN wr
      /\ \A k \in DOMAIN v : k + 1 \in DOMAIN wr /\ v[k] = wr[k + 1] /\ 1 < k + 1
      /\ \A k \in DOMAIN wr : k = 1 \/ (k - 1 \in DOMAIN v /\ v[k - 1] = wr[k])
      /\ DOMAIN v \subseteq Nat /\ DOMAIN wr \subseteq Nat
  BY <1>1, Shortened
<1>3. j.initiator = side /\ j.requestCredit = i.requestCredit /\ j.responseCredit = i.responseCredit
  BY <1>1 DEF Sound, Streams, Started, Unstarted, Closed
<1> HIDE DEF j
<1>4. /\ i.requestCredit \in Nat /\ i.responseCredit \in Nat
      /\ r.requestCredit \in Nat /\ r.responseCredit \in Nat
      /\ RequestSum(i, wi, wr) \in Nat /\ RequestSum(i, wi, wr) <= r.requestCredit
      /\ ResponseSum(i, wi, r, wr) \in Nat /\ ResponseSum(i, wi, r, wr) <= i.responseCredit
      /\ RequestSum(j, wi, v) = RequestSum(i, wi, wr) - 1
      /\ ResponseSum(j, wi, r, v) = ResponseSum(i, wi, r, wr)
  <2>1. Head(wr) # Frame("response_chunk", Opposite(side)) /\ Head(wr) = Grant("request", Opposite(side))
    BY DEF Frame, Grant
  <2> QED BY <1>1, <1>3, <2>1, FirstOfResponse
<1>5. i.at # "unknown"
  BY <1>1, <1>2 DEF Link, Opening
<1>6. /\ Sound(j)
      /\ j.at = i.at /\ j.request = i.request /\ j.response = i.response
  <2>1. j \in Streams
    BY <1>1, <1>5, StreamType DEF j, Sound, Streams, ResponseStates, RequestStates, Started, Unstarted, Closed
  <2> QED BY <1>1, <1>5, <2>1 DEF j, Sound, Streams, IsResponseTerminal
<1> HIDE DEF v, f
<1>7. Wires(j, wi, r, v)
  BY <1>1, <1>2, <1>3, <1>6 DEF Wires
<1>8. Opening(j, wi, r, v)
  BY <1>1, <1>2, <1>5, <1>6 DEF Link, Opening, RequestOrder, ResponseOrder, IsResponseTerminal
<1>9. RequestFrames(wi)
  BY DEF Link
<1>10. ResponseFrames(v)
  BY <1>2 DEF Link, ResponseFrames
<1>11. RequestOrder(j, wi, r)
  BY <1>6 DEF Link, RequestOrder
<1>12. ResponseOrder(j, r, v)
  <2>1. ResponseOrder(i, r, wr) /\ ResponseFrames(wr)
    BY DEF Link
  <2>2. /\ j.response = "none" => i.response = "none" /\ wr[1].type # "response_start"
        /\ r.response = "none" => j.response = "none"
        /\ r.response = "open" => ~IsResponseTerminal(j)
        /\ j.response = "open" => i.response = "open" \/ wr[1].type # "window_update"
        /\ IsResponseTerminal(j) =>
             IsResponseTerminal(i) \/ wr[1].type \in {"response_end", "response_error"}
    BY <1>1, <1>2, <1>5, <1>6, <2>1 DEF ResponseOrder, IsResponseTerminal
  <2> QED BY <1>1, <2>1, <2>2, OrderBehind DEF v
<1>13. RequestBalance(j, wi, r, v)
  BY <1>5, <1>3, <1>4, <1>6 DEF Link, RequestBalance
<1>14. ResponseBalance(j, wi, r, v)
  BY <1>5, <1>3, <1>4, <1>6 DEF Link, ResponseBalance, IsResponseTerminal
<1> QED BY <1>5, <1>7, <1>8, <1>9, <1>10, <1>11, <1>12, <1>13, <1>14 DEF Link, j, v, f

-----------------------------------------------------------------------------
(* Each end reads whatever comes without refusing it, and what it then is. *)

\* What a responder's copy r makes of a frame f of its initiator.
ResponderTakes(r, f, x) ==
  LET from == r.initiator IN
  \/ /\ f = Frame("request_start", from) /\ r.at = "unknown"
     /\ x = To("request_started", Started(r.initiator))
  \/ /\ f = Frame("request_chunk", from) /\ r.at = "active"
     /\ r.request # "ended" /\ r.requestCredit > 0
     /\ x = To(IF r.request = "open" THEN "request_chunk_delivered"
                                     ELSE "request_chunk_discarded",
               [r EXCEPT !.requestCredit = @ - 1])
  \/ /\ f = Frame("request_end", from) /\ r.at = "active"
     /\ r.request \in {"open", "response_closed"}
     /\ x = To("request_ended", [r EXCEPT !.request = "ended"])
  \/ /\ f = Frame("request_cancel", from) /\ r.at = "active"
     /\ r.request # "cancelled" /\ ~IsResponseTerminal(r)
     /\ x = To("request_cancelled",
               [r EXCEPT !.cancelled = TRUE, !.request = "cancelled"])
  \/ /\ f \in {Frame("request_cancel", from), Grant("response", from)}
     /\ x.outcome \in {"cancel_ignored", "window_ignored", "inactive_frame_ignored"}
     /\ r.at # "unknown" /\ x.stream = r
  \/ /\ f = Grant("response", from) /\ r.at = "active"
     /\ ~IsResponseTerminal(r) /\ r.responseCredit < Credit
     /\ x = To("window_updated", [r EXCEPT !.responseCredit = @ + 1])

\* What an initiator's copy i makes of a frame f of its responder.
InitiatorTakes(i, f, x) ==
  LET from == Opposite(i.initiator) IN
  \/ /\ f = Frame("response_start", from) /\ i.at = "active"
     /\ i.response = "none"
     /\ x = To("response_started", [i EXCEPT !.response = "open"])
  \/ /\ f = Frame("response_chunk", from) /\ i.at = "active"
     /\ i.response = "open" /\ i.responseCredit > 0
     /\ x = To("response_chunk_delivered", [i EXCEPT !.responseCredit = @ - 1])
  \/ /\ f = Frame("response_end", from) /\ i.at = "active"
     /\ i.response = "open"
     /\ x = To("response_ended", Closed(i, "succeeded"))
  \/ /\ f = Frame("response_error", from) /\ i.at = "active"
     /\ i.response \in {"none", "open"}
     /\ x = To("response_failed", Closed(i, "failed"))
  \/ /\ f = Grant("request", from)
     /\ x.outcome \in {"window_ignored", "inactive_frame_ignored"}
     /\ i.at # "unknown" /\ x.stream = i
  \/ /\ f = Grant("request", from) /\ i.at = "active"
     /\ i.request = "open" /\ i.requestCredit < Credit
     /\ x = To("window_updated", [i EXCEPT !.requestCredit = @ + 1])

\* What the initiator wrote, read in its order: never refused, and the two ends
\* stay linked.
LEMMA ResponderReads ==
  ASSUME NEW i, NEW wi, NEW r, NEW wr, Link(i, wi, r, wr), wi # <<>>
  PROVE  LET x == Receive(r, Head(wi)) IN
         /\ x.outcome \notin Refused
         /\ Link(i, Tail(wi), x.stream, wr)
         /\ ResponderTakes(r, Head(wi), x)
<1> DEFINE from == i.initiator
           f == Head(wi)
           x == Receive(r, f)
<1>1. Sound(r) /\ r.initiator = from /\ wi \in Seq(InitiatorFrames(from))
  BY DEF Link, Wires
<1>2. f \in InitiatorFrames(from)
  BY <1>1, Shortened
<1>3. CASE f = Frame("request_start", from)
  <2>1. r.at = "unknown" /\ Link(i, Tail(wi), Started(from), wr)
    BY <1>3, ReadStart
  <2>2. x = To("request_started", Started(from))
    BY <1>1, <1>3, <2>1, TakesStart
  <2> QED BY <1>1, <1>3, <2>1, <2>2 DEF To, Refused, ResponderTakes
<1>4. CASE f = Frame("request_chunk", from)
  <2>1. /\ r.at = "active" /\ r.request # "ended" /\ r.requestCredit > 0
        /\ Link(i, Tail(wi), [r EXCEPT !.requestCredit = @ - 1], wr)
    BY <1>4, ReadChunk
  <2>2. x = To(IF r.request = "open" THEN "request_chunk_delivered"
                                     ELSE "request_chunk_discarded",
               [r EXCEPT !.requestCredit = @ - 1])
    BY <1>1, <1>4, <2>1, TakesChunk
  <2> QED BY <1>1, <1>4, <2>1, <2>2 DEF To, Refused, ResponderTakes
<1>5. CASE f = Frame("request_end", from)
  <2>1. /\ r.at = "active" /\ r.request \in {"open", "response_closed"}
        /\ Link(i, Tail(wi), [r EXCEPT !.request = "ended"], wr)
    BY <1>5, ReadEnd
  <2>2. x = To("request_ended", [r EXCEPT !.request = "ended"])
    BY <1>1, <1>5, <2>1, TakesEnd
  <2> QED BY <1>1, <1>5, <2>1, <2>2 DEF To, Refused, ResponderTakes
<1>6. CASE f = Frame("request_cancel", from) /\ ~IsResponseTerminal(r)
  <2>1. /\ r.at = "active" /\ r.request # "cancelled"
        /\ Link(i, Tail(wi), [r EXCEPT !.cancelled = TRUE, !.request = "cancelled"], wr)
    BY <1>6, ReadCancel
  <2>2. x = To("request_cancelled",
               [r EXCEPT !.cancelled = TRUE, !.request = "cancelled"])
    BY <1>1, <1>6, <2>1, TakesCancel
  <2> QED BY <1>1, <1>6, <2>1, <2>2 DEF To, Refused, ResponderTakes
<1>7. CASE f = Frame("request_cancel", from) /\ IsResponseTerminal(r)
  <2>1. r.at # "unknown" /\ Link(i, Tail(wi), r, wr)
    BY <1>7, DropCancel
  <2>2. x = To("inactive_frame_ignored", r) \/ x = To("cancel_ignored", r)
    BY <1>1, <1>7, <2>1, TakesCancel
  <2> QED BY <1>1, <1>7, <2>1, <2>2 DEF To, Refused, ResponderTakes
<1>8. CASE f = Grant("response", from) /\ ~IsResponseTerminal(r)
  <2>1. /\ r.at = "active" /\ r.responseCredit < Credit
        /\ Link(i, Tail(wi), [r EXCEPT !.responseCredit = @ + 1], wr)
    BY <1>8, ReadResponseGrant
  <2>2. x = To("window_updated", [r EXCEPT !.responseCredit = @ + 1])
    BY <1>1, <1>8, <2>1, TakesResponseGrant
  <2> QED BY <1>1, <1>8, <2>1, <2>2 DEF To, Refused, ResponderTakes
<1>9. CASE f = Grant("response", from) /\ IsResponseTerminal(r)
  <2>1. r.at # "unknown" /\ Link(i, Tail(wi), r, wr)
    BY <1>9, DropResponseGrant
  <2>2. x = To("inactive_frame_ignored", r) \/ x = To("window_ignored", r)
    BY <1>1, <1>9, <2>1, TakesResponseGrant
  <2> QED BY <1>1, <1>9, <2>1, <2>2 DEF To, Refused, ResponderTakes
<1> QED BY <1>2, <1>3, <1>4, <1>5, <1>6, <1>7, <1>8, <1>9 DEF InitiatorFrames

\* And what the responder wrote.
LEMMA InitiatorReads ==
  ASSUME NEW i, NEW wi, NEW r, NEW wr, Link(i, wi, r, wr), wr # <<>>
  PROVE  LET x == Receive(i, Head(wr)) IN
         /\ x.outcome \notin Refused
         /\ Link(x.stream, wi, r, Tail(wr))
         /\ InitiatorTakes(i, Head(wr), x)
<1> DEFINE from == Opposite(i.initiator)
           f == Head(wr)
           x == Receive(i, f)
<1>1. Sound(i) /\ wr \in Seq(ResponderFrames(from))
  BY DEF Link, Wires
<1>2. f \in ResponderFrames(from)
  BY <1>1, Shortened
<1>3. CASE f = Frame("response_start", from)
  <2>1. i.at = "active" /\ i.response = "none" /\ Link([i EXCEPT !.response = "open"], wi, r, Tail(wr))
    BY <1>3, ReadAnswer
  <2>2. x = To("response_started", [i EXCEPT !.response = "open"])
    BY <1>1, <1>3, <2>1, TakesAnswer
  <2> QED BY <1>3, <2>1, <2>2 DEF To, Refused, InitiatorTakes
<1>4. CASE f = Frame("response_chunk", from)
  <2>1. /\ i.at = "active" /\ i.response = "open" /\ i.responseCredit > 0
        /\ Link([i EXCEPT !.responseCredit = @ - 1], wi, r, Tail(wr))
    BY <1>4, ReadAnswerChunk
  <2>2. x = To("response_chunk_delivered", [i EXCEPT !.responseCredit = @ - 1])
    BY <1>1, <1>4, <2>1, TakesAnswerChunk
  <2> QED BY <1>4, <2>1, <2>2 DEF To, Refused, InitiatorTakes
<1>5. CASE f = Frame("response_end", from)
  <2>1. /\ i.at = "active" /\ i.response = "open"
        /\ Link(Closed(i, "succeeded"), wi, r, Tail(wr))
    BY <1>5, ReadAnswerEnd
  <2>2. x = To("response_ended", Closed(i, "succeeded"))
    BY <1>1, <1>5, <2>1, TakesAnswerEnd
  <2> QED BY <1>5, <2>1, <2>2 DEF To, Refused, InitiatorTakes
<1>6. CASE f = Frame("response_error", from)
  <2>1. /\ i.at = "active" /\ i.response \in {"none", "open"}
        /\ Link(Closed(i, "failed"), wi, r, Tail(wr))
    BY <1>6, ReadAnswerError
  <2>2. x = To("response_failed", Closed(i, "failed"))
    BY <1>1, <1>6, <2>1, TakesAnswerError DEF IsResponseTerminal
  <2> QED BY <1>6, <2>1, <2>2 DEF To, Refused, InitiatorTakes
<1>7. CASE f = Grant("request", from) /\ i.request = "open"
  <2>1. /\ i.at = "active" /\ i.requestCredit < Credit
        /\ Link([i EXCEPT !.requestCredit = @ + 1], wi, r, Tail(wr))
    BY <1>7, ReadRequestGrant
  <2>2. x = To("window_updated", [i EXCEPT !.requestCredit = @ + 1])
    BY <1>1, <1>7, <2>1, TakesRequestGrant
  <2> QED BY <1>7, <2>1, <2>2 DEF To, Refused, InitiatorTakes
<1>8. CASE f = Grant("request", from) /\ i.request # "open"
  <2>1. i.at # "unknown" /\ Link(i, wi, r, Tail(wr))
    BY <1>8, DropRequestGrant
  <2>2. x = To("inactive_frame_ignored", i) \/ x = To("window_ignored", i)
    BY <1>1, <1>8, <2>1, TakesRequestGrant
  <2> QED BY <1>8, <2>1, <2>2 DEF To, Refused, InitiatorTakes
<1> QED BY <1>2, <1>3, <1>4, <1>5, <1>6, <1>7, <1>8 DEF ResponderFrames

-----------------------------------------------------------------------------
(* An end that is done with the stream forgets it.                         *)

\* The initiator, once the response is over.
LEMMA InitiatorForgets ==
  ASSUME NEW i, NEW wi, NEW r, NEW wr, Link(i, wi, r, wr),
         i.at = "active", IsResponseTerminal(i)
  PROVE  Link([i EXCEPT !.at = "removed"], wi, r, wr)
<1> DEFINE j == [i EXCEPT !.at = "removed"]
<1>1. /\ j.at = "removed" /\ j.initiator = i.initiator /\ j.request = i.request
      /\ j.response = i.response /\ j.requestCredit = i.requestCredit
      /\ j.responseCredit = i.responseCredit
  BY DEF Link, Wires, Sound, Streams
<1>2. Sound(j)
  BY DEF Link, Wires, Sound, Streams, IsResponseTerminal
<1> HIDE DEF j
<1>3. Wires(j, wi, r, wr)
  BY <1>1, <1>2 DEF Link, Wires
<1>4. Opening(j, wi, r, wr)
  BY <1>1 DEF Link, Opening
<1>5. RequestOrder(j, wi, r) /\ ResponseOrder(j, r, wr)
  BY <1>1 DEF Link, RequestOrder, ResponseOrder, IsResponseTerminal
<1>6. RequestSum(j, wi, wr) = RequestSum(i, wi, wr) /\ ResponseSum(j, wi, r, wr) = ResponseSum(i, wi, r, wr)
  BY <1>1, Zenon DEF RequestSum, ResponseSum
<1>7. RequestBalance(j, wi, r, wr) /\ ResponseBalance(j, wi, r, wr)
  BY <1>1, <1>6 DEF Link, RequestBalance, ResponseBalance
<1> QED BY <1>3, <1>4, <1>5, <1>7 DEF Link, j

\* The responder, once the request is over too.
LEMMA ResponderForgets ==
  ASSUME NEW i, NEW wi, NEW r, NEW wr, Link(i, wi, r, wr),
         r.at = "active", IsResponseTerminal(r), r.request \in {"ended", "cancelled"}
  PROVE  Link(i, wi, [r EXCEPT !.at = "removed"], wr)
<1> DEFINE j == [r EXCEPT !.at = "removed"]
<1>1. /\ j.at = "removed" /\ j.initiator = r.initiator /\ j.request = r.request
      /\ j.response = r.response /\ j.requestCredit = r.requestCredit
      /\ j.responseCredit = r.responseCredit
  BY DEF Link, Wires, Sound, Streams
<1>2. Sound(j)
  BY DEF Link, Wires, Sound, Streams, IsResponseTerminal
<1> HIDE DEF j
<1>3. Wires(i, wi, j, wr)
  BY <1>1, <1>2 DEF Link, Wires
<1>4. Opening(i, wi, j, wr)
  BY <1>1 DEF Link, Opening
<1>5. RequestOrder(i, wi, j) /\ ResponseOrder(i, j, wr)
  BY <1>1 DEF Link, RequestOrder, ResponseOrder, IsResponseTerminal
<1>6. ResponseSum(i, wi, j, wr) = ResponseSum(i, wi, r, wr)
  BY <1>1, Zenon DEF ResponseSum
<1>7. IsResponseTerminal(j)
  BY <1>1 DEF IsResponseTerminal
<1>8. RequestBalance(i, wi, j, wr) /\ ResponseBalance(i, wi, j, wr)
  BY <1>1, <1>6, <1>7 DEF Link, RequestBalance, ResponseBalance
<1> QED BY <1>3, <1>4, <1>5, <1>8 DEF Link, j

-----------------------------------------------------------------------------
(* What a step at the node keeps, part by part.                            *)

\* A step that leaves the chain, the buffer and the incoming credit alone.
LEMMA Changed ==
  ASSUME NEW n, NEW h, NEW u, NEW p, Sane(n, h, u, p),
         NEW m \in NodeRecords, NEW g \in HelperRecords,
         m.tail = n.tail, m.held = n.held, m.closed = n.closed,
         m.body = n.body \/ m.body = "destroyed", m.pump # "idle",
         n.stream.at # "unknown", m.stream.at = n.stream.at,
         m.stream.initiator = n.stream.initiator,
         g.stream = h.stream, g.owed = h.owed, g.left = h.left,
         ChunksIn(n, g) = ChunksIn(n, h),
         Linked(m, g, u), u \/ m.stream = n.stream,
         CreditOf(m.stream, Incoming(n)) = CreditOf(n.stream, Incoming(n)),
         Takes(m.stream, Incoming(n)) => Takes(n.stream, Incoming(n)),
         InputOver(n) => InputOver(m),
         IsResponseTerminal(n.stream) => IsResponseTerminal(m.stream),
         ~IsRemote(n) /\ m.stream.request = "cancelled" =>
           n.stream.request = "cancelled" \/ m.body # "open"
  PROVE  Sane(m, g, u, p)
<1>1. /\ IsRemote(m) <=> IsRemote(n)
      /\ Incoming(m) = Incoming(n) /\ Outgoing(m) = Outgoing(n)
  BY DEF IsRemote, Incoming, Outgoing
<1>2. Typed(m, g, u, p)
  BY DEF Sane, Typed
<1>3. HelperDrained(m, g, u)
  BY <1>1 DEF Sane, HelperDrained
<1>4. Owed(m) = Owed(n)
  BY DEF Owed
<1>5. NodeDrained(m, u)
  BY <1>1, <1>4 DEF Sane, NodeDrained
<1>6. Known(m, g, u, p)
  BY DEF Sane, Known
<1>7. TailOrder(m)
  BY <1>1 DEF Sane, TailOrder
<1>8. BodyOrder(m)
  BY <1>1 DEF Sane, BodyOrder
<1>9. ChunksIn(m, g) = ChunksIn(n, h)
  BY <1>1 DEF ChunksIn
<1>10. Whole(m, g, p)
  BY <1>1, <1>9 DEF Sane, Whole
<1> QED BY <1>2, <1>3, <1>5, <1>6, <1>7, <1>8, <1>10 DEF Sane

\* A step of the pump or a mark at the node: no frame is written or read.
LEMMA Marked ==
  ASSUME NEW n, NEW h, NEW u, NEW p, Sane(n, h, u, p),
         NEW m \in NodeRecords,
         m.stream = n.stream, m.wire = n.wire, m.tail = n.tail, m.held = n.held,
         m.closed = n.closed, m.body = n.body \/ m.body = "destroyed",
         m.pump # "idle", n.stream.at # "unknown"
  PROVE  Sane(m, h, u, p)
<1>1. h \in HelperRecords
  BY DEF Sane, Typed
<1>2. Linked(m, h, u)
  BY DEF Sane, Linked, IsRemote
<1>3. InputOver(n) => InputOver(m)
  BY DEF InputOver, IsRemote
<1>4. ~IsRemote(n) /\ m.stream.request = "cancelled" =>
        n.stream.request = "cancelled" \/ m.body # "open"
  OBVIOUS
<1> QED BY <1>1, <1>2, <1>3, <1>4, Changed

\* What happened besides is not asked.
LEMMA Remembered ==
  ASSUME NEW n, NEW h, NEW u, NEW p, Sane(n, h, u, p),
         NEW q \in PastRecords, q.refused = p.refused, q.sent = p.sent, q.got = p.got
  PROVE  Sane(n, h, u, q)
<1>1. Typed(n, h, u, q)
  BY DEF Sane, Typed
<1>2. Known(n, h, u, q)
  BY DEF Sane, Known
<1>3. Whole(n, h, q)
  BY DEF Sane, Whole
<1> QED BY <1>1, <1>2, <1>3 DEF Sane

-----------------------------------------------------------------------------
(* The frames the node writes.                                             *)

\* What is on a wire is made of frames.
LEMMA WiresType ==
  ASSUME NEW i, NEW wi, NEW r, NEW wr, Link(i, wi, r, wr)
  PROVE  /\ i \in Streams /\ r \in Streams
         /\ wi \in Seq(Frames) /\ wr \in Seq(Frames)
<1>1. /\ Sound(i) /\ Sound(r) /\ wi \in Seq(InitiatorFrames(i.initiator))
      /\ wr \in Seq(ResponderFrames(Opposite(i.initiator)))
  BY DEF Link, Wires
<1>2. i.initiator \in Sides /\ Opposite(i.initiator) \in Sides
  BY <1>1, StreamType, SidesOppose
<1>3. \A side \in Sides : InitiatorFrames(side) \subseteq Frames /\ ResponderFrames(side) \subseteq Frames
  BY DEF InitiatorFrames, ResponderFrames, Frames, Frame, Grant, FrameTypes, Windows
<1>4. \A S, T : S \subseteq T => Seq(S) \subseteq Seq(T)
  OBVIOUS
<1>5. i \in Streams /\ r \in Streams
  BY <1>1 DEF Sound
<1> QED BY <1>1, <1>2, <1>3, <1>4, <1>5

\* A stream the node knows and has not closed is active, and its two copies are
\* linked.
LEMMA Live ==
  ASSUME NEW n, NEW h, NEW u, NEW p, Sane(n, h, u, p),
         ~n.closed, n.stream.at # "unknown"
  PROVE  /\ u /\ n.stream.at = "active" /\ n.pump # "idle"
         /\ n \in NodeRecords /\ h \in HelperRecords
         /\ Sound(n.stream) /\ Sound(h.stream)
         /\ IF IsRemote(n)
            THEN n.stream.initiator = "node" /\ Link(n.stream, n.wire, h.stream, h.wire)
            ELSE n.stream.initiator = "helper" /\ Link(h.stream, h.wire, n.stream, n.wire)
<1>1. u
  BY DEF Sane, Known, Typed
<1>2. n \in NodeRecords /\ h \in HelperRecords
  BY DEF Sane, Typed
<1>3. n.stream.at = "active" /\ n.pump # "idle"
  BY <1>1, <1>2 DEF Sane, Known, NodeRecords, Streams
<1>4. n.stream.initiator \in Sides /\ h.stream.initiator = n.stream.initiator
  BY <1>2 DEF Sane, Known, NodeRecords, Streams
<1>5. IF IsRemote(n)
      THEN n.stream.initiator = "node" /\ Link(n.stream, n.wire, h.stream, h.wire)
      ELSE n.stream.initiator = "helper" /\ Link(h.stream, h.wire, n.stream, n.wire)
  BY <1>1, <1>4 DEF Sane, Linked, IsRemote, Sides
<1>6. Sound(n.stream) /\ Sound(h.stream)
  BY <1>5 DEF Link, Wires
<1> QED BY <1>1, <1>2, <1>3, <1>5, <1>6

\* What a frame of the node's own may change of its copy.
LEMMA Written ==
  ASSUME NEW n, NEW h, NEW u, NEW p, Sane(n, h, u, p),
         ~n.closed, n.stream.at # "unknown",
         NEW s, NEW w,
         IF IsRemote(n) THEN Link(s, w, h.stream, h.wire) ELSE Link(h.stream, h.wire, s, w),
         s.at = n.stream.at, s.initiator = n.stream.initiator,
         CreditOf(s, Incoming(n)) = CreditOf(n.stream, Incoming(n)),
         IF IsRemote(n) THEN s.response = n.stream.response
         ELSE /\ s.request = n.stream.request
                 \/ (n.stream.request = "open" /\ s.request = "response_closed")
              /\ IsResponseTerminal(n.stream) => IsResponseTerminal(s)
  PROVE  Sane([n EXCEPT !.stream = s, !.wire = w], h, u, p)
<1> DEFINE m == [n EXCEPT !.stream = s, !.wire = w]
<1>1. /\ u /\ n \in NodeRecords /\ h \in HelperRecords /\ n.pump # "idle"
      /\ n.stream.initiator \in Sides
  BY Live DEF NodeRecords, Streams
<1>2. s \in Streams /\ w \in Seq(Frames)
  BY WiresType
<1>3. /\ m \in NodeRecords /\ m.stream = s /\ m.wire = w /\ m.tail = n.tail
      /\ m.held = n.held /\ m.closed = n.closed /\ m.body = n.body /\ m.pump = n.pump
  BY <1>1, <1>2 DEF NodeRecords
<1> HIDE DEF m
<1>4. IsRemote(m) <=> IsRemote(n)
  BY <1>3 DEF IsRemote
<1>5. Linked(m, h, u)
  BY <1>3, <1>4 DEF Linked
<1>6. Takes(m.stream, Incoming(n)) => Takes(n.stream, Incoming(n))
  BY <1>1, <1>3 DEF Takes, Incoming, IsRemote, IsResponseTerminal, Sides
<1>7. InputOver(n) => InputOver(m)
  BY <1>3, <1>4 DEF InputOver
<1>8. IsResponseTerminal(n.stream) => IsResponseTerminal(m.stream)
  BY <1>3 DEF IsResponseTerminal
<1>9. ~IsRemote(n) /\ m.stream.request = "cancelled" =>
        n.stream.request = "cancelled" \/ m.body # "open"
  BY <1>3
<1>10. ChunksIn(n, h) = ChunksIn(n, h)
  OBVIOUS
<1>11. CreditOf(m.stream, Incoming(n)) = CreditOf(n.stream, Incoming(n))
  BY <1>3
<1>12. Sane(m, h, u, p)
  BY <1>1, <1>3, <1>5, <1>6, <1>7, <1>8, <1>9, <1>10, <1>11, Changed
<1> QED BY <1>12 DEF m

\* #sendStreamFrame, of a frame the copy takes and of one it ignores.
LEMMA SendTaken ==
  ASSUME NEW n, NEW f, NEW outcome, NEW s, Receive(n.stream, f) = To(outcome, s),
         outcome \notin Ignored \union Refused
  PROVE  /\ Send(n, f) = [n EXCEPT !.stream = s, !.wire = Append(n.wire, f)]
         /\ ~SendRefused(n, f)
<1>1. /\ Receive(n.stream, f).stream = s
      /\ Receive(n.stream, f).outcome \notin Ignored \union Refused
  BY DEF To
<1> QED BY <1>1 DEF Send, SendRefused

\* A frame the copy ignores is not written and changes nothing.
LEMMA SendIgnored ==
  ASSUME NEW n \in NodeRecords, NEW f, NEW outcome \in Ignored,
         Receive(n.stream, f) = To(outcome, n.stream)
  PROVE  Send(n, f) = n /\ ~SendRefused(n, f)
<1>1. /\ Receive(n.stream, f).stream = n.stream
      /\ Receive(n.stream, f).outcome = outcome
  BY DEF To
<1>2. outcome \in Ignored \union Refused /\ outcome \notin Refused
  BY DEF Ignored, Refused
<1>3. Send(n, f) = [n EXCEPT !.stream = n.stream, !.wire = @]
  BY <1>1, <1>2 DEF Send
<1> QED BY <1>1, <1>2, <1>3, ZenonT(30) DEF NodeRecords, SendRefused

\* A chunk of the body that goes out, against credit.
LEMMA NodeSendsChunk ==
  ASSUME NEW n, NEW h, NEW u, NEW p, Sane(n, h, u, p),
         ~n.closed, n.stream.at # "unknown", IsRemote(n),
         n.stream.request = "open", n.stream.requestCredit > 0
  PROVE  LET m == Send(n, Frame("request_chunk", "node")) IN
         /\ Sane(m, h, u, p)
         /\ m = [n EXCEPT !.stream = [n.stream EXCEPT !.requestCredit = @ - 1],
                          !.wire = Append(n.wire, Frame("request_chunk", "node"))]
<1> DEFINE s == [n.stream EXCEPT !.requestCredit = @ - 1]
           f == Frame("request_chunk", "node")
           w == Append(n.wire, f)
<1>1. /\ n.stream.at = "active" /\ Sound(n.stream) /\ n.stream.initiator = "node"
      /\ Link(n.stream, n.wire, h.stream, h.wire)
  BY Live
<1>2. Receive(n.stream, f) = To("request_chunk_delivered", s)
  BY <1>1, TakesChunk
<1>3. "request_chunk_delivered" \notin Ignored \union Refused
  BY DEF Ignored, Refused
<1>4. Send(n, f) = [n EXCEPT !.stream = s, !.wire = w]
  BY <1>3, <1>2, SendTaken, Zenon
<1>5. Link(s, w, h.stream, h.wire)
  BY <1>1, SendChunk
<1>6. /\ s.at = n.stream.at /\ s.initiator = n.stream.initiator
      /\ s.response = n.stream.response /\ s.responseCredit = n.stream.responseCredit
  BY <1>1 DEF Sound, Streams
<1> HIDE DEF s, w
<1>7. CreditOf(s, Incoming(n)) = CreditOf(n.stream, Incoming(n))
  BY <1>6 DEF CreditOf, Incoming
<1>8. Sane([n EXCEPT !.stream = s, !.wire = w], h, u, p)
  BY <1>5, <1>6, <1>7, Written
<1> QED BY <1>4, <1>8 DEF s, w

\* The end of the node's request.
LEMMA NodeSendsEnd ==
  ASSUME NEW n, NEW h, NEW u, NEW p, Sane(n, h, u, p),
         ~n.closed, n.stream.at # "unknown", IsRemote(n),
         n.stream.request \in {"open", "response_closed"}
  PROVE  LET m == Send(n, Frame("request_end", "node")) IN
         /\ Sane(m, h, u, p)
         /\ m = [n EXCEPT !.stream = [n.stream EXCEPT !.request = "ended"],
                          !.wire = Append(n.wire, Frame("request_end", "node"))]
         /\ ~SendRefused(n, Frame("request_end", "node"))
<1> DEFINE s == [n.stream EXCEPT !.request = "ended"]
           f == Frame("request_end", "node")
           w == Append(n.wire, f)
<1>1. /\ n.stream.at = "active" /\ Sound(n.stream) /\ n.stream.initiator = "node"
      /\ Link(n.stream, n.wire, h.stream, h.wire)
  BY Live
<1>2. Receive(n.stream, f) = To("request_ended", s)
  BY <1>1, TakesEnd
<1>3. "request_ended" \notin Ignored \union Refused
  BY DEF Ignored, Refused
<1>4. Send(n, f) = [n EXCEPT !.stream = s, !.wire = w] /\ ~SendRefused(n, f)
  BY <1>3, <1>2, SendTaken, Zenon
<1>5. Link(s, w, h.stream, h.wire)
  BY <1>1, SendEnd
<1>6. /\ s.at = n.stream.at /\ s.initiator = n.stream.initiator
      /\ s.response = n.stream.response /\ s.responseCredit = n.stream.responseCredit
  BY <1>1 DEF Sound, Streams
<1> HIDE DEF s, w
<1>7. CreditOf(s, Incoming(n)) = CreditOf(n.stream, Incoming(n))
  BY <1>6 DEF CreditOf, Incoming
<1>8. Sane([n EXCEPT !.stream = s, !.wire = w], h, u, p)
  BY <1>5, <1>6, <1>7, Written
<1> QED BY <1>4, <1>8 DEF s, w

\* A cancellation of what is over changes nothing and is not written.
LEMMA NodeSendsCancel ==
  ASSUME NEW n, NEW h, NEW u, NEW p, Sane(n, h, u, p),
         ~n.closed, n.stream.at # "unknown", IsRemote(n)
  PROVE  LET m == Send(n, Frame("request_cancel", "node")) IN
         /\ Sane(m, h, u, p)
         /\ \E s, w : /\ m = [n EXCEPT !.stream = s, !.wire = w]
                      /\ s.response = n.stream.response /\ s.initiator = n.stream.initiator
                      /\ s.at = n.stream.at
<1> DEFINE s == [n.stream EXCEPT !.cancelled = TRUE, !.request = "cancelled"]
           f == Frame("request_cancel", "node")
           w == Append(n.wire, f)
<1>1. /\ n.stream.at = "active" /\ Sound(n.stream) /\ n.stream.initiator = "node"
      /\ Link(n.stream, n.wire, h.stream, h.wire) /\ n \in NodeRecords
  BY Live
<1>2. CASE n.stream.request = "cancelled" \/ IsResponseTerminal(n.stream)
  <2>1. Receive(n.stream, f) = To("cancel_ignored", n.stream)
    BY <1>1, <1>2, TakesCancel
  <2>2. Send(n, f) = n
    BY <1>1, <2>1, SendIgnored DEF Ignored
  <2>3. n = [n EXCEPT !.stream = n.stream, !.wire = n.wire]
    BY <1>1 DEF NodeRecords
  <2> QED BY <2>2, <2>3, Zenon
<1>3. CASE n.stream.request # "cancelled" /\ ~IsResponseTerminal(n.stream)
  <2>1. Receive(n.stream, f) = To("request_cancelled", s)
    BY <1>1, <1>3, TakesCancel
  <2>2. "request_cancelled" \notin Ignored \union Refused
    BY DEF Ignored, Refused
  <2>3. Send(n, f) = [n EXCEPT !.stream = s, !.wire = w]
    BY <2>2, <2>1, SendTaken, Zenon
  <2>4. Link(s, w, h.stream, h.wire)
    BY <1>1, <1>3, SendCancel
  <2>5. /\ s.at = n.stream.at /\ s.initiator = n.stream.initiator
        /\ s.response = n.stream.response /\ s.responseCredit = n.stream.responseCredit
    BY <1>1 DEF Sound, Streams
  <2> HIDE DEF s, w
  <2>6. CreditOf(s, Incoming(n)) = CreditOf(n.stream, Incoming(n))
    BY <2>5 DEF CreditOf, Incoming
  <2>7. Sane([n EXCEPT !.stream = s, !.wire = w], h, u, p)
    BY <2>4, <2>5, <2>6, Written
  <2>8. Sane(Send(n, f), h, u, p)
    BY <2>3, <2>7
  <2> QED BY <2>3, <2>5, <2>8, Zenon
<1> QED BY <1>2, <1>3

\* The head of the app's response.
LEMMA NodeAnswers ==
  ASSUME NEW n, NEW h, NEW u, NEW p, Sane(n, h, u, p),
         ~n.closed, n.stream.at # "unknown", ~IsRemote(n),
         n.stream.response = "none"
  PROVE  LET m == Send(n, Frame("response_start", "node")) IN
         /\ Sane(m, h, u, p)
         /\ m = [n EXCEPT !.stream = [n.stream EXCEPT !.response = "open"],
                          !.wire = Append(n.wire, Frame("response_start", "node"))]
<1> DEFINE s == [n.stream EXCEPT !.response = "open"]
           f == Frame("response_start", "node")
           w == Append(n.wire, f)
<1>1. /\ n.stream.at = "active" /\ Sound(n.stream) /\ n.stream.initiator = "helper"
      /\ Link(h.stream, h.wire, n.stream, n.wire)
  BY Live
<1>2. h.stream.initiator = "helper" /\ Opposite(n.stream.initiator) = "node"
  BY <1>1 DEF Link, Wires, Opposite
<1>3. Receive(n.stream, f) = To("response_started", s)
  BY <1>1, <1>2, TakesAnswer
<1>4. "response_started" \notin Ignored \union Refused
  BY DEF Ignored, Refused
<1>5. Send(n, f) = [n EXCEPT !.stream = s, !.wire = w] /\ ~SendRefused(n, f)
  BY <1>3, <1>4, SendTaken, Zenon
<1>6. Opposite(h.stream.initiator) = "node"
  BY <1>2 DEF Opposite
<1>7. Link(h.stream, h.wire, s, w)
  BY <1>1, <1>6, SendAnswer
<1>8. /\ s.at = n.stream.at /\ s.initiator = n.stream.initiator
      /\ s.request = n.stream.request
         \/ (n.stream.request = "open" /\ s.request = "response_closed")
      /\ IsResponseTerminal(n.stream) => IsResponseTerminal(s)
      /\ s.requestCredit = n.stream.requestCredit
  BY <1>1 DEF Sound, Streams, Closed, IsResponseTerminal
<1> HIDE DEF s, w
<1>9. CreditOf(s, Incoming(n)) = CreditOf(n.stream, Incoming(n))
  BY <1>8 DEF CreditOf, Incoming
<1>10. Sane([n EXCEPT !.stream = s, !.wire = w], h, u, p)
  BY <1>7, <1>8, <1>9, Written
<1> QED BY <1>5, <1>10 DEF s, w

\* A chunk of the app's response, against credit.
LEMMA NodeAnswersChunk ==
  ASSUME NEW n, NEW h, NEW u, NEW p, Sane(n, h, u, p),
         ~n.closed, n.stream.at # "unknown", ~IsRemote(n),
         n.stream.response = "open", n.stream.responseCredit > 0
  PROVE  LET m == Send(n, Frame("response_chunk", "node")) IN
         /\ Sane(m, h, u, p)
         /\ m = [n EXCEPT !.stream = [n.stream EXCEPT !.responseCredit = @ - 1],
                          !.wire = Append(n.wire, Frame("response_chunk", "node"))]
<1> DEFINE s == [n.stream EXCEPT !.responseCredit = @ - 1]
           f == Frame("response_chunk", "node")
           w == Append(n.wire, f)
<1>1. /\ n.stream.at = "active" /\ Sound(n.stream) /\ n.stream.initiator = "helper"
      /\ Link(h.stream, h.wire, n.stream, n.wire)
  BY Live
<1>2. h.stream.initiator = "helper" /\ Opposite(n.stream.initiator) = "node"
  BY <1>1 DEF Link, Wires, Opposite
<1>3. Receive(n.stream, f) = To("response_chunk_delivered", s)
  BY <1>1, <1>2, TakesAnswerChunk
<1>4. "response_chunk_delivered" \notin Ignored \union Refused
  BY DEF Ignored, Refused
<1>5. Send(n, f) = [n EXCEPT !.stream = s, !.wire = w] /\ ~SendRefused(n, f)
  BY <1>3, <1>4, SendTaken, Zenon
<1>6. Opposite(h.stream.initiator) = "node"
  BY <1>2 DEF Opposite
<1>7. Link(h.stream, h.wire, s, w)
  BY <1>1, <1>6, SendAnswerChunk
<1>8. /\ s.at = n.stream.at /\ s.initiator = n.stream.initiator
      /\ s.request = n.stream.request
         \/ (n.stream.request = "open" /\ s.request = "response_closed")
      /\ IsResponseTerminal(n.stream) => IsResponseTerminal(s)
      /\ s.requestCredit = n.stream.requestCredit
  BY <1>1 DEF Sound, Streams, Closed, IsResponseTerminal
<1> HIDE DEF s, w
<1>9. CreditOf(s, Incoming(n)) = CreditOf(n.stream, Incoming(n))
  BY <1>8 DEF CreditOf, Incoming
<1>10. Sane([n EXCEPT !.stream = s, !.wire = w], h, u, p)
  BY <1>7, <1>8, <1>9, Written
<1> QED BY <1>5, <1>10 DEF s, w

\* The end of the app's response.
LEMMA NodeAnswersEnd ==
  ASSUME NEW n, NEW h, NEW u, NEW p, Sane(n, h, u, p),
         ~n.closed, n.stream.at # "unknown", ~IsRemote(n),
         n.stream.response = "open"
  PROVE  LET m == Send(n, Frame("response_end", "node")) IN
         /\ Sane(m, h, u, p)
         /\ m = [n EXCEPT !.stream = Closed(n.stream, "succeeded"),
                          !.wire = Append(n.wire, Frame("response_end", "node"))]
         /\ ~SendRefused(n, Frame("response_end", "node"))
<1> DEFINE s == Closed(n.stream, "succeeded")
           f == Frame("response_end", "node")
           w == Append(n.wire, f)
<1>1. /\ n.stream.at = "active" /\ Sound(n.stream) /\ n.stream.initiator = "helper"
      /\ Link(h.stream, h.wire, n.stream, n.wire)
  BY Live
<1>2. h.stream.initiator = "helper" /\ Opposite(n.stream.initiator) = "node"
  BY <1>1 DEF Link, Wires, Opposite
<1>3. Receive(n.stream, f) = To("response_ended", s)
  BY <1>1, <1>2, TakesAnswerEnd
<1>4. "response_ended" \notin Ignored \union Refused
  BY DEF Ignored, Refused
<1>5. Send(n, f) = [n EXCEPT !.stream = s, !.wire = w] /\ ~SendRefused(n, f)
  BY <1>3, <1>4, SendTaken, Zenon
<1>6. Opposite(h.stream.initiator) = "node"
  BY <1>2 DEF Opposite
<1>7. Link(h.stream, h.wire, s, w)
  BY <1>1, <1>6, SendAnswerEnd
<1>8. /\ s.at = n.stream.at /\ s.initiator = n.stream.initiator
      /\ s.request = n.stream.request
         \/ (n.stream.request = "open" /\ s.request = "response_closed")
      /\ IsResponseTerminal(n.stream) => IsResponseTerminal(s)
      /\ s.requestCredit = n.stream.requestCredit
  BY <1>1 DEF Sound, Streams, Closed, IsResponseTerminal
<1> HIDE DEF s, w
<1>9. CreditOf(s, Incoming(n)) = CreditOf(n.stream, Incoming(n))
  BY <1>8 DEF CreditOf, Incoming
<1>10. Sane([n EXCEPT !.stream = s, !.wire = w], h, u, p)
  BY <1>7, <1>8, <1>9, Written
<1> QED BY <1>5, <1>10 DEF s, w

\* The error the node answers with.
LEMMA NodeAnswersError ==
  ASSUME NEW n, NEW h, NEW u, NEW p, Sane(n, h, u, p),
         ~n.closed, n.stream.at # "unknown", ~IsRemote(n),
         ~IsResponseTerminal(n.stream)
  PROVE  LET m == Send(n, Frame("response_error", "node")) IN
         /\ Sane(m, h, u, p)
         /\ m = [n EXCEPT !.stream = Closed(n.stream, "failed"),
                          !.wire = Append(n.wire, Frame("response_error", "node"))]
<1> DEFINE s == Closed(n.stream, "failed")
           f == Frame("response_error", "node")
           w == Append(n.wire, f)
<1>1. /\ n.stream.at = "active" /\ Sound(n.stream) /\ n.stream.initiator = "helper"
      /\ Link(h.stream, h.wire, n.stream, n.wire)
  BY Live
<1>2. h.stream.initiator = "helper" /\ Opposite(n.stream.initiator) = "node"
  BY <1>1 DEF Link, Wires, Opposite
<1>3. Receive(n.stream, f) = To("response_failed", s)
  BY <1>1, <1>2, TakesAnswerError
<1>4. "response_failed" \notin Ignored \union Refused
  BY DEF Ignored, Refused
<1>5. Send(n, f) = [n EXCEPT !.stream = s, !.wire = w] /\ ~SendRefused(n, f)
  BY <1>3, <1>4, SendTaken, Zenon
<1>6. Opposite(h.stream.initiator) = "node"
  BY <1>2 DEF Opposite
<1>7. Link(h.stream, h.wire, s, w)
  BY <1>1, <1>6, SendAnswerError
<1>8. /\ s.at = n.stream.at /\ s.initiator = n.stream.initiator
      /\ s.request = n.stream.request
         \/ (n.stream.request = "open" /\ s.request = "response_closed")
      /\ IsResponseTerminal(n.stream) => IsResponseTerminal(s)
      /\ s.requestCredit = n.stream.requestCredit
  BY <1>1 DEF Sound, Streams, Closed, IsResponseTerminal
<1> HIDE DEF s, w
<1>9. CreditOf(s, Incoming(n)) = CreditOf(n.stream, Incoming(n))
  BY <1>8 DEF CreditOf, Incoming
<1>10. Sane([n EXCEPT !.stream = s, !.wire = w], h, u, p)
  BY <1>7, <1>8, <1>9, Written
<1> QED BY <1>5, <1>10 DEF s, w

\* request(): the frame that opens the node's stream.
LEMMA NodeOpens ==
  ASSUME NEW n, NEW h, NEW u, NEW p, Sane(n, h, u, p), u,
         n.pump = "idle", IsRemote(n), NEW chunks \in 0..MaxChunks
  PROVE  Sane([Send(n, Frame("request_start", "node"))
                 EXCEPT !.pump = "starting", !.left = chunks, !.caller = "waiting"], h, u, p)
         /\ Send(n, Frame("request_start", "node"))
              = [n EXCEPT !.stream = Started("node"),
                          !.wire = Append(n.wire, Frame("request_start", "node"))]
<1> DEFINE f == Frame("request_start", "node")
           s == Started("node")
           w == Append(n.wire, f)
           m == [Send(n, f) EXCEPT !.pump = "starting", !.left = chunks, !.caller = "waiting"]
<1>1. /\ n \in NodeRecords /\ h \in HelperRecords /\ n.stream.at = "unknown"
      /\ n.stream.initiator = "node" /\ Link(n.stream, n.wire, h.stream, h.wire)
      /\ n.tail = <<>> /\ ~n.closed /\ n.body = "open" /\ n.held = 0 /\ p.got = 0
      /\ h.stream.initiator = "node"
  BY DEF Sane, Typed, Known, Linked, IsRemote
<1>2. Sound(n.stream) /\ n.stream = Unstarted("node")
  BY <1>1 DEF Link, Wires, Sound
<1>3. Receive(n.stream, f) = To("request_started", s)
  BY <1>1, <1>2, TakesStart
<1>4. "request_started" \notin Ignored \union Refused
  BY DEF Ignored, Refused
<1>5. Send(n, f) = [n EXCEPT !.stream = s, !.wire = w]
  BY <1>3, <1>4, SendTaken, Zenon
<1>6. Link(s, w, h.stream, h.wire)
  BY <1>1, SendStart
<1>7. s \in Streams /\ w \in Seq(Frames)
  BY <1>6, WiresType
<1>8. /\ s.at = "active" /\ s.initiator = "node" /\ s.request = "open" /\ s.response = "none"
      /\ s.responseCredit = n.stream.responseCredit /\ n.stream.response = "none"
  BY <1>2 DEF Started, Unstarted
<1> HIDE DEF s, w
<1>9. /\ m \in NodeRecords /\ m.stream = s /\ m.wire = w /\ m.tail = <<>> /\ m.held = 0
      /\ ~m.closed /\ m.body = "open" /\ m.pump = "starting"
  BY <1>1, <1>5, <1>7 DEF NodeRecords, Pumps
<1> HIDE DEF m
<1>10. IsRemote(m) /\ Incoming(m) = "response" /\ Outgoing(m) = "request"
       /\ Incoming(n) = "response" /\ Outgoing(n) = "request"
  BY <1>8, <1>9 DEF IsRemote, Incoming, Outgoing
<1>11. Typed(m, h, u, p)
  BY <1>9 DEF Sane, Typed
<1>12. Linked(m, h, u)
  BY <1>6, <1>9, <1>10 DEF Linked
<1>13. HelperDrained(m, h, u)
  BY <1>10 DEF Sane, HelperDrained
<1>14. Owed(m) = Owed(n)
  BY <1>1, <1>9 DEF Owed
<1>15. NodeDrained(m, u)
  BY <1>1, <1>8, <1>9, <1>10, <1>14 DEF Sane, NodeDrained, CreditOf, Takes, IsResponseTerminal
<1>16. Known(m, h, u, p)
  BY <1>1, <1>8, <1>9 DEF Sane, Known
<1>17. TailOrder(m) /\ BodyOrder(m)
  BY <1>9, <1>10 DEF TailOrder, BodyOrder
<1>18. ChunksIn(m, h) = ChunksIn(n, h)
  BY <1>10 DEF ChunksIn
<1>19. Whole(m, h, p)
  BY <1>1, <1>9, <1>10, <1>18 DEF Sane, Whole
<1>20. Sane(m, h, u, p)
  BY <1>11, <1>12, <1>13, <1>15, <1>16, <1>17, <1>19 DEF Sane
<1> QED BY <1>5, <1>20 DEF m, s, w

-----------------------------------------------------------------------------
(* The stream is removed, and the chain of the incoming body goes on.      *)

\* #removeStream, of a stream that is over.
LEMMA Removes ==
  ASSUME NEW n, NEW h, NEW u, NEW p, Sane(n, h, u, p),
         ~n.closed, n.stream.at # "unknown", IsResponseTerminal(n.stream),
         ~IsRemote(n) => n.stream.request \in {"ended", "cancelled"},
         NEW m \in NodeRecords,
         m.stream = Removed(n.stream), m.wire = n.wire, m.tail = n.tail,
         m.held = n.held, m.closed = TRUE, m.pump # "idle",
         (m.body = n.body /\ n.body # "open") \/ m.body = "destroyed"
  PROVE  Sane(m, h, u, p)
<1>1. /\ u /\ n.stream.at = "active" /\ h \in HelperRecords /\ n \in NodeRecords
      /\ Sound(n.stream)
      /\ IF IsRemote(n)
         THEN n.stream.initiator = "node" /\ Link(n.stream, n.wire, h.stream, h.wire)
         ELSE n.stream.initiator = "helper" /\ Link(h.stream, h.wire, n.stream, n.wire)
  BY Live
<1>2. m.stream = [n.stream EXCEPT !.at = "removed"]
  BY <1>1 DEF Removed, Removable
<1>3. /\ m.stream.at = "removed" /\ m.stream.initiator = n.stream.initiator
      /\ m.stream.request = n.stream.request /\ m.stream.response = n.stream.response
      /\ m.stream.requestCredit = n.stream.requestCredit
      /\ m.stream.responseCredit = n.stream.responseCredit
  BY <1>1, <1>2 DEF Sound, Streams
<1>4. /\ IsRemote(m) <=> IsRemote(n)
      /\ Incoming(m) = Incoming(n) /\ Outgoing(m) = Outgoing(n)
      /\ InputOver(m) <=> InputOver(n)
      /\ IsResponseTerminal(m.stream) /\ m.body # "open"
  BY <1>3 DEF IsRemote, Incoming, Outgoing, InputOver, IsResponseTerminal
<1>5. Typed(m, h, u, p)
  BY DEF Sane, Typed
<1>6. Linked(m, h, u)
  BY <1>1, <1>2, <1>4, InitiatorForgets, ResponderForgets DEF Linked
<1>7. HelperDrained(m, h, u)
  BY <1>4 DEF Sane, HelperDrained
<1>8. Owed(m) = Owed(n) /\ CreditOf(m.stream, Incoming(m)) = CreditOf(n.stream, Incoming(n))
  BY <1>3, <1>4 DEF Owed, CreditOf
<1>9. NodeDrained(m, u)
  BY <1>4, <1>8 DEF Sane, NodeDrained
<1>10. Known(m, h, u, p)
  BY <1>1, <1>3 DEF Sane, Known
<1>11. TailOrder(m)
  BY <1>3, <1>4 DEF Sane, TailOrder
<1>12. BodyOrder(m)
  BY <1>3, <1>4 DEF Sane, BodyOrder
<1>13. ChunksIn(m, h) = ChunksIn(n, h)
  BY <1>4 DEF ChunksIn
<1>14. Whole(m, h, p)
  BY <1>4, <1>13 DEF Sane, Whole
<1> QED BY <1>5, <1>6, <1>7, <1>9, <1>10, <1>11, <1>12, <1>14 DEF Sane

\* #failConnection: whatever the stream was, it is closed.
LEMMA Breaks ==
  ASSUME NEW n, NEW h, NEW u, NEW p, Sane(n, h, u, p), u,
         n.stream.at # "unknown", ~n.closed,
         NEW m \in NodeRecords,
         m.stream = Removed(n.stream), m.wire = n.wire, m.tail = n.tail,
         m.held = n.held, m.closed = TRUE, m.pump # "idle",
         (m.body = n.body /\ n.body # "open") \/ m.body = "destroyed"
  PROVE  Sane(m, h, FALSE, p)
<1>1. /\ n.stream.at = "active" /\ h \in HelperRecords /\ n \in NodeRecords
      /\ Sound(n.stream) /\ n.pump # "idle"
  BY Live
<1>2. /\ m.stream.at # "unknown" /\ m.stream.initiator = n.stream.initiator
      /\ m.stream.request = n.stream.request /\ m.stream.response = n.stream.response
      /\ ~(m.stream.at = "active" /\ m.stream.request = "response_closed")
  BY <1>1 DEF Sound, Streams, Removed, Removable
<1>3. /\ IsRemote(m) <=> IsRemote(n)
      /\ Incoming(m) = Incoming(n)
      /\ InputOver(m) <=> InputOver(n)
      /\ IsResponseTerminal(m.stream) <=> IsResponseTerminal(n.stream)
      /\ m.body # "open"
  BY <1>2 DEF IsRemote, Incoming, InputOver, IsResponseTerminal
<1>4. Typed(m, h, FALSE, p)
  BY DEF Sane, Typed
<1>5. Linked(m, h, FALSE) /\ HelperDrained(m, h, FALSE) /\ NodeDrained(m, FALSE)
  BY DEF Linked, HelperDrained, NodeDrained
<1>6. Known(m, h, FALSE, p)
  BY <1>1, <1>2 DEF Sane, Known
<1>7. TailOrder(m)
  BY <1>2, <1>3 DEF Sane, TailOrder
<1>8. BodyOrder(m)
  BY <1>2, <1>3 DEF Sane, BodyOrder
<1>9. ChunksIn(m, h) = ChunksIn(n, h)
  BY <1>3 DEF ChunksIn
<1>10. Whole(m, h, p)
  BY <1>3, <1>9 DEF Sane, Whole
<1> QED BY <1>4, <1>5, <1>6, <1>7, <1>8, <1>10 DEF Sane

\* The counts of a chain are numbers.
LEMMA ChainCounts ==
  ASSUME NEW n, NEW h, NEW u, NEW p, Sane(n, h, u, p)
  PROVE  /\ Count(n.tail, "chunk") \in Nat /\ Count(n.tail, "written") \in Nat
         /\ Owed(n) \in Nat /\ n.tail \in Seq(Links) /\ n.held \in Nat
         /\ ChunksIn(n, h) \in Nat /\ p.got \in Nat /\ p.sent \in Nat
         /\ CreditOf(n.stream, Incoming(n)) \in Nat
         /\ h.left \in 0..MaxChunks /\ MaxChunks \in Nat /\ Credit \in Nat
<1>1. n \in NodeRecords /\ h \in HelperRecords /\ p \in PastRecords
  BY DEF Sane, Typed
<1>2. n.tail \in Seq(Links) /\ h.wire \in Seq(Frames) /\ n.held \in Nat /\ n.stream \in Streams
  BY <1>1 DEF NodeRecords, HelperRecords
<1>3. /\ Count(n.tail, "chunk") \in Nat /\ Count(n.tail, "written") \in Nat
      /\ ChunksIn(n, h) \in Nat
  BY <1>2, PositionsFinite DEF ChunksIn
<1>4. p.got \in Nat /\ p.sent \in Nat /\ h.left \in 0..MaxChunks /\ MaxChunks \in Nat
  BY <1>1, StreamAssumption DEF PastRecords, HelperRecords
<1>5. CreditOf(n.stream, Incoming(n)) \in Nat /\ Credit \in Nat
  BY <1>2, CreditAssumption DEF CreditOf, Streams
<1> QED BY <1>2, <1>3, <1>4, <1>5 DEF Owed

\* A link of the chain is done and its chunk not granted: its body is over, or
\* its credit no longer asked for.
LEMMA Pops ==
  ASSUME NEW n, NEW h, NEW u, NEW p, Sane(n, h, u, p), n.tail # <<>>,
         Head(n.tail) = "chunk" => n.body # "open",
         Head(n.tail) = "written" =>
           n.body # "open" \/ ~Takes(n.stream, Incoming(n))
  PROVE  Sane(Next1(n), h, u, p)
<1> DEFINE m == Next1(n)
           c == Count(n.tail, "chunk")
           d == Count(m.tail, "chunk")
           b == Count(n.tail, "written")
           a == Count(m.tail, "written")
<1>1. /\ n \in NodeRecords /\ n.tail \in Seq(Links) /\ n.stream.at # "unknown"
  BY DEF Sane, Typed, NodeRecords, Known
<1>2. /\ Tail(n.tail) \in Seq(Links) /\ DOMAIN n.tail = 1..Len(n.tail) /\ Len(n.tail) \in Nat \ {0}
      /\ DOMAIN Tail(n.tail) = 1..(Len(n.tail) - 1) /\ Len(Tail(n.tail)) = Len(n.tail) - 1
      /\ \A k \in DOMAIN Tail(n.tail) : k + 1 \in DOMAIN n.tail /\ Tail(n.tail)[k] = n.tail[k + 1]
  BY <1>1, Shortened
<1>3. /\ m \in NodeRecords /\ m.stream = n.stream /\ m.wire = n.wire
      /\ m.tail = Tail(n.tail) /\ m.held = n.held /\ m.closed = n.closed
      /\ m.body = n.body /\ m.pump = n.pump
  BY <1>1, <1>2 DEF NodeRecords, Next1
<1>4. /\ c = d + (IF Head(n.tail) = "chunk" THEN 1 ELSE 0)
      /\ b = a + (IF Head(n.tail) = "written" THEN 1 ELSE 0)
  BY <1>1, <1>3, CountTail
<1>5. c \in Nat /\ d \in Nat /\ b \in Nat /\ a \in Nat
  BY <1>1, <1>2, <1>3, PositionsFinite
<1> HIDE DEF m
<1>6. /\ IsRemote(m) <=> IsRemote(n)
      /\ Incoming(m) = Incoming(n) /\ Outgoing(m) = Outgoing(n)
      /\ InputOver(m) <=> InputOver(n)
  BY <1>3 DEF IsRemote, Incoming, Outgoing, InputOver
<1>7. Typed(m, h, u, p)
  BY <1>3 DEF Sane, Typed
<1>8. Linked(m, h, u)
  BY <1>3, <1>6 DEF Sane, Linked
<1>9. HelperDrained(m, h, u)
  BY <1>6 DEF Sane, HelperDrained
<1>10. NodeDrained(m, u)
  <2>1. Owed(m) = d + a /\ Owed(n) = c + b
    BY DEF Owed
  <2>2. /\ CreditOf(m.stream, Incoming(m)) = CreditOf(n.stream, Incoming(n))
        /\ CreditOf(n.stream, Incoming(n)) \in Nat /\ Credit \in Nat
    BY <1>3, <1>6, ChainCounts
  <2> HIDE DEF a, b, c, d
  <2>3. Owed(m) <= Owed(n) /\ Owed(m) \in Nat /\ Owed(n) \in Nat
    BY <1>4, <1>5, <2>1
  <2>4. Takes(m.stream, Incoming(m)) /\ m.body = "open" => Owed(m) = Owed(n)
    BY <1>3, <1>4, <1>5, <1>6, <2>1
  <2> DEFINE q == CreditOf(n.stream, Incoming(n))
  <2>5. u => /\ q + Owed(n) <= Credit
             /\ Takes(n.stream, Incoming(n)) /\ n.body = "open" => q + Owed(n) = Credit
    BY DEF Sane, NodeDrained
  <2> HIDE DEF q
  <2>6. u => q + Owed(m) <= Credit
    BY <2>2, <2>3, <2>5 DEF q
  <2>7. u => (Takes(m.stream, Incoming(m)) /\ m.body = "open" => q + Owed(m) = Credit)
    BY <1>3, <1>6, <2>4, <2>5
  <2> QED BY <2>2, <2>6, <2>7 DEF NodeDrained, q
<1>11. Known(m, h, u, p)
  BY <1>1, <1>3 DEF Sane, Known
<1>12. TailOrder(m)
  <2>1. \A k \in DOMAIN m.tail : m.tail[k] \in {"end", "remove"} => k = Len(m.tail)
    <3>1. SUFFICES ASSUME NEW k \in DOMAIN m.tail, m.tail[k] \in {"end", "remove"}
                   PROVE  k = Len(m.tail)
      OBVIOUS
    <3>2. k + 1 \in DOMAIN n.tail /\ n.tail[k + 1] \in {"end", "remove"}
      BY <1>2, <1>3, <3>1
    <3>3. k + 1 = Len(n.tail)
      BY <3>2 DEF Sane, TailOrder
    <3> QED BY <1>2, <1>3, <3>1, <3>3
  <2>2. \A k \in DOMAIN m.tail : \E l \in DOMAIN n.tail : m.tail[k] = n.tail[l]
    BY <1>2, <1>3
  <2>3. \A k \in DOMAIN m.tail : m.tail[k] = "end" => InputOver(m)
    BY <1>6, <2>2 DEF Sane, TailOrder
  <2>4. \A k \in DOMAIN m.tail : m.tail[k] = "remove" =>
          IsRemote(m) /\ IsResponseTerminal(m.stream) /\ m.body # "open"
    BY <1>3, <1>6, <2>2 DEF Sane, TailOrder
  <2> QED BY <2>1, <2>3, <2>4 DEF TailOrder
<1>13. BodyOrder(m)
  BY <1>3, <1>6 DEF Sane, BodyOrder
<1>14. ChunksIn(m, h) = ChunksIn(n, h)
  BY <1>6 DEF ChunksIn
<1>15. Whole(m, h, p)
  <2>1. /\ p.got \in Nat /\ n.held \in Nat /\ ChunksIn(n, h) \in Nat /\ p.sent \in Nat
    BY ChainCounts
  <2>2. /\ h.left + p.sent <= MaxChunks
        /\ p.got + n.held + c + ChunksIn(n, h) <= p.sent
        /\ n.body = "open" /\ (IsRemote(n) \/ ~IsResponseTerminal(n.stream)) =>
             p.got + n.held + c + ChunksIn(n, h) = p.sent
        /\ n.body = "ended" => p.got + n.held = p.sent
        /\ n.body = "read" => p.got = p.sent
    BY DEF Sane, Whole
  <2>3. d <= c /\ (m.body = "open" => d = c)
    <3> HIDE DEF a, b, c, d
    <3> QED BY <1>3, <1>4, <1>5
  <2>4. p.got + m.held + d + ChunksIn(m, h) <= p.sent
    <3> HIDE DEF a, b, c, d
    <3> QED BY <1>3, <1>5, <1>14, <2>1, <2>2, <2>3
  <2>5. m.body = "open" /\ (IsRemote(m) \/ ~IsResponseTerminal(m.stream)) =>
             p.got + m.held + d + ChunksIn(m, h) = p.sent
    BY <1>3, <1>6, <1>14, <2>2, <2>3
  <2> QED BY <1>3, <2>2, <2>4, <2>5 DEF Whole
<1> QED BY <1>7, <1>8, <1>9, <1>10, <1>11, <1>12, <1>13, <1>15 DEF Sane, m

\* The chunk at the front of the chain goes into the buffer.
LEMMA Writes ==
  ASSUME NEW n, NEW h, NEW u, NEW p, Sane(n, h, u, p), n.tail # <<>>,
         Head(n.tail) = "chunk"
  PROVE  Sane([n EXCEPT !.held = @ + 1, !.tail[1] = "written"], h, u, p)
<1> DEFINE m == [n EXCEPT !.held = @ + 1, !.tail[1] = "written"]
           c == Count(n.tail, "chunk")
           d == Count(m.tail, "chunk")
           b == Count(n.tail, "written")
           a == Count(m.tail, "written")
<1>1. /\ n \in NodeRecords /\ n.tail \in Seq(Links) /\ n.stream.at # "unknown" /\ n.held \in Nat
      /\ "written" \in Links
  BY DEF Sane, Typed, NodeRecords, Known, Links
<1>2. /\ [n.tail EXCEPT ![1] = "written"] \in Seq(Links)
      /\ DOMAIN [n.tail EXCEPT ![1] = "written"] = DOMAIN n.tail
      /\ Len([n.tail EXCEPT ![1] = "written"]) = Len(n.tail)
      /\ \A k \in DOMAIN n.tail :
           [n.tail EXCEPT ![1] = "written"][k] = IF k = 1 THEN "written" ELSE n.tail[k]
  BY <1>1
<1>3. /\ m \in NodeRecords /\ m.stream = n.stream /\ m.wire = n.wire
      /\ m.tail = [n.tail EXCEPT ![1] = "written"] /\ m.held = n.held + 1 /\ m.closed = n.closed
      /\ m.body = n.body /\ m.pump = n.pump
  <2>1. m = [n EXCEPT !.held = n.held + 1, !.tail = [n.tail EXCEPT ![1] = "written"]]
    BY <1>1 DEF NodeRecords
  <2>2. n.held + 1 \in Nat
    BY <1>1
  <2> HIDE DEF m
  <2> QED BY <1>1, <1>2, <2>1, <2>2 DEF NodeRecords
<1>4. /\ c = Count(Tail(n.tail), "chunk") + 1 /\ d = Count(Tail(n.tail), "chunk")
      /\ b = Count(Tail(n.tail), "written") /\ a = Count(Tail(n.tail), "written") + 1
  <2>1. Tail(n.tail) \in Seq(Links)
    BY <1>1, Shortened
  <2>2. Count(Tail(n.tail), "chunk") \in Nat /\ Count(Tail(n.tail), "written") \in Nat
    BY <2>1, PositionsFinite
  <2>3. /\ c = Count(Tail(n.tail), "chunk") + (IF Head(n.tail) = "chunk" THEN 1 ELSE 0)
        /\ b = Count(Tail(n.tail), "written") + (IF Head(n.tail) = "written" THEN 1 ELSE 0)
    BY <1>1, CountTail
  <2>4. /\ d = Count(Tail(n.tail), "chunk") + (IF "written" = "chunk" THEN 1 ELSE 0)
        /\ a = Count(Tail(n.tail), "written") + (IF "written" = "written" THEN 1 ELSE 0)
    BY <1>1, <1>3, CountFirst
  <2> QED BY <2>2, <2>3, <2>4
<1>5. c \in Nat /\ d \in Nat /\ b \in Nat /\ a \in Nat
  BY <1>1, <1>2, <1>3, PositionsFinite
<1> HIDE DEF m
<1>6. /\ IsRemote(m) <=> IsRemote(n)
      /\ Incoming(m) = Incoming(n) /\ Outgoing(m) = Outgoing(n)
      /\ InputOver(m) <=> InputOver(n)
  BY <1>3 DEF IsRemote, Incoming, Outgoing, InputOver
<1>7. Typed(m, h, u, p)
  BY <1>3 DEF Sane, Typed
<1>8. Linked(m, h, u)
  BY <1>3, <1>6 DEF Sane, Linked
<1>9. HelperDrained(m, h, u)
  BY <1>6 DEF Sane, HelperDrained
<1>10. NodeDrained(m, u)
  <2>1. Owed(m) = d + a /\ Owed(n) = c + b
    BY DEF Owed
  <2>2. Owed(m) = Owed(n)
    <3> HIDE DEF a, b, c, d
    <3>1. c + b = d + a /\ c \in Nat
      <4> DEFINE x == Count(Tail(n.tail), "chunk")
                 y == Count(Tail(n.tail), "written")
      <4>1. c = x + 1 /\ d = x /\ b = y /\ a = y + 1
        BY <1>4
      <4> HIDE DEF x, y
      <4> QED BY <4>1, <1>5
    <3> QED BY <2>1, <3>1
  <2>3. CreditOf(m.stream, Incoming(m)) = CreditOf(n.stream, Incoming(n))
    BY <1>3, <1>6
  <2> QED BY <1>3, <1>6, <2>2, <2>3 DEF Sane, NodeDrained
<1>11. Known(m, h, u, p)
  BY <1>1, <1>3 DEF Sane, Known
<1>12. TailOrder(m)
  <2>1. \A k \in DOMAIN m.tail : m.tail[k] \in {"end", "remove"} =>
          k \in DOMAIN n.tail /\ m.tail[k] = n.tail[k]
    BY <1>2, <1>3
  <2>2. \A k \in DOMAIN m.tail : m.tail[k] \in {"end", "remove"} => k = Len(m.tail)
    BY <1>2, <1>3, <2>1 DEF Sane, TailOrder
  <2>3. \A k \in DOMAIN m.tail : m.tail[k] = "end" => InputOver(m)
    BY <1>6, <2>1 DEF Sane, TailOrder
  <2>4. \A k \in DOMAIN m.tail : m.tail[k] = "remove" =>
          IsRemote(m) /\ IsResponseTerminal(m.stream) /\ m.body # "open"
    BY <1>3, <1>6, <2>1 DEF Sane, TailOrder
  <2> QED BY <2>2, <2>3, <2>4 DEF TailOrder
<1>13. BodyOrder(m)
  BY <1>3, <1>6 DEF Sane, BodyOrder
<1>14. ChunksIn(m, h) = ChunksIn(n, h)
  BY <1>6 DEF ChunksIn
<1>15. Whole(m, h, p)
  <2>1. /\ p.got \in Nat /\ n.held \in Nat /\ ChunksIn(n, h) \in Nat /\ p.sent \in Nat
    BY ChainCounts
  <2>2. /\ h.left + p.sent <= MaxChunks
        /\ p.got + n.held + c + ChunksIn(n, h) <= p.sent
        /\ n.body = "open" /\ (IsRemote(n) \/ ~IsResponseTerminal(n.stream)) =>
             p.got + n.held + c + ChunksIn(n, h) = p.sent
        /\ n.body = "ended" => p.got + n.held = p.sent
        /\ n.body = "read" => p.got = p.sent
    BY DEF Sane, Whole
  <2>3. c = d + 1
    BY <1>4
  <2> HIDE DEF a, b, c, d
  <2> DEFINE x == ChunksIn(n, h)
  <2>4. p.got + m.held + d + ChunksIn(m, h) = p.got + n.held + c + x
    <3> DEFINE y == ChunksIn(m, h)
               g == p.got
               o == n.held
               q == m.held
    <3>1. y = x /\ q = o + 1 /\ x \in Nat /\ d \in Nat /\ o \in Nat /\ g \in Nat
      BY <1>3, <1>5, <1>14, <2>1
    <3> HIDE DEF x, y, g, o, q
    <3>2. g + q + d + y = g + o + c + x
      BY <2>3, <3>1
    <3> QED BY <3>2 DEF x, y, g, o, q
  <2>5. n.body # "ended"
    BY <1>5, <2>1, <2>2, <2>3
  <2> QED BY <1>3, <1>6, <2>2, <2>4, <2>5 DEF Whole, d
<1> QED BY <1>7, <1>8, <1>9, <1>10, <1>11, <1>12, <1>13, <1>15 DEF Sane, m

\* The peer's end of the body, when its chunks are all in the buffer.
LEMMA Ends ==
  ASSUME NEW n, NEW h, NEW u, NEW p, Sane(n, h, u, p), n.tail # <<>>,
         Head(n.tail) = "end", n.body = "open",
         IsRemote(n) \/ ~IsResponseTerminal(n.stream)
  PROVE  Sane([n EXCEPT !.body = "ended"], h, u, p)
<1> DEFINE m == [n EXCEPT !.body = "ended"]
<1>1. /\ n \in NodeRecords /\ n.tail \in Seq(Links) /\ n.stream.at # "unknown" /\ ~n.closed
  BY DEF Sane, Typed, NodeRecords, Known, BodyOrder
<1>2. /\ Sound(n.stream) /\ Sound(h.stream) /\ u
      /\ IF IsRemote(n)
         THEN n.stream.initiator = "node" /\ Link(n.stream, n.wire, h.stream, h.wire)
         ELSE n.stream.initiator = "helper" /\ Link(h.stream, h.wire, n.stream, n.wire)
  BY <1>1, Live
<1>3. /\ m \in NodeRecords /\ m.stream = n.stream /\ m.wire = n.wire
      /\ m.tail = n.tail /\ m.held = n.held /\ m.closed = n.closed
      /\ m.body = "ended" /\ m.pump = n.pump
  BY <1>1 DEF NodeRecords, Bodies
<1>4. 1 \in DOMAIN n.tail /\ n.tail[1] = "end" /\ DOMAIN n.tail = 1..Len(n.tail)
  BY <1>1, Shortened
<1>5. Len(n.tail) = 1 /\ InputOver(n)
  BY <1>4 DEF Sane, TailOrder
<1>6. Count(n.tail, "chunk") = 0
  <2>1. \A k \in DOMAIN n.tail : n.tail[k] # "chunk"
    BY <1>4, <1>5
  <2> QED BY <2>1, CountNone
<1>7. ChunksIn(n, h) = 0
  <2>1. CASE IsRemote(n)
    <3>1. IsResponseTerminal(n.stream) /\ Incoming(n) = "response"
      BY <1>5, <2>1 DEF InputOver, IsResponseTerminal, Incoming
    <3>2. \A k \in DOMAIN h.wire : h.wire[k].type = "window_update"
      BY <1>2, <2>1, <3>1 DEF Link, ResponseOrder
    <3>3. \A k \in DOMAIN h.wire : h.wire[k] # Frame("response_chunk", "helper")
      BY <3>2 DEF Frame
    <3>4. ChunksIn(n, h) = Count(h.wire, Frame("response_chunk", "helper"))
      BY <3>1 DEF ChunksIn, ChunkOf
    <3> QED BY <3>3, <3>4, CountNone
  <2>2. CASE ~IsRemote(n)
    <3>1. n.stream.request = "ended" /\ Incoming(n) = "request"
      BY <1>5, <2>2 DEF InputOver, Incoming, Sane, BodyOrder
    <3>2. \A k \in DOMAIN h.wire : h.wire[k].type # "request_chunk"
      BY <1>2, <2>2, <3>1 DEF Link, RequestOrder
    <3>3. \A k \in DOMAIN h.wire : h.wire[k] # Frame("request_chunk", "helper")
      BY <3>2 DEF Frame
    <3>4. ChunksIn(n, h) = Count(h.wire, Frame("request_chunk", "helper"))
      BY <3>1 DEF ChunksIn, ChunkOf
    <3> QED BY <3>3, <3>4, CountNone
  <2> QED BY <2>1, <2>2
<1> HIDE DEF m
<1>8. /\ IsRemote(m) <=> IsRemote(n)
      /\ Incoming(m) = Incoming(n) /\ Outgoing(m) = Outgoing(n)
      /\ InputOver(m) <=> InputOver(n)
  BY <1>3 DEF IsRemote, Incoming, Outgoing, InputOver
<1>9. Typed(m, h, u, p)
  BY <1>3 DEF Sane, Typed
<1>10. Linked(m, h, u)
  BY <1>3, <1>8 DEF Sane, Linked
<1>11. HelperDrained(m, h, u)
  BY <1>8 DEF Sane, HelperDrained
<1>12. Owed(m) = Owed(n) /\ CreditOf(m.stream, Incoming(m)) = CreditOf(n.stream, Incoming(n))
  BY <1>3, <1>8 DEF Owed
<1>13. NodeDrained(m, u)
  BY <1>3, <1>12 DEF Sane, NodeDrained
<1>14. Known(m, h, u, p)
  BY <1>1, <1>3 DEF Sane, Known
<1>15. TailOrder(m)
  BY <1>3, <1>8 DEF Sane, TailOrder
<1>16. BodyOrder(m)
  BY <1>3, <1>5, <1>8 DEF BodyOrder
<1>17. ChunksIn(m, h) = ChunksIn(n, h)
  BY <1>8 DEF ChunksIn
<1>18. Whole(m, h, p)
  <2>1. /\ p.got \in Nat /\ n.held \in Nat /\ p.sent \in Nat
    BY ChainCounts
  <2>2. h.left + p.sent <= MaxChunks
    BY DEF Sane, Whole
  <2>3. p.got + n.held + Count(n.tail, "chunk") + ChunksIn(n, h) = p.sent
    BY DEF Sane, Whole
  <2>4. p.got + n.held = p.sent
    BY <1>6, <1>7, <2>1, <2>3
  <2>5. p.got + m.held + Count(m.tail, "chunk") + ChunksIn(m, h) <= p.sent
    BY <1>3, <1>17, <2>1, <2>3
  <2> QED BY <1>3, <2>2, <2>4, <2>5 DEF Whole
<1> QED BY <1>9, <1>10, <1>11, <1>13, <1>14, <1>15, <1>16, <1>18 DEF Sane, m

\* #finishRemoteRequestInput
LEMMA FinishesInput ==
  ASSUME NEW n, NEW h, NEW u, NEW p, Sane(n, h, u, p), IsRemote(n)
  PROVE  /\ Sane(FinishInput(n), h, u, p)
         /\ \E s, w :
              /\ FinishInput(n) = [n EXCEPT !.stream = s, !.wire = w]
              /\ s.initiator = n.stream.initiator /\ s.response = n.stream.response
              /\ s.at = n.stream.at
              /\ s.request = n.stream.request
                 \/ (n.stream.request = "response_closed" /\ s.request = "ended")
<1>1. n \in NodeRecords /\ n.stream \in Streams
  BY DEF Sane, Typed, NodeRecords
<1>2. CASE n.stream.at = "active" /\ n.stream.request = "response_closed"
  <2>1. ~n.closed
    BY <1>1, <1>2 DEF Sane, Known
  <2>2. /\ Sane(Send(n, Frame("request_end", "node")), h, u, p)
        /\ Send(n, Frame("request_end", "node"))
             = [n EXCEPT !.stream = [n.stream EXCEPT !.request = "ended"],
                         !.wire = Append(n.wire, Frame("request_end", "node"))]
    BY <1>2, <2>1, NodeSendsEnd
  <2>3. FinishInput(n) = Send(n, Frame("request_end", "node"))
    BY <1>2 DEF FinishInput
  <2> DEFINE s == [n.stream EXCEPT !.request = "ended"]
             w == Append(n.wire, Frame("request_end", "node"))
  <2>4. /\ s.initiator = n.stream.initiator /\ s.response = n.stream.response
        /\ s.at = n.stream.at /\ s.request = "ended"
    BY <1>1 DEF Streams
  <2>5. FinishInput(n) = [n EXCEPT !.stream = s, !.wire = w] /\ Sane(FinishInput(n), h, u, p)
    BY <2>2, <2>3
  <2> HIDE DEF s, w
  <2> QED BY <1>2, <2>4, <2>5
<1>3. CASE ~(n.stream.at = "active" /\ n.stream.request = "response_closed")
  <2>1. FinishInput(n) = n
    BY <1>3 DEF FinishInput
  <2>2. n = [n EXCEPT !.stream = n.stream, !.wire = n.wire]
    BY <1>1 DEF NodeRecords
  <2> QED BY <2>1, <2>2, Zenon
<1> QED BY <1>2, <1>3

\* A grant of the node and the link of the chain it is for go together: the copy
\* gets back what the chain no longer owes.
LEMMA Drains ==
  ASSUME NEW n, NEW h, NEW u, NEW p, Sane(n, h, u, p), n.tail # <<>>,
         Head(n.tail) = "written", ~n.closed,
         NEW s, NEW w, NEW m,
         m = [n EXCEPT !.stream = s, !.wire = w, !.tail = Tail(@)],
         IF IsRemote(n) THEN Link(s, w, h.stream, h.wire) ELSE Link(h.stream, h.wire, s, w),
         s.at = n.stream.at, s.initiator = n.stream.initiator,
         s.request = n.stream.request, s.response = n.stream.response,
         CreditOf(s, Incoming(n)) = CreditOf(n.stream, Incoming(n)) + 1
  PROVE  Sane(m, h, u, p)
<1> DEFINE c == Count(n.tail, "chunk")
           d == Count(m.tail, "chunk")
           b == Count(n.tail, "written")
           a == Count(m.tail, "written")
<1>1. /\ n \in NodeRecords /\ n.tail \in Seq(Links) /\ n.stream.at # "unknown" /\ u
      /\ n.pump # "idle"
  BY Live DEF Sane, Typed, NodeRecords, Known
<1>2. /\ Tail(n.tail) \in Seq(Links) /\ DOMAIN n.tail = 1..Len(n.tail) /\ Len(n.tail) \in Nat \ {0}
      /\ DOMAIN Tail(n.tail) = 1..(Len(n.tail) - 1) /\ Len(Tail(n.tail)) = Len(n.tail) - 1
      /\ \A k \in DOMAIN Tail(n.tail) : k + 1 \in DOMAIN n.tail /\ Tail(n.tail)[k] = n.tail[k + 1]
  BY <1>1, Shortened
<1>3. s \in Streams /\ w \in Seq(Frames)
  BY WiresType
<1>4. /\ m \in NodeRecords /\ m.stream = s /\ m.wire = w
      /\ m.tail = Tail(n.tail) /\ m.held = n.held /\ m.closed = n.closed
      /\ m.body = n.body /\ m.pump = n.pump /\ m.aborted = n.aborted
  BY <1>1, <1>2, <1>3 DEF NodeRecords
<1>5. c = d /\ b = a + 1
  <2>1. /\ c = d + (IF Head(n.tail) = "chunk" THEN 1 ELSE 0)
        /\ b = a + (IF Head(n.tail) = "written" THEN 1 ELSE 0)
    BY <1>1, <1>4, CountTail
  <2>2. d \in Nat /\ a \in Nat
    BY <1>2, <1>4, PositionsFinite
  <2> QED BY <2>1, <2>2
<1>6. c \in Nat /\ d \in Nat /\ b \in Nat /\ a \in Nat
  BY <1>1, <1>2, <1>4, PositionsFinite
<1>7. /\ IsRemote(m) <=> IsRemote(n)
      /\ Incoming(m) = Incoming(n) /\ Outgoing(m) = Outgoing(n)
      /\ InputOver(m) <=> InputOver(n)
      /\ IsResponseTerminal(m.stream) <=> IsResponseTerminal(n.stream)
      /\ Takes(m.stream, Incoming(m)) <=> Takes(n.stream, Incoming(n))
  BY <1>4 DEF IsRemote, Incoming, Outgoing, InputOver, IsResponseTerminal, Takes
<1>8. Typed(m, h, u, p)
  BY <1>4 DEF Sane, Typed
<1>9. Linked(m, h, u)
  BY <1>4, <1>7 DEF Linked
<1>10. HelperDrained(m, h, u)
  BY <1>7 DEF Sane, HelperDrained
<1>11. NodeDrained(m, u)
  <2> DEFINE q == CreditOf(n.stream, Incoming(n))
             r == CreditOf(m.stream, Incoming(m))
  <2>1. Owed(m) = d + a /\ Owed(n) = c + b
    BY DEF Owed
  <2>2. r = q + 1 /\ q \in Nat /\ Credit \in Nat
    BY <1>4, <1>7, ChainCounts
  <2>3. /\ q + Owed(n) <= Credit
        /\ Takes(n.stream, Incoming(n)) /\ n.body = "open" => q + Owed(n) = Credit
    BY <1>1 DEF Sane, NodeDrained
  <2>4. r + Owed(m) = q + Owed(n)
    <3> HIDE DEF a, b, c, d, q, r
    <3> QED BY <1>5, <1>6, <2>1, <2>2
  <2>5. /\ r + Owed(m) <= Credit
        /\ Takes(m.stream, Incoming(m)) /\ m.body = "open" => r + Owed(m) = Credit
    BY <1>4, <1>7, <2>3, <2>4
  <2> QED BY <2>5 DEF NodeDrained
<1>12. Known(m, h, u, p)
  BY <1>1, <1>4 DEF Sane, Known
<1>13. TailOrder(m)
  <2>1. \A k \in DOMAIN m.tail : m.tail[k] \in {"end", "remove"} => k = Len(m.tail)
    <3>1. SUFFICES ASSUME NEW k \in DOMAIN m.tail, m.tail[k] \in {"end", "remove"}
                   PROVE  k = Len(m.tail)
      OBVIOUS
    <3>2. k + 1 \in DOMAIN n.tail /\ n.tail[k + 1] \in {"end", "remove"}
      BY <1>2, <1>4, <3>1
    <3>3. k + 1 = Len(n.tail)
      BY <3>2 DEF Sane, TailOrder
    <3> QED BY <1>2, <1>4, <3>1, <3>3
  <2>2. \A k \in DOMAIN m.tail : \E l \in DOMAIN n.tail : m.tail[k] = n.tail[l]
    BY <1>2, <1>4
  <2>3. \A k \in DOMAIN m.tail : m.tail[k] = "end" => InputOver(m)
    BY <1>7, <2>2 DEF Sane, TailOrder
  <2>4. \A k \in DOMAIN m.tail : m.tail[k] = "remove" =>
          IsRemote(m) /\ IsResponseTerminal(m.stream) /\ m.body # "open"
    BY <1>4, <1>7, <2>2 DEF Sane, TailOrder
  <2> QED BY <2>1, <2>3, <2>4 DEF TailOrder
<1>14. BodyOrder(m)
  BY <1>4, <1>7 DEF Sane, BodyOrder
<1>15. ChunksIn(m, h) = ChunksIn(n, h)
  BY <1>7 DEF ChunksIn
<1>16. Whole(m, h, p)
  BY <1>4, <1>5, <1>7, <1>15 DEF Sane, Whole
<1> QED BY <1>8, <1>9, <1>10, <1>11, <1>12, <1>13, <1>14, <1>16 DEF Sane

\* The chunk's credit goes back, or is not asked for: never refused.
LEMMA Grants ==
  ASSUME NEW n, NEW h, NEW u, NEW p, Sane(n, h, u, p), n.tail # <<>>,
         Head(n.tail) = "written", ~n.closed
  PROVE  LET f == Grant(Incoming(n), "node") IN
         /\ Sane(Next1(Send(n, f)), h, u, p)
         /\ ~SendRefused(n, f)
         /\ \E s, w : /\ Next1(Send(n, f)) = [n EXCEPT !.stream = s, !.wire = w, !.tail = Tail(@)]
                      /\ s.initiator = n.stream.initiator /\ s.at = n.stream.at
                      /\ s.request = n.stream.request /\ s.response = n.stream.response
<1> DEFINE f == Grant(Incoming(n), "node")
           q == CreditOf(n.stream, Incoming(n))
<1>1. /\ n.stream.at # "unknown" /\ n.tail \in Seq(Links) /\ n \in NodeRecords
  BY DEF Sane, Known, Typed, NodeRecords
<1>2. /\ u /\ n.stream.at = "active" /\ Sound(n.stream)
      /\ IF IsRemote(n)
         THEN n.stream.initiator = "node" /\ Link(n.stream, n.wire, h.stream, h.wire)
         ELSE n.stream.initiator = "helper" /\ Link(h.stream, h.wire, n.stream, n.wire)
  BY <1>1, Live
<1>3. q < Credit
  <2>1. Count(n.tail, "written") = Count(Tail(n.tail), "written") + 1
    BY <1>1, CountTail
  <2>2. Count(Tail(n.tail), "written") \in Nat /\ Count(n.tail, "chunk") \in Nat
    <3>1. Tail(n.tail) \in Seq(Links)
      BY <1>1, Shortened
    <3> QED BY <1>1, <3>1, PositionsFinite
  <2>3. Owed(n) \in Nat \ {0}
    BY <2>1, <2>2 DEF Owed
  <2>4. q + Owed(n) <= Credit
    BY <1>2 DEF Sane, NodeDrained
  <2>5. q \in Nat /\ Credit \in Nat
    BY ChainCounts
  <2> QED BY <2>3, <2>4, <2>5
<1>4. CASE ~Takes(n.stream, Incoming(n))
  <2>1. Receive(n.stream, f) = To("window_ignored", n.stream)
    <3>1. CASE IsRemote(n)
      <4>1. IsResponseTerminal(n.stream) /\ f = Grant("response", n.stream.initiator)
        BY <1>2, <1>4, <3>1 DEF Takes, Incoming
      <4> QED BY <1>2, <4>1, TakesResponseGrant
    <3>2. CASE ~IsRemote(n)
      <4>1. n.stream.request # "open" /\ f = Grant("request", Opposite(n.stream.initiator))
        BY <1>2, <1>4, <3>2 DEF Takes, Incoming, Opposite
      <4> QED BY <1>2, <4>1, TakesRequestGrant
    <3> QED BY <3>1, <3>2
  <2>2. Send(n, f) = n /\ ~SendRefused(n, f)
    BY <1>1, <2>1, SendIgnored DEF Ignored
  <2>3. Sane(Next1(n), h, u, p)
    BY <1>4, Pops
  <2>4. Next1(n) = [n EXCEPT !.stream = n.stream, !.wire = n.wire, !.tail = Tail(@)]
    BY <1>1 DEF NodeRecords, Next1
  <2> QED BY <2>2, <2>3, <2>4
<1>5. CASE Takes(n.stream, Incoming(n)) /\ IsRemote(n)
  <2> DEFINE s == [n.stream EXCEPT !.responseCredit = @ + 1]
             w == Append(n.wire, f)
             m == [n EXCEPT !.stream = s, !.wire = w, !.tail = Tail(@)]
  <2>1. /\ ~IsResponseTerminal(n.stream) /\ Incoming(n) = "response"
        /\ f = Grant("response", n.stream.initiator) /\ n.stream.responseCredit < Credit
    BY <1>2, <1>3, <1>5 DEF Takes, Incoming, CreditOf
  <2>2. Receive(n.stream, f) = To("window_updated", s)
    BY <1>2, <2>1, TakesResponseGrant
  <2>3. "window_updated" \notin Ignored \union Refused
    BY DEF Ignored, Refused
  <2>4. Send(n, f) = [n EXCEPT !.stream = s, !.wire = w] /\ ~SendRefused(n, f)
    BY <2>2, <2>3, SendTaken, Zenon
  <2>5. Link(s, w, h.stream, h.wire)
    BY <1>2, <1>5, <2>1, SendResponseGrant
  <2>6. /\ s.at = n.stream.at /\ s.initiator = n.stream.initiator
        /\ s.request = n.stream.request /\ s.response = n.stream.response
        /\ s.responseCredit = n.stream.responseCredit + 1
    BY <1>2 DEF Sound, Streams
  <2> HIDE DEF s, w
  <2>7. CreditOf(s, Incoming(n)) = CreditOf(n.stream, Incoming(n)) + 1
    BY <2>1, <2>6 DEF CreditOf
  <2>8. Sane(m, h, u, p)
    BY <1>5, <2>5, <2>6, <2>7, Drains
  <2>9. Next1(Send(n, f)) = m
    BY <1>1, <2>4 DEF Next1, NodeRecords
  <2> QED BY <2>4, <2>6, <2>8, <2>9
<1>6. CASE Takes(n.stream, Incoming(n)) /\ ~IsRemote(n)
  <2> DEFINE s == [n.stream EXCEPT !.requestCredit = @ + 1]
             w == Append(n.wire, f)
             m == [n EXCEPT !.stream = s, !.wire = w, !.tail = Tail(@)]
  <2>1. /\ n.stream.request = "open" /\ Incoming(n) = "request"
        /\ f = Grant("request", Opposite(n.stream.initiator)) /\ n.stream.requestCredit < Credit
    BY <1>2, <1>3, <1>6 DEF Takes, Incoming, CreditOf, Opposite
  <2>2. Receive(n.stream, f) = To("window_updated", s)
    BY <1>2, <2>1, TakesRequestGrant
  <2>3. "window_updated" \notin Ignored \union Refused
    BY DEF Ignored, Refused
  <2>4. Send(n, f) = [n EXCEPT !.stream = s, !.wire = w] /\ ~SendRefused(n, f)
    BY <2>2, <2>3, SendTaken, Zenon
  <2>5. h.stream.initiator = n.stream.initiator
    BY DEF Sane, Known
  <2>6. Link(h.stream, h.wire, s, w)
    BY <1>2, <1>6, <2>1, <2>5, SendRequestGrant
  <2>7. /\ s.at = n.stream.at /\ s.initiator = n.stream.initiator
        /\ s.request = n.stream.request /\ s.response = n.stream.response
        /\ s.requestCredit = n.stream.requestCredit + 1
    BY <1>2 DEF Sound, Streams
  <2> HIDE DEF s, w
  <2>8. CreditOf(s, Incoming(n)) = CreditOf(n.stream, Incoming(n)) + 1
    BY <2>1, <2>7 DEF CreditOf
  <2>9. Sane(m, h, u, p)
    BY <1>6, <2>6, <2>7, <2>8, Drains
  <2>10. Next1(Send(n, f)) = m
    BY <1>1, <2>4 DEF Next1, NodeRecords
  <2> QED BY <2>4, <2>7, <2>9, <2>10
<1> QED BY <1>4, <1>5, <1>6

-----------------------------------------------------------------------------
(* What a frame of the helper brings.                                      *)

\* Before the peer's body is over its end is not in the chain.
LEMMA NoEnd ==
  ASSUME NEW n, TailOrder(n), ~InputOver(n), IsRemote(n) => ~IsResponseTerminal(n.stream)
  PROVE  \A k \in DOMAIN n.tail : n.tail[k] \notin {"end", "remove"}
BY DEF TailOrder

\* The end of a body goes behind its chunks.
LEMMA EndFollows ==
  ASSUME NEW n, NEW h, NEW u, NEW p, Sane(n, h, u, p), InputOver(n),
         n.stream.at # "unknown",
         \A k \in DOMAIN n.tail : n.tail[k] \notin {"end", "remove"},
         NEW m, m = [n EXCEPT !.tail = Append(@, "end")]
  PROVE  Sane(m, h, u, p)
<1>1. /\ n \in NodeRecords /\ n.tail \in Seq(Links) /\ "end" \in Links
  BY DEF Sane, Typed, NodeRecords, Links
<1>2. /\ m \in NodeRecords /\ m.stream = n.stream /\ m.wire = n.wire
      /\ m.tail = Append(n.tail, "end") /\ m.held = n.held /\ m.closed = n.closed
      /\ m.body = n.body /\ m.pump = n.pump
  <2>1. Append(n.tail, "end") \in Seq(Links)
    BY <1>1, Appended
  <2> QED BY <1>1, <2>1 DEF NodeRecords
<1>3. /\ DOMAIN n.tail = 1..Len(n.tail) /\ Len(n.tail) \in Nat
      /\ DOMAIN m.tail = 1..(Len(n.tail) + 1) /\ Len(m.tail) = Len(n.tail) + 1
      /\ \A k \in DOMAIN n.tail : m.tail[k] = n.tail[k]
      /\ m.tail[Len(n.tail) + 1] = "end"
  BY <1>1, <1>2, Appended
<1>4. Count(m.tail, "chunk") = Count(n.tail, "chunk") /\ Count(m.tail, "written") = Count(n.tail, "written")
  <2>1. Count(n.tail, "chunk") \in Nat /\ Count(n.tail, "written") \in Nat
    BY <1>1, PositionsFinite
  <2>2. /\ Count(m.tail, "chunk") = Count(n.tail, "chunk") + (IF "end" = "chunk" THEN 1 ELSE 0)
        /\ Count(m.tail, "written") = Count(n.tail, "written") + (IF "end" = "written" THEN 1 ELSE 0)
    BY <1>1, <1>2, CountAppend
  <2> QED BY <2>1, <2>2
<1>5. /\ IsRemote(m) <=> IsRemote(n)
      /\ Incoming(m) = Incoming(n) /\ Outgoing(m) = Outgoing(n)
      /\ InputOver(m)
  BY <1>2 DEF IsRemote, Incoming, Outgoing, InputOver
<1>6. Typed(m, h, u, p)
  BY <1>2 DEF Sane, Typed
<1>7. Linked(m, h, u)
  BY <1>2, <1>5 DEF Sane, Linked
<1>8. HelperDrained(m, h, u)
  BY <1>5 DEF Sane, HelperDrained
<1>9. Owed(m) = Owed(n) /\ CreditOf(m.stream, Incoming(m)) = CreditOf(n.stream, Incoming(n))
  BY <1>2, <1>4, <1>5 DEF Owed
<1>10. NodeDrained(m, u)
  BY <1>2, <1>5, <1>9 DEF Sane, NodeDrained
<1>11. Known(m, h, u, p)
  BY <1>1, <1>2 DEF Sane, Known
<1>12. TailOrder(m)
  <2>1. \A k \in DOMAIN m.tail : m.tail[k] \in {"end", "remove"} => k = Len(m.tail) /\ m.tail[k] = "end"
    BY <1>3
  <2> QED BY <1>5, <2>1 DEF TailOrder
<1>13. BodyOrder(m)
  BY <1>2, <1>5 DEF Sane, BodyOrder
<1>14. ChunksIn(m, h) = ChunksIn(n, h)
  BY <1>5 DEF ChunksIn
<1>15. Whole(m, h, p)
  BY <1>2, <1>4, <1>5, <1>14 DEF Sane, Whole
<1> QED BY <1>6, <1>7, <1>8, <1>10, <1>11, <1>12, <1>13, <1>15 DEF Sane

\* A frame read from the wire is one less on it.
LEMMA ChunksRead ==
  ASSUME NEW n, NEW h \in HelperRecords, h.wire # <<>>, NEW g, g = [h EXCEPT !.wire = Tail(@)]
  PROVE  /\ g \in HelperRecords /\ g.stream = h.stream /\ g.owed = h.owed
         /\ g.left = h.left /\ g.wire = Tail(h.wire)
         /\ ChunksIn(n, h) \in Nat /\ ChunksIn(n, g) \in Nat
         /\ Head(h.wire).type # ChunkOf(Incoming(n)) => ChunksIn(n, g) = ChunksIn(n, h)
         /\ Head(h.wire) = Frame(ChunkOf(Incoming(n)), "helper") =>
              ChunksIn(n, h) = ChunksIn(n, g) + 1
<1> DEFINE f == Frame(ChunkOf(Incoming(n)), "helper")
<1>1. h.wire \in Seq(Frames) /\ Tail(h.wire) \in Seq(Frames)
  BY DEF HelperRecords
<1>2. /\ g \in HelperRecords /\ g.stream = h.stream /\ g.owed = h.owed
      /\ g.left = h.left /\ g.wire = Tail(h.wire)
  BY <1>1 DEF HelperRecords
<1>3. Count(h.wire, f) = Count(Tail(h.wire), f) + (IF Head(h.wire) = f THEN 1 ELSE 0)
  BY <1>1, CountTail
<1>4. Count(h.wire, f) \in Nat /\ Count(Tail(h.wire), f) \in Nat
  BY <1>1, PositionsFinite
<1>5. ChunksIn(n, h) = Count(h.wire, f) /\ ChunksIn(n, g) = Count(Tail(h.wire), f)
  BY <1>2 DEF ChunksIn
<1>6. f.type = ChunkOf(Incoming(n))
  BY DEF Frame
<1> HIDE DEF f
<1>7. Head(h.wire).type # ChunkOf(Incoming(n)) => ChunksIn(n, g) = ChunksIn(n, h)
  BY <1>3, <1>4, <1>5, <1>6
<1>8. Head(h.wire) = f => ChunksIn(n, h) = ChunksIn(n, g) + 1
  BY <1>3, <1>4, <1>5
<1> QED BY <1>2, <1>4, <1>5, <1>7, <1>8 DEF f

\* A chunk of the peer's body: it joins the chain, or is dropped when the node
\* no longer takes the body.
LEMMA ChunkArrives ==
  ASSUME NEW n, NEW h, NEW u, NEW p, Sane(n, h, u, p), u,
         n.stream.at = "active", h.wire # <<>>,
         Head(h.wire) = Frame(ChunkOf(Incoming(n)), "helper"),
         NEW g, g = [h EXCEPT !.wire = Tail(@)],
         NEW m \in NodeRecords, m.held = n.held, m.closed = n.closed,
         m.body = n.body, m.pump # "idle",
         m.stream.at = "active", m.stream.initiator = n.stream.initiator,
         m.stream.request = n.stream.request, m.stream.response = n.stream.response,
         CreditOf(n.stream, Incoming(n)) = CreditOf(m.stream, Incoming(n)) + 1,
         IF Takes(n.stream, Incoming(n)) THEN m.tail = Append(n.tail, "chunk")
         ELSE m.tail = n.tail /\ ~IsRemote(n),
         Linked(m, g, u)
  PROVE  Sane(m, g, u, p)
<1> DEFINE c == Count(n.tail, "chunk")
           d == Count(m.tail, "chunk")
           b == Count(n.tail, "written")
           a == Count(m.tail, "written")
           x == ChunksIn(n, h)
           y == ChunksIn(m, g)
           q == CreditOf(n.stream, Incoming(n))
           r == CreditOf(m.stream, Incoming(m))
           taken == Takes(n.stream, Incoming(n))
<1>1. /\ n \in NodeRecords /\ h \in HelperRecords /\ n.tail \in Seq(Links)
      /\ "chunk" \in Links /\ n.stream.at # "unknown" /\ ~n.closed
  BY DEF Sane, Typed, NodeRecords, Links, Known
<1>2. Sound(n.stream) /\ n.pump # "idle"
  BY <1>1, Live
<1>3. /\ IsRemote(m) <=> IsRemote(n)
      /\ Incoming(m) = Incoming(n) /\ Outgoing(m) = Outgoing(n)
      /\ InputOver(m) <=> InputOver(n)
      /\ IsResponseTerminal(m.stream) <=> IsResponseTerminal(n.stream)
      /\ Takes(m.stream, Incoming(m)) <=> Takes(n.stream, Incoming(n))
  BY DEF IsRemote, Incoming, Outgoing, InputOver, IsResponseTerminal, Takes
<1>4. /\ g \in HelperRecords /\ g.stream = h.stream /\ g.owed = h.owed /\ g.left = h.left
  BY <1>1, ChunksRead
<1>5. x = y + 1 /\ x \in Nat /\ y \in Nat
  <2>1. ChunksIn(m, g) = ChunksIn(n, g)
    BY <1>3 DEF ChunksIn
  <2> QED BY <1>1, <2>1, ChunksRead
<1>6. /\ taken => d = c + 1 /\ a = b
      /\ ~taken => d = c /\ a = b
      /\ c \in Nat /\ d \in Nat /\ a \in Nat /\ b \in Nat
  <2>1. c \in Nat /\ b \in Nat
    BY <1>1, PositionsFinite
  <2>2. CASE taken
    <3>1. m.tail = Append(n.tail, "chunk")
      BY <2>2
    <3>2. /\ d = c + (IF "chunk" = "chunk" THEN 1 ELSE 0)
          /\ a = b + (IF "chunk" = "written" THEN 1 ELSE 0)
      BY <1>1, <3>1, CountAppend
    <3> HIDE DEF a, b, c, d
    <3>3. d = c + 1 /\ a = b
      BY <2>1, <3>2
    <3> HIDE DEF taken
    <3> QED BY <2>1, <2>2, <3>3
  <2>3. CASE ~taken
    BY <2>1, <2>3
  <2> QED BY <2>2, <2>3
<1>7. Typed(m, g, u, p)
  BY <1>4 DEF Sane, Typed
<1>8. HelperDrained(m, g, u)
  BY <1>3, <1>4 DEF Sane, HelperDrained
<1>9. NodeDrained(m, u)
  <2>1. Owed(m) = d + a /\ Owed(n) = c + b
    BY DEF Owed
  <2>2. q = r + 1 /\ q \in Nat /\ r \in Nat /\ Credit \in Nat
    <3>1. m.stream \in Streams
      BY DEF NodeRecords
    <3>2. CreditOf(m.stream, Incoming(m)) \in Nat
      BY <3>1, CreditAssumption DEF CreditOf, Streams
    <3> QED BY <1>3, <3>2, ChainCounts
  <2>3. q + Owed(n) <= Credit /\ (taken /\ n.body = "open" => q + Owed(n) = Credit)
    BY DEF Sane, NodeDrained
  <2>4. (taken => r + Owed(m) = q + Owed(n)) /\ r + Owed(m) <= q + Owed(n)
    <3>1. taken => Owed(m) = Owed(n) + 1
      <4>1. SUFFICES ASSUME taken PROVE Owed(m) = Owed(n) + 1
        OBVIOUS
      <4>2. d = c + 1 /\ a = b /\ c \in Nat /\ b \in Nat
        BY <1>6, <4>1
      <4> HIDE DEF a, b, c, d
      <4> QED BY <2>1, <4>2
    <3>2. ~taken => Owed(m) = Owed(n)
      <4>1. SUFFICES ASSUME ~taken PROVE Owed(m) = Owed(n)
        OBVIOUS
      <4> QED BY <1>6, <2>1, <4>1
    <3>3. Owed(n) \in Nat
      BY ChainCounts
    <3>4. ASSUME NEW v \in Nat, NEW z, z = v + 1 PROVE r + z = q + v
      BY <2>2, <3>4
    <3>5. ASSUME NEW v \in Nat PROVE r + v <= q + v
      BY <2>2, <3>5
    <3>6. q + Owed(n) \in Nat
      BY <2>2, <3>3
    <3>7. taken => r + Owed(m) = q + Owed(n)
      BY <3>1, <3>3, <3>4
    <3>8. ~taken => r + Owed(m) <= q + Owed(n)
      BY <3>2, <3>3, <3>5
    <3> HIDE DEF taken, q, r
    <3> QED BY <3>6, <3>7, <3>8
  <2>5. r + Owed(m) \in Nat /\ q + Owed(n) \in Nat
    <3> HIDE DEF a, b, c, d, q, r, taken
    <3> QED BY <1>6, <2>1, <2>2, SMTT(30)
  <2>6. r + Owed(m) <= Credit /\ (taken /\ n.body = "open" => r + Owed(m) = Credit)
    <3> HIDE DEF q, r, taken
    <3> QED BY <2>2, <2>3, <2>4, <2>5
  <2> QED BY <1>3, <2>6 DEF NodeDrained
<1>10. Known(m, g, u, p)
  BY <1>1, <1>4 DEF Sane, Known
<1>11. TailOrder(m)
  <2>1. CASE ~taken
    BY <1>3, <2>1 DEF Sane, TailOrder
  <2>2. CASE taken
    <3>1. ~InputOver(n) /\ (IsRemote(n) => ~IsResponseTerminal(n.stream))
      BY <2>2 DEF Takes, Incoming, InputOver, IsResponseTerminal
    <3>2. \A k \in DOMAIN n.tail : n.tail[k] \notin {"end", "remove"}
      BY <3>1, NoEnd DEF Sane
    <3>3. m.tail = Append(n.tail, "chunk")
      BY <2>2
    <3>4. /\ DOMAIN n.tail = 1..Len(n.tail) /\ DOMAIN m.tail = 1..(Len(n.tail) + 1)
          /\ Len(n.tail) \in Nat /\ m.tail[Len(n.tail) + 1] = "chunk"
          /\ \A k \in DOMAIN n.tail : m.tail[k] = n.tail[k]
      BY <1>1, <3>3, Appended
    <3>5. \A k \in DOMAIN m.tail : m.tail[k] \notin {"end", "remove"}
      BY <3>2, <3>4
    <3> QED BY <3>5 DEF TailOrder
  <2> QED BY <2>1, <2>2
<1>12. BodyOrder(m)
  BY <1>3 DEF Sane, BodyOrder
<1>13. Whole(m, g, p)
  <2>1. /\ p.got \in Nat /\ n.held \in Nat /\ p.sent \in Nat
    BY ChainCounts
  <2>2. /\ h.left + p.sent <= MaxChunks
        /\ p.got + n.held + c + x <= p.sent
        /\ n.body = "open" /\ (IsRemote(n) \/ ~IsResponseTerminal(n.stream)) =>
             p.got + n.held + c + x = p.sent
        /\ n.body = "ended" => p.got + n.held = p.sent
        /\ n.body = "read" => p.got = p.sent
    BY DEF Sane, Whole
  <2>3. taken => p.got + m.held + d + y = p.got + n.held + c + x
    <3>1. SUFFICES ASSUME taken PROVE p.got + m.held + d + y = p.got + n.held + c + x
      OBVIOUS
    <3>2. d = c + 1 /\ m.held = n.held /\ c \in Nat
      BY <1>6, <3>1
    <3>3. x = y + 1 /\ y \in Nat /\ p.got \in Nat /\ n.held \in Nat
      BY <1>5, <2>1
    <3> HIDE DEF c, d, x, y
    <3> QED BY <3>2, <3>3
  <2>4. p.got + m.held + d + y <= p.sent
    <3> HIDE DEF c, d, x, y, taken
    <3> QED BY <1>5, <1>6, <2>1, <2>2, SMTT(30)
  <2>5. n.body = "open" /\ (IsRemote(n) \/ ~IsResponseTerminal(n.stream)) => taken
    <3>1. SUFFICES ASSUME n.body = "open", ~taken PROVE ~IsRemote(n) /\ IsResponseTerminal(n.stream)
      OBVIOUS
    <3>2. n.stream.request # "open" /\ ~IsRemote(n)
      BY <3>1 DEF Takes, Incoming
    <3>3. n.stream.request \notin {"cancelled", "ended"}
      <4>1. n.stream.request # "cancelled"
        BY <3>1, <3>2 DEF Sane, BodyOrder
      <4>2. n.stream.request # "ended"
        <5>1. Link(h.stream, h.wire, n.stream, n.wire)
          BY <3>2 DEF Sane, Linked
        <5>2. h.wire[1] = Frame("request_chunk", "helper") /\ 1 \in DOMAIN h.wire
          <6>1. h.wire \in Seq(Frames)
            BY <1>1 DEF HelperRecords
          <6> QED BY <3>2, <6>1, Shortened DEF Incoming, ChunkOf
        <5>3. h.wire[1].type = "request_chunk"
          BY <5>2 DEF Frame
        <5> QED BY <5>1, <5>2, <5>3 DEF Link, RequestOrder
      <4> QED BY <4>1, <4>2
    <3>4. n.stream.request = "response_closed"
      BY <1>2, <3>2, <3>3, StreamType DEF RequestStates
    <3> QED BY <1>2, <3>2, <3>4 DEF Sound
  <2>6. m.body = "open" /\ (IsRemote(m) \/ ~IsResponseTerminal(m.stream)) =>
             p.got + m.held + d + y = p.sent
    BY <1>3, <2>2, <2>3, <2>5
  <2> QED BY <1>4, <2>2, <2>4, <2>6 DEF Whole
<1> QED BY <1>7, <1>8, <1>9, <1>10, <1>11, <1>12, <1>13 DEF Sane

\* A response that failed breaks the body: its chain ends, and the stream is
\* removed.
LEMMA BodyBreaks ==
  ASSUME NEW n, NEW h, NEW u, NEW p, Sane(n, h, u, p), IsRemote(n),
         n.stream.at # "unknown", IsResponseTerminal(n.stream), n.stream.response # "succeeded",
         NEW caller \in {"none", "waiting", "answered", "rejected"}, NEW m,
         m = [n EXCEPT !.caller = caller, !.body = Destroyed(@), !.tail = <<"remove">>]
  PROVE  Sane(m, h, u, p)
<1>1. n \in NodeRecords /\ n.tail \in Seq(Links) /\ n.body \in Bodies
  BY DEF Sane, Typed, NodeRecords
<1>2. n.body # "read"
  BY DEF Sane, BodyOrder, InputOver
<1>3. /\ m \in NodeRecords /\ m.stream = n.stream /\ m.wire = n.wire
      /\ m.tail = <<"remove">> /\ m.held = n.held /\ m.closed = n.closed
      /\ m.body = "destroyed" /\ m.pump = n.pump
  <2>1. m = [n EXCEPT !.caller = caller, !.body = "destroyed", !.tail = <<"remove">>]
    BY <1>1, <1>2 DEF Destroyed
  <2>2. <<"remove">> \in Seq(Links) /\ "destroyed" \in Bodies
    BY DEF Links, Bodies
  <2> QED BY <1>1, <2>1, <2>2 DEF NodeRecords
<1>4. /\ IsRemote(m) /\ Incoming(m) = "response" /\ Incoming(n) = "response"
      /\ Outgoing(m) = Outgoing(n)
  BY <1>3 DEF IsRemote, Incoming, Outgoing
<1>5. Count(m.tail, "chunk") = 0 /\ Count(m.tail, "written") = 0
  <2>1. \A k \in DOMAIN m.tail : m.tail[k] = "remove"
    BY <1>3
  <2> QED BY <2>1, CountNone
<1>6. Typed(m, h, u, p)
  BY <1>3 DEF Sane, Typed
<1>7. Linked(m, h, u)
  BY <1>3, <1>4 DEF Sane, Linked
<1>8. HelperDrained(m, h, u)
  BY <1>4 DEF Sane, HelperDrained
<1>9. NodeDrained(m, u)
  <2>1. Owed(m) = 0
    BY <1>5 DEF Owed
  <2>2. CreditOf(m.stream, Incoming(m)) = CreditOf(n.stream, Incoming(n))
    BY <1>3, <1>4
  <2>3. /\ Owed(n) \in Nat /\ Credit \in Nat /\ CreditOf(n.stream, Incoming(n)) \in Nat
    BY ChainCounts
  <2>4. u => CreditOf(n.stream, Incoming(n)) + Owed(n) <= Credit
    BY DEF Sane, NodeDrained
  <2>5. ~Takes(m.stream, Incoming(m))
    BY <1>3, <1>4 DEF Takes
  <2>6. u => CreditOf(m.stream, Incoming(m)) + Owed(m) <= Credit
    BY <2>1, <2>2, <2>3, <2>4
  <2> QED BY <2>5, <2>6 DEF NodeDrained
<1>10. Known(m, h, u, p)
  BY <1>1, <1>3 DEF Sane, Known
<1>11. TailOrder(m)
  BY <1>3, <1>4 DEF TailOrder
<1>12. BodyOrder(m)
  BY <1>3, <1>4 DEF BodyOrder
<1>13. ChunksIn(m, h) = ChunksIn(n, h)
  BY <1>4 DEF ChunksIn
<1>14. Whole(m, h, p)
  <2>1. /\ p.got \in Nat /\ n.held \in Nat /\ p.sent \in Nat /\ ChunksIn(n, h) \in Nat
        /\ Count(n.tail, "chunk") \in Nat
    BY ChainCounts
  <2>2. /\ h.left + p.sent <= MaxChunks
        /\ p.got + n.held + Count(n.tail, "chunk") + ChunksIn(n, h) <= p.sent
    BY DEF Sane, Whole
  <2>3. p.got + m.held + Count(m.tail, "chunk") + ChunksIn(m, h) <= p.sent
    BY <1>3, <1>5, <1>13, <2>1, <2>2
  <2> QED BY <1>3, <2>2, <2>3 DEF Whole
<1> QED BY <1>6, <1>7, <1>8, <1>9, <1>10, <1>11, <1>12, <1>14 DEF Sane

\* The helper opens a stream: the app is asked.
LEMMA HostOpens ==
  ASSUME NEW n, NEW h, NEW u, NEW p, Sane(n, h, u, p), u,
         ~IsRemote(n), n.stream.at = "unknown", h.wire # <<>>,
         Head(h.wire) = Frame("request_start", "helper"),
         NEW g, g = [h EXCEPT !.wire = Tail(@)],
         NEW m, m = [n EXCEPT !.stream = Started("helper"), !.pump = "dispatching"]
  PROVE  Sane(m, g, u, p)
<1>1. /\ n \in NodeRecords /\ h \in HelperRecords
      /\ Link(h.stream, h.wire, n.stream, n.wire)
      /\ n.tail = <<>> /\ ~n.closed /\ n.body = "open" /\ n.held = 0 /\ p.got = 0
      /\ h.stream.initiator = n.stream.initiator
  BY DEF Sane, Typed, Known, Linked
<1>2. Sound(n.stream) /\ n.stream = Unstarted("helper")
  BY <1>1 DEF Link, Wires, Sound, Streams, Sides, IsRemote
<1>3. n.stream.initiator = "helper" /\ h.stream.initiator = "helper"
  BY <1>1, <1>2 DEF Unstarted, Started
<1>4. Link(h.stream, Tail(h.wire), Started("helper"), n.wire)
  BY <1>1, <1>3, ReadStart
<1>5. /\ g \in HelperRecords /\ g.stream = h.stream /\ g.owed = h.owed /\ g.left = h.left
      /\ g.wire = Tail(h.wire)
  BY <1>1, ChunksRead
<1> DEFINE s == Started("helper")
<1>6. s \in Streams
  BY <1>4, WiresType
<1>7. /\ s.at = "active" /\ s.initiator = "helper" /\ s.request = "open" /\ s.response = "none"
      /\ s.requestCredit = n.stream.requestCredit /\ n.stream.request = "open"
      /\ n.stream.response = "none"
  BY <1>2 DEF Started, Unstarted
<1> HIDE DEF s
<1>8. /\ m \in NodeRecords /\ m.stream = s /\ m.wire = n.wire /\ m.tail = <<>> /\ m.held = 0
      /\ ~m.closed /\ m.body = "open" /\ m.pump = "dispatching"
  <2>1. m = [n EXCEPT !.stream = s, !.pump = "dispatching"]
    BY DEF s
  <2> QED BY <1>1, <1>6, <2>1 DEF NodeRecords, Pumps
<1>9. /\ ~IsRemote(m) /\ Incoming(m) = "request" /\ Outgoing(m) = "response"
      /\ Incoming(n) = "request" /\ Outgoing(n) = "response"
  BY <1>7, <1>8 DEF IsRemote, Incoming, Outgoing
<1>10. Typed(m, g, u, p)
  BY <1>5, <1>8 DEF Sane, Typed
<1>11. Linked(m, g, u)
  BY <1>4, <1>5, <1>8, <1>9 DEF Linked, s
<1>12. HelperDrained(m, g, u)
  BY <1>5, <1>9 DEF Sane, HelperDrained
<1>13. Owed(m) = Owed(n)
  BY <1>1, <1>8 DEF Owed
<1>14. NodeDrained(m, u)
  BY <1>1, <1>7, <1>8, <1>9, <1>13 DEF Sane, NodeDrained, CreditOf, Takes
<1>15. Known(m, g, u, p)
  BY <1>1, <1>3, <1>5, <1>7, <1>8 DEF Known
<1>16. TailOrder(m) /\ BodyOrder(m)
  BY <1>7, <1>8, <1>9 DEF TailOrder, BodyOrder
<1>17. ChunksIn(m, g) = ChunksIn(n, h)
  <2>1. Head(h.wire).type # ChunkOf(Incoming(n))
    BY <1>9 DEF Frame, ChunkOf
  <2>2. ChunksIn(n, g) = ChunksIn(n, h)
    BY <1>1, <2>1, ChunksRead
  <2> QED BY <1>9, <2>2 DEF ChunksIn
<1>18. Whole(m, g, p)
  BY <1>1, <1>5, <1>7, <1>8, <1>9, <1>17 DEF Sane, Whole, IsResponseTerminal
<1> QED BY <1>10, <1>11, <1>12, <1>14, <1>15, <1>16, <1>18 DEF Sane

\* The consumer takes a chunk out of the buffer.
LEMMA ChunkIsRead ==
  ASSUME NEW n, NEW h, NEW u, NEW p, Sane(n, h, u, p),
         n.body \in {"open", "ended"}, n.held > 0,
         NEW m, m = [n EXCEPT !.held = @ - 1],
         NEW q, q = [p EXCEPT !.got = @ + 1]
  PROVE  Sane(m, h, u, q)
<1>1. /\ n \in NodeRecords /\ p \in PastRecords /\ n.held \in Nat \ {0} /\ p.got \in Nat
      /\ p.sent \in 0..MaxChunks /\ MaxChunks \in Nat /\ n.stream.at # "unknown"
      /\ ~p.refused
  BY StreamAssumption DEF Sane, Typed, NodeRecords, PastRecords, Known
<1>2. /\ m \in NodeRecords /\ m.stream = n.stream /\ m.wire = n.wire /\ m.tail = n.tail
      /\ m.held = n.held - 1 /\ m.closed = n.closed /\ m.body = n.body /\ m.pump = n.pump
  <2>1. n.held - 1 \in Nat
    BY <1>1
  <2> QED BY <1>1, <2>1 DEF NodeRecords
<1>3. p.got + n.held <= p.sent
  <2>1. /\ p.got + n.held + Count(n.tail, "chunk") + ChunksIn(n, h) <= p.sent
        /\ Count(n.tail, "chunk") \in Nat /\ ChunksIn(n, h) \in Nat
    BY ChainCounts DEF Sane, Whole
  <2> QED BY <1>1, <2>1
<1>4. p.got + 1 \in 0..MaxChunks
  BY <1>1, <1>3
<1>5. q \in PastRecords /\ q.refused = p.refused /\ q.sent = p.sent /\ q.got = p.got + 1
  BY <1>1, <1>4 DEF PastRecords
<1>6. /\ IsRemote(m) <=> IsRemote(n)
      /\ Incoming(m) = Incoming(n) /\ Outgoing(m) = Outgoing(n)
      /\ InputOver(m) <=> InputOver(n)
  BY <1>2 DEF IsRemote, Incoming, Outgoing, InputOver
<1>7. Typed(m, h, u, q)
  BY <1>2, <1>5 DEF Sane, Typed
<1>8. Linked(m, h, u)
  BY <1>2, <1>6 DEF Sane, Linked
<1>9. HelperDrained(m, h, u)
  BY <1>6 DEF Sane, HelperDrained
<1>10. Owed(m) = Owed(n) /\ CreditOf(m.stream, Incoming(m)) = CreditOf(n.stream, Incoming(n))
  BY <1>2, <1>6 DEF Owed
<1>11. NodeDrained(m, u)
  BY <1>2, <1>6, <1>10 DEF Sane, NodeDrained
<1>12. Known(m, h, u, q)
  BY <1>1, <1>2 DEF Sane, Known
<1>13. TailOrder(m)
  BY <1>2, <1>6 DEF Sane, TailOrder
<1>14. BodyOrder(m)
  BY <1>2, <1>6 DEF Sane, BodyOrder
<1>15. ChunksIn(m, h) = ChunksIn(n, h)
  BY <1>6 DEF ChunksIn
<1>16. q.got + m.held = p.got + n.held
  <2>1. n.held \in Nat /\ p.got \in Nat /\ m.held = n.held - 1 /\ q.got = p.got + 1
    BY <1>1, <1>2, <1>5
  <2> QED BY <2>1
<1>17. Whole(m, h, q)
  BY <1>2, <1>5, <1>6, <1>15, <1>16 DEF Sane, Whole
<1>18. ~q.refused
  BY <1>1, <1>5
<1> QED BY <1>7, <1>8, <1>9, <1>11, <1>12, <1>13, <1>14, <1>17, <1>18 DEF Sane

\* It has read the whole of an ended body.
LEMMA BodyIsRead ==
  ASSUME NEW n, NEW h, NEW u, NEW p, Sane(n, h, u, p),
         n.body = "ended", n.held = 0, NEW m, m = [n EXCEPT !.body = "read"]
  PROVE  Sane(m, h, u, p)
<1>1. /\ n \in NodeRecords /\ n.stream.at # "unknown" /\ p.got \in Nat
      /\ p.got + n.held = p.sent
  BY StreamAssumption DEF Sane, Typed, Known, Whole, PastRecords
<1>2. /\ m \in NodeRecords /\ m.stream = n.stream /\ m.wire = n.wire /\ m.tail = n.tail
      /\ m.held = n.held /\ m.closed = n.closed /\ m.body = "read" /\ m.pump = n.pump
  BY <1>1 DEF NodeRecords, Bodies
<1>3. /\ IsRemote(m) <=> IsRemote(n)
      /\ Incoming(m) = Incoming(n) /\ Outgoing(m) = Outgoing(n)
      /\ InputOver(m) <=> InputOver(n)
  BY <1>2 DEF IsRemote, Incoming, Outgoing, InputOver
<1>4. Typed(m, h, u, p)
  BY <1>2 DEF Sane, Typed
<1>5. Linked(m, h, u)
  BY <1>2, <1>3 DEF Sane, Linked
<1>6. HelperDrained(m, h, u)
  BY <1>3 DEF Sane, HelperDrained
<1>7. Owed(m) = Owed(n) /\ CreditOf(m.stream, Incoming(m)) = CreditOf(n.stream, Incoming(n))
  BY <1>2, <1>3 DEF Owed
<1>8. NodeDrained(m, u)
  BY <1>2, <1>7 DEF Sane, NodeDrained
<1>9. Known(m, h, u, p)
  BY <1>1, <1>2 DEF Sane, Known
<1>10. TailOrder(m)
  BY <1>2, <1>3 DEF Sane, TailOrder
<1>11. BodyOrder(m)
  BY <1>2, <1>3 DEF Sane, BodyOrder
<1>12. ChunksIn(m, h) = ChunksIn(n, h)
  BY <1>3 DEF ChunksIn
<1>13. p.got = p.sent
  BY <1>1
<1>14. Whole(m, h, p)
  BY <1>2, <1>12, <1>13 DEF Sane, Whole
<1> QED BY <1>4, <1>5, <1>6, <1>8, <1>9, <1>10, <1>11, <1>14 DEF Sane

-----------------------------------------------------------------------------
(* What the helper does.                                                   *)

\* Who reads what the helper writes: the two copies while the connection is up.
LEMMA BothEnds ==
  ASSUME NEW n, NEW h, NEW u, NEW p, Sane(n, h, u, p), u
  PROVE  /\ n \in NodeRecords /\ h \in HelperRecords /\ p \in PastRecords
         /\ Sound(n.stream) /\ Sound(h.stream)
         /\ h.stream.initiator = n.stream.initiator
         /\ IF IsRemote(n)
            THEN n.stream.initiator = "node" /\ Link(n.stream, n.wire, h.stream, h.wire)
            ELSE n.stream.initiator = "helper" /\ Link(h.stream, h.wire, n.stream, n.wire)
<1>1. /\ n \in NodeRecords /\ h \in HelperRecords /\ p \in PastRecords
      /\ h.stream.initiator = n.stream.initiator
  BY DEF Sane, Typed, Known
<1>2. n.stream.initiator \in Sides
  BY <1>1 DEF NodeRecords, Streams
<1>3. IF IsRemote(n)
      THEN n.stream.initiator = "node" /\ Link(n.stream, n.wire, h.stream, h.wire)
      ELSE n.stream.initiator = "helper" /\ Link(h.stream, h.wire, n.stream, n.wire)
  BY <1>2 DEF Sane, Linked, IsRemote, Sides
<1>4. Sound(n.stream) /\ Sound(h.stream)
  BY <1>3 DEF Link, Wires
<1> QED BY <1>1, <1>3, <1>4

\* A frame of the helper's own: what it may change of its copy, its wire and its
\* body.
LEMMA HelperWrites ==
  ASSUME NEW n, NEW h, NEW u, NEW p, Sane(n, h, u, p), u,
         NEW g \in HelperRecords, NEW q \in PastRecords, NEW f \in Frames,
         g.wire = Append(h.wire, f), g.owed = h.owed, q.got = p.got, q.refused = p.refused,
         IF IsRemote(n) THEN Link(n.stream, n.wire, g.stream, g.wire)
                        ELSE Link(g.stream, g.wire, n.stream, n.wire),
         g.stream.initiator = h.stream.initiator,
         CreditOf(g.stream, Outgoing(n)) = CreditOf(h.stream, Outgoing(n)),
         Takes(g.stream, Outgoing(n)) => Takes(h.stream, Outgoing(n)),
         \/ /\ f = Frame(ChunkOf(Incoming(n)), "helper")
            /\ g.left = h.left - 1 /\ q.sent = p.sent + 1
         \/ /\ f.type # ChunkOf(Incoming(n))
            /\ g.left = h.left /\ q.sent = p.sent
  PROVE  Sane(n, g, u, q)
<1> DEFINE x == ChunksIn(n, h)
           y == ChunksIn(n, g)
           c == Count(n.tail, "chunk")
           e == Frame(ChunkOf(Incoming(n)), "helper")
           w == Append(h.wire, f)
<1>1. /\ n \in NodeRecords /\ h \in HelperRecords /\ p \in PastRecords
      /\ h.stream.initiator = n.stream.initiator
  BY BothEnds
<1>2. w \in Seq(Frames)
  BY WiresType
<1>3. /\ h.left \in 0..MaxChunks /\ h.left \in Nat /\ p.sent \in Nat /\ p.got \in Nat /\ n.held \in Nat
      /\ MaxChunks \in Nat /\ h.left + p.sent <= MaxChunks /\ c \in Nat /\ x \in Nat
      /\ h.wire \in Seq(Frames) /\ h.owed \in Nat
  <2>1. h.left + p.sent <= MaxChunks
    BY DEF Sane, Whole
  <2>2. h.wire \in Seq(Frames) /\ h.owed \in Nat
    BY <1>1 DEF HelperRecords
  <2>3. /\ h.left \in 0..MaxChunks /\ p.sent \in Nat /\ p.got \in Nat /\ n.held \in Nat
        /\ MaxChunks \in Nat /\ c \in Nat /\ x \in Nat
    BY ChainCounts
  <2>4. h.left \in Nat
    BY <2>3
  <2> QED BY <2>1, <2>2, <2>3, <2>4
<1>4. CASE /\ f = Frame(ChunkOf(Incoming(n)), "helper")
           /\ g.left = h.left - 1 /\ q.sent = p.sent + 1
  <2>1. g.left = h.left - 1 /\ q.sent = p.sent + 1 /\ p.sent + 1 \in Nat
    BY <1>3, <1>4
  <2>2. f = e
    BY <1>4
  <2>3. Count(w, e) = Count(h.wire, e) + (IF f = e THEN 1 ELSE 0)
    BY <1>3, CountAppend
  <2>4. x = Count(h.wire, e) /\ y = Count(w, e)
    BY DEF ChunksIn
  <2>5. y = x + 1
    BY <1>3, <2>2, <2>3, <2>4
  <2>6. Typed(n, g, u, q) /\ ~q.refused
    <3>1. Typed(n, g, u, q)
      BY DEF Sane, Typed
    <3>2. q.refused = p.refused /\ ~p.refused
      BY DEF Sane
    <3> QED BY <3>1, <3>2
  <2>7. Linked(n, g, u)
    BY DEF Linked
  <2>8. HelperDrained(n, g, u)
    BY DEF Sane, HelperDrained
  <2>9. Known(n, g, u, q)
    BY <1>1 DEF Sane, Known
  <2>10. Whole(n, g, q)
    <3>1. /\ p.got + n.held + c + x <= p.sent
          /\ n.body = "open" /\ (IsRemote(n) \/ ~IsResponseTerminal(n.stream)) =>
               p.got + n.held + c + x = p.sent
      BY DEF Sane, Whole
    <3>2. g.left + q.sent <= MaxChunks
      BY <1>3, <2>1
    <3>3. n.body \notin {"ended", "read"}
      <4>1. SUFFICES ASSUME n.body \in {"ended", "read"} PROVE FALSE
        OBVIOUS
      <4>2. InputOver(n)
        BY <4>1 DEF Sane, BodyOrder
      <4>3. w[Len(h.wire) + 1] = f /\ Len(h.wire) + 1 \in DOMAIN w
        <5>1. h.wire \in Seq(Frames)
          BY <1>3
        <5> QED BY <5>1, Appended
      <4>4. CASE IsRemote(n)
        <5>1. IsResponseTerminal(n.stream)
          BY <4>2, <4>4 DEF InputOver, IsResponseTerminal
        <5>2. \A k \in DOMAIN w : w[k].type = "window_update"
          BY <4>4, <5>1 DEF Link, ResponseOrder
        <5>3. f.type = "response_chunk"
          BY <2>2, <4>4 DEF Incoming, ChunkOf, Frame
        <5> QED BY <4>3, <5>2, <5>3
      <4>5. CASE ~IsRemote(n)
        <5>1. n.stream.request \in {"ended", "cancelled"}
          BY <4>2, <4>5 DEF InputOver
        <5>2. \A k \in DOMAIN w : w[k].type # "request_chunk"
          BY <4>5, <5>1 DEF Link, RequestOrder
        <5>3. f.type = "request_chunk"
          BY <2>2, <4>5 DEF Incoming, ChunkOf, Frame
        <5> QED BY <4>3, <5>2, <5>3
      <4> QED BY <4>4, <4>5
    <3>4. q.got + n.held + c + y = (p.got + n.held + c + x) + 1
      <4>1. p.got \in Nat /\ n.held \in Nat /\ c \in Nat /\ x \in Nat /\ y = x + 1
        BY <1>3, <2>5
      <4> HIDE DEF c, x, y
      <4>2. p.got + n.held + c + y = (p.got + n.held + c + x) + 1
        BY <4>1, SMTT(30)
      <4> QED BY <4>2
    <3>5. p.got + n.held + c + x \in Nat
      <4>1. p.got \in Nat /\ n.held \in Nat /\ c \in Nat /\ x \in Nat
        BY <1>3
      <4> HIDE DEF c, x, y
      <4> QED BY <4>1
    <3>6. q.got + n.held + c + y <= q.sent
      <4> HIDE DEF c, x, y
      <4> QED BY <1>3, <2>1, <3>1, <3>4, <3>5
    <3>7. n.body = "open" /\ (IsRemote(n) \/ ~IsResponseTerminal(n.stream)) =>
               q.got + n.held + c + y = q.sent
      BY <2>1, <3>1, <3>4
    <3> QED BY <3>2, <3>3, <3>6, <3>7 DEF Whole
  <2> QED BY <2>6, <2>7, <2>8, <2>9, <2>10 DEF Sane
<1>5. CASE /\ f.type # ChunkOf(Incoming(n))
           /\ g.left = h.left /\ q.sent = p.sent
  <2>1. g.left = h.left /\ q.sent = p.sent
    BY <1>3, <1>5
  <2>2. f # e
    BY <1>5 DEF Frame
  <2>3. Count(w, e) = Count(h.wire, e) + (IF f = e THEN 1 ELSE 0)
    BY <1>3, CountAppend
  <2>4. x = Count(h.wire, e) /\ y = Count(w, e)
    BY DEF ChunksIn
  <2>5. y = x
    BY <1>3, <2>2, <2>3, <2>4
  <2>6. Typed(n, g, u, q)
    BY DEF Sane, Typed
  <2>7. Linked(n, g, u)
    BY DEF Linked
  <2>8. HelperDrained(n, g, u)
    BY DEF Sane, HelperDrained
  <2>9. Known(n, g, u, q)
    BY <1>1 DEF Sane, Known
  <2>10. Whole(n, g, q)
    BY <2>1, <2>5 DEF Sane, Whole
  <2>11. ~q.refused
    <3>1. q.refused = p.refused /\ ~p.refused
      BY DEF Sane
    <3> QED BY <3>1
  <2> QED BY <2>6, <2>7, <2>8, <2>9, <2>10, <2>11 DEF Sane
<1> QED BY <1>4, <1>5

\* An end writes only the frames that are its own to write.
LEMMA OwnFrames ==
  ASSUME NEW s, Sound(s), NEW type \in FrameTypes \ {"window_update"},
         NEW side \in Sides, type = "request_start" \/ s.at = "active",
         Receive(s, Frame(type, side)).outcome \notin Refused
  PROVE  type \in {"request_start", "request_chunk", "request_end", "request_cancel"}
           <=> s.initiator = side
<1> DEFINE f == Frame(type, side)
<1>1. f.type = type /\ f.sender = side /\ ~s.failed /\ s.initiator \in Sides
  BY StreamType DEF Frame, Sound
<1>2. CASE type = "request_start"
  BY <1>1, <1>2 DEF Receive, ReceiveRequestStart, ConnectionError, To, Refused
<1>3. CASE type # "request_start"
  <2>1. Receive(s, f) = ReceiveActive(s, f)
    BY <1>1, <1>3 DEF Receive
  <2>2. f.sender = ExpectedSender(s, f)
    <3>1. SUFFICES ASSUME f.sender # ExpectedSender(s, f) PROVE FALSE
      OBVIOUS
    <3>2. ReceiveActive(s, f) = FailStream(s)
      BY <1>1, <3>1 DEF ReceiveActive
    <3> QED BY <2>1, <3>2 DEF FailStream, To, Refused
  <2> QED BY <1>1, <1>3, <2>2 DEF ExpectedSender, Responder, Opposite, Sides, FrameTypes
<1> QED BY <1>2, <1>3

\* The helper sends what its copy takes: the ends stay linked.
LEMMA HelperSent ==
  ASSUME NEW n, NEW h, NEW u, NEW p, Sane(n, h, u, p), u,
         NEW type \in FrameTypes \ {"window_update"},
         type = "request_start" \/ h.stream.at = "active",
         LET r == Receive(h.stream, Frame(type, "helper")) IN
           r.outcome \notin Ignored \union Refused,
         type \in {"request_chunk", "response_chunk"} => h.left > 0
  PROVE  \A g, q :
           /\ g = [h EXCEPT !.stream = Receive(h.stream, Frame(type, "helper")).stream,
                     !.wire = Append(@, Frame(type, "helper")),
                     !.left = IF type \in {"request_chunk", "response_chunk"}
                              THEN @ - 1 ELSE @]
           /\ q = [p EXCEPT !.sent = IF type \in {"request_chunk", "response_chunk"}
                                    THEN @ + 1 ELSE @]
           => Sane(n, g, u, q)
<1> DEFINE f == Frame(type, "helper")
           x == Receive(h.stream, f)
           w == Append(h.wire, f)
           chunk == type \in {"request_chunk", "response_chunk"}
           left == IF chunk THEN h.left - 1 ELSE h.left
           sent == IF chunk THEN p.sent + 1 ELSE p.sent
           s == x.stream
<1>1. /\ Sound(h.stream) /\ Sound(n.stream) /\ h.stream.initiator = n.stream.initiator
      /\ IF IsRemote(n)
         THEN n.stream.initiator = "node" /\ Link(n.stream, n.wire, h.stream, h.wire)
         ELSE n.stream.initiator = "helper" /\ Link(h.stream, h.wire, n.stream, n.wire)
  BY BothEnds
<1>2. x.outcome \notin Ignored /\ x.outcome \notin Refused
  OBVIOUS
<1>3. type \in {"request_start", "request_chunk", "request_end", "request_cancel"}
        <=> ~IsRemote(n)
  BY <1>1, <1>2, OwnFrames DEF Sides
<1>4. Opposite("node") = "helper" /\ f.type = type /\ f \in Frames
  BY DEF Opposite, Frame, Frames, Sides, Windows
<1>5. SUFFICES
        /\ IF IsRemote(n) THEN Link(n.stream, n.wire, s, w) ELSE Link(s, w, n.stream, n.wire)
        /\ s.initiator = h.stream.initiator
        /\ CreditOf(s, Outgoing(n)) = CreditOf(h.stream, Outgoing(n))
        /\ Takes(s, Outgoing(n)) => Takes(h.stream, Outgoing(n))
  <2>1. \/ /\ f = Frame(ChunkOf(Incoming(n)), "helper")
           /\ left = h.left - 1 /\ sent = p.sent + 1
        \/ /\ f.type # ChunkOf(Incoming(n))
           /\ left = h.left /\ sent = p.sent
    <3>1. CASE chunk
      <4>1. type = ChunkOf(Incoming(n))
        BY <1>3, <3>1 DEF ChunkOf, Incoming
      <4> QED BY <3>1, <4>1
    <3>2. CASE ~chunk
      <4>1. f.type # ChunkOf(Incoming(n))
        BY <1>4, <3>2 DEF ChunkOf, Incoming
      <4> QED BY <3>2, <4>1
    <3> QED BY <3>1, <3>2
  <2>2. s \in Streams /\ w \in Seq(Frames)
    BY <1>5, WiresType
  <2>3. left \in 0..MaxChunks /\ sent \in 0..MaxChunks
    <3>1. h.left \in 0..MaxChunks /\ MaxChunks \in Nat /\ p.sent \in Nat
      BY ChainCounts
    <3>2. h.left + p.sent <= MaxChunks
      BY DEF Sane, Whole
    <3>3. chunk => h.left > 0
      OBVIOUS
    <3>4. CASE chunk
      BY <3>1, <3>2, <3>3, <3>4
    <3>5. CASE ~chunk
      BY <3>1, <3>2, <3>5
    <3> QED BY <3>4, <3>5
  <2>4. f \in Frames /\ h \in HelperRecords /\ p \in PastRecords
    BY <1>4, BothEnds
  <2>5. /\ IF IsRemote(n) THEN Link(n.stream, n.wire, s, w) ELSE Link(s, w, n.stream, n.wire)
        /\ s.initiator = h.stream.initiator
        /\ CreditOf(s, Outgoing(n)) = CreditOf(h.stream, Outgoing(n))
        /\ Takes(s, Outgoing(n)) => Takes(h.stream, Outgoing(n))
    BY <1>5
  <2>6. SUFFICES ASSUME NEW g, NEW q,
                 g = [h EXCEPT !.stream = s, !.wire = w, !.left = left],
                 q = [p EXCEPT !.sent = sent]
        PROVE  Sane(n, g, u, q)
    OBVIOUS
  <2>7. w = Append(h.wire, f)
    OBVIOUS
  <2> HIDE DEF s, chunk, x, f, left, sent, w
  <2>8. /\ g \in HelperRecords /\ g.stream = s /\ g.wire = w /\ g.left = left
        /\ g.owed = h.owed
    BY <2>2, <2>3, <2>4, <2>6 DEF HelperRecords
  <2>9. /\ q \in PastRecords /\ q.sent = sent /\ q.got = p.got
         /\ q.refused = p.refused
    BY <2>3, <2>4, <2>6 DEF PastRecords
  <2>10. IF IsRemote(n) THEN Link(n.stream, n.wire, g.stream, g.wire)
                        ELSE Link(g.stream, g.wire, n.stream, n.wire)
    BY <2>5, <2>8
  <2>11. /\ g.wire = Append(h.wire, f)
         /\ g.stream.initiator = h.stream.initiator
         /\ CreditOf(g.stream, Outgoing(n)) = CreditOf(h.stream, Outgoing(n))
         /\ Takes(g.stream, Outgoing(n)) => Takes(h.stream, Outgoing(n))
    BY <2>5, <2>7, <2>8
  <2>12. \/ /\ f = Frame(ChunkOf(Incoming(n)), "helper")
            /\ g.left = h.left - 1 /\ q.sent = p.sent + 1
         \/ /\ f.type # ChunkOf(Incoming(n))
            /\ g.left = h.left /\ q.sent = p.sent
    BY <2>1, <2>8, <2>9
  <2>13. g \in HelperRecords /\ q \in PastRecords /\ f \in Frames
    BY <2>4, <2>8, <2>9
  <2>14. g.owed = h.owed /\ q.got = p.got /\ q.refused = p.refused
    BY <2>8, <2>9
  <2>15. Sane(n, g, u, q)
    BY Sane(n, h, u, p), u, <2>10, <2>11, <2>12, <2>13, <2>14, HelperWrites
  <2> QED BY <2>15
<1>6. CASE type = "request_start"
  <2> DEFINE t == Started("helper")
  <2>1. f = Frame("request_start", "helper") /\ ~IsRemote(n)
    BY <1>1, <1>3, <1>6
  <2>2. /\ h.stream.initiator = "helper"
        /\ Link(h.stream, h.wire, n.stream, n.wire)
    BY <1>1, <2>1 DEF IsRemote
  <2>3. h.stream.at = "unknown"
    BY <1>1, <1>2, <1>4, <2>1, <2>2, TakesStart DEF Ignored, Refused, To
  <2>4. x = To("request_started", t)
    BY <1>1, <1>4, <2>1, <2>2, <2>3, TakesStart
  <2>5. x.stream = t
    BY <2>4 DEF To
  <2>6. Link(t, w, n.stream, n.wire)
    BY <1>1, <1>4, <2>1, <2>2, <2>3, SendStart
  <2>7. /\ t.initiator = h.stream.initiator
        /\ CreditOf(t, Outgoing(n)) = CreditOf(h.stream, Outgoing(n))
        /\ Takes(t, Outgoing(n)) => Takes(h.stream, Outgoing(n))
    BY <1>1, <2>1, <2>2, <2>3 DEF Sound, Streams, Started, Unstarted, Closed, CreditOf, Takes, Outgoing, IsResponseTerminal
  <2> HIDE DEF t, w, x, f
  <2> QED BY <2>1, <2>5, <2>6, <2>7
<1>7. CASE type = "request_chunk"
  <2> DEFINE t == [h.stream EXCEPT !.requestCredit = @ - 1]
  <2>1. f = Frame("request_chunk", "helper") /\ ~IsRemote(n)
    BY <1>1, <1>3, <1>7
  <2>2. /\ h.stream.initiator = "helper"
        /\ Link(h.stream, h.wire, n.stream, n.wire)
    BY <1>1, <2>1 DEF IsRemote
  <2>3. h.stream.at = "active" /\ h.stream.request = "open" /\ h.stream.requestCredit > 0
    <3>1. h.stream.at = "active" /\ h.stream.request # "ended" /\ h.stream.requestCredit > 0
      <4>1. SUFFICES ASSUME ~(h.stream.at = "active" /\ h.stream.request # "ended" /\ h.stream.requestCredit > 0)
                     PROVE  FALSE
        OBVIOUS
      <4>2. x.outcome \in Refused
        BY <1>1, <2>1, <2>2, <4>1, TakesChunk
      <4> QED BY <1>2, <4>2
    <3>2. x = To(IF h.stream.request = "open" THEN "request_chunk_delivered"
                                             ELSE "request_chunk_discarded", t)
      BY <1>1, <2>1, <2>2, <3>1, TakesChunk
    <3>3. h.stream.request # "open" => x.outcome = "request_chunk_discarded"
      BY <3>2 DEF To
    <3> QED BY <1>2, <3>1, <3>3 DEF Ignored
  <2>4. x = To("request_chunk_delivered", t)
    BY <1>1, <1>4, <2>1, <2>2, <2>3, TakesChunk
  <2>5. x.stream = t
    BY <2>4 DEF To
  <2>6. Link(t, w, n.stream, n.wire)
    BY <1>1, <1>4, <2>1, <2>2, <2>3, SendChunk
  <2>7. /\ t.initiator = h.stream.initiator
        /\ CreditOf(t, Outgoing(n)) = CreditOf(h.stream, Outgoing(n))
        /\ Takes(t, Outgoing(n)) => Takes(h.stream, Outgoing(n))
    BY <1>1, <2>1, <2>2, <2>3 DEF Sound, Streams, Started, Unstarted, Closed, CreditOf, Takes, Outgoing, IsResponseTerminal
  <2> HIDE DEF t, w, x, f
  <2> QED BY <2>1, <2>5, <2>6, <2>7
<1>8. CASE type = "request_end"
  <2> DEFINE t == [h.stream EXCEPT !.request = "ended"]
  <2>1. f = Frame("request_end", "helper") /\ ~IsRemote(n)
    BY <1>1, <1>3, <1>8
  <2>2. /\ h.stream.initiator = "helper"
        /\ Link(h.stream, h.wire, n.stream, n.wire)
    BY <1>1, <2>1 DEF IsRemote
  <2>3. h.stream.at = "active" /\ h.stream.request \in {"open", "response_closed"}
    BY <1>1, <1>2, <1>4, <2>1, <2>2, TakesEnd DEF Ignored, Refused, To
  <2>4. x = To("request_ended", t)
    BY <1>1, <1>4, <2>1, <2>2, <2>3, TakesEnd
  <2>5. x.stream = t
    BY <2>4 DEF To
  <2>6. Link(t, w, n.stream, n.wire)
    BY <1>1, <1>4, <2>1, <2>2, <2>3, SendEnd
  <2>7. /\ t.initiator = h.stream.initiator
        /\ CreditOf(t, Outgoing(n)) = CreditOf(h.stream, Outgoing(n))
        /\ Takes(t, Outgoing(n)) => Takes(h.stream, Outgoing(n))
    BY <1>1, <2>1, <2>2, <2>3 DEF Sound, Streams, Started, Unstarted, Closed, CreditOf, Takes, Outgoing, IsResponseTerminal
  <2> HIDE DEF t, w, x, f
  <2> QED BY <2>1, <2>5, <2>6, <2>7
<1>9. CASE type = "request_cancel"
  <2> DEFINE t == [h.stream EXCEPT !.cancelled = TRUE, !.request = "cancelled"]
  <2>1. f = Frame("request_cancel", "helper") /\ ~IsRemote(n)
    BY <1>1, <1>3, <1>9
  <2>2. /\ h.stream.initiator = "helper"
        /\ Link(h.stream, h.wire, n.stream, n.wire)
    BY <1>1, <2>1 DEF IsRemote
  <2>3. h.stream.at = "active" /\ h.stream.request # "cancelled" /\ ~IsResponseTerminal(h.stream)
    <3>1. h.stream.at = "active"
      BY <1>9
    <3>2. SUFFICES ASSUME h.stream.request = "cancelled" \/ IsResponseTerminal(h.stream) PROVE FALSE
      BY <3>1
    <3>3. x = To("cancel_ignored", h.stream)
      BY <1>1, <2>1, <2>2, <3>1, <3>2, TakesCancel
    <3> QED BY <1>2, <3>3 DEF To, Ignored
  <2>4. x = To("request_cancelled", t)
    BY <1>1, <1>4, <2>1, <2>2, <2>3, TakesCancel
  <2>5. x.stream = t
    BY <2>4 DEF To
  <2>6. Link(t, w, n.stream, n.wire)
    BY <1>1, <1>4, <2>1, <2>2, <2>3, SendCancel
  <2>7. /\ t.initiator = h.stream.initiator
        /\ CreditOf(t, Outgoing(n)) = CreditOf(h.stream, Outgoing(n))
        /\ Takes(t, Outgoing(n)) => Takes(h.stream, Outgoing(n))
    BY <1>1, <2>1, <2>2, <2>3 DEF Sound, Streams, Started, Unstarted, Closed, CreditOf, Takes, Outgoing, IsResponseTerminal
  <2> HIDE DEF t, w, x, f
  <2> QED BY <2>1, <2>5, <2>6, <2>7
<1>10. CASE type = "response_start"
  <2> DEFINE t == [h.stream EXCEPT !.response = "open"]
  <2>1. f = Frame("response_start", "helper") /\ IsRemote(n)
    BY <1>1, <1>3, <1>10
  <2>2. /\ h.stream.initiator = "node"
        /\ Link(n.stream, n.wire, h.stream, h.wire)
    BY <1>1, <2>1 DEF IsRemote
  <2>3. h.stream.at = "active" /\ h.stream.response = "none"
    BY <1>1, <1>2, <1>4, <2>1, <2>2, TakesAnswer DEF Ignored, Refused, To
  <2>4. x = To("response_started", t)
    BY <1>1, <1>4, <2>1, <2>2, <2>3, TakesAnswer
  <2>5. x.stream = t
    BY <2>4 DEF To
  <2>6. Link(n.stream, n.wire, t, w)
    BY <1>1, <1>4, <2>1, <2>2, <2>3, SendAnswer
  <2>7. /\ t.initiator = h.stream.initiator
        /\ CreditOf(t, Outgoing(n)) = CreditOf(h.stream, Outgoing(n))
        /\ Takes(t, Outgoing(n)) => Takes(h.stream, Outgoing(n))
    BY <1>1, <2>1, <2>2, <2>3 DEF Sound, Streams, Started, Unstarted, Closed, CreditOf, Takes, Outgoing, IsResponseTerminal
  <2> HIDE DEF t, w, x, f
  <2> QED BY <2>1, <2>5, <2>6, <2>7
<1>11. CASE type = "response_chunk"
  <2> DEFINE t == [h.stream EXCEPT !.responseCredit = @ - 1]
  <2>1. f = Frame("response_chunk", "helper") /\ IsRemote(n)
    BY <1>1, <1>3, <1>11
  <2>2. /\ h.stream.initiator = "node"
        /\ Link(n.stream, n.wire, h.stream, h.wire)
    BY <1>1, <2>1 DEF IsRemote
  <2>3. h.stream.at = "active" /\ h.stream.response = "open" /\ h.stream.responseCredit > 0
    BY <1>1, <1>2, <1>4, <2>1, <2>2, TakesAnswerChunk DEF Ignored, Refused, To
  <2>4. x = To("response_chunk_delivered", t)
    BY <1>1, <1>4, <2>1, <2>2, <2>3, TakesAnswerChunk
  <2>5. x.stream = t
    BY <2>4 DEF To
  <2>6. Link(n.stream, n.wire, t, w)
    BY <1>1, <1>4, <2>1, <2>2, <2>3, SendAnswerChunk
  <2>7. /\ t.initiator = h.stream.initiator
        /\ CreditOf(t, Outgoing(n)) = CreditOf(h.stream, Outgoing(n))
        /\ Takes(t, Outgoing(n)) => Takes(h.stream, Outgoing(n))
    BY <1>1, <2>1, <2>2, <2>3 DEF Sound, Streams, Started, Unstarted, Closed, CreditOf, Takes, Outgoing, IsResponseTerminal
  <2> HIDE DEF t, w, x, f
  <2> QED BY <2>1, <2>5, <2>6, <2>7
<1>12. CASE type = "response_end"
  <2> DEFINE t == Closed(h.stream, "succeeded")
  <2>1. f = Frame("response_end", "helper") /\ IsRemote(n)
    BY <1>1, <1>3, <1>12
  <2>2. /\ h.stream.initiator = "node"
        /\ Link(n.stream, n.wire, h.stream, h.wire)
    BY <1>1, <2>1 DEF IsRemote
  <2>3. h.stream.at = "active" /\ h.stream.response = "open"
    BY <1>1, <1>2, <1>4, <2>1, <2>2, TakesAnswerEnd DEF Ignored, Refused, To
  <2>4. x = To("response_ended", t)
    BY <1>1, <1>4, <2>1, <2>2, <2>3, TakesAnswerEnd
  <2>5. x.stream = t
    BY <2>4 DEF To
  <2>6. Link(n.stream, n.wire, t, w)
    BY <1>1, <1>4, <2>1, <2>2, <2>3, SendAnswerEnd
  <2>7. /\ t.initiator = h.stream.initiator
        /\ CreditOf(t, Outgoing(n)) = CreditOf(h.stream, Outgoing(n))
        /\ Takes(t, Outgoing(n)) => Takes(h.stream, Outgoing(n))
    BY <1>1, <2>1, <2>2, <2>3 DEF Sound, Streams, Started, Unstarted, Closed, CreditOf, Takes, Outgoing, IsResponseTerminal
  <2> HIDE DEF t, w, x, f
  <2> QED BY <2>1, <2>5, <2>6, <2>7
<1>13. CASE type = "response_error"
  <2> DEFINE t == Closed(h.stream, "failed")
  <2>1. f = Frame("response_error", "helper") /\ IsRemote(n)
    BY <1>1, <1>3, <1>13
  <2>2. /\ h.stream.initiator = "node"
        /\ Link(n.stream, n.wire, h.stream, h.wire)
    BY <1>1, <2>1 DEF IsRemote
  <2>3. h.stream.at = "active" /\ ~IsResponseTerminal(h.stream)
    BY <1>1, <1>2, <1>4, <2>1, <2>2, TakesAnswerError DEF Ignored, Refused, To
  <2>4. x = To("response_failed", t)
    BY <1>1, <1>4, <2>1, <2>2, <2>3, TakesAnswerError
  <2>5. x.stream = t
    BY <2>4 DEF To
  <2>6. Link(n.stream, n.wire, t, w)
    BY <1>1, <1>4, <2>1, <2>2, <2>3, SendAnswerError
  <2>7. /\ t.initiator = h.stream.initiator
        /\ CreditOf(t, Outgoing(n)) = CreditOf(h.stream, Outgoing(n))
        /\ Takes(t, Outgoing(n)) => Takes(h.stream, Outgoing(n))
    BY <1>1, <2>1, <2>2, <2>3 DEF Sound, Streams, Started, Unstarted, Closed, CreditOf, Takes, Outgoing, IsResponseTerminal
  <2> HIDE DEF t, w, x, f
  <2> QED BY <2>1, <2>5, <2>6, <2>7
<1> QED BY <1>6, <1>7, <1>8, <1>9, <1>10, <1>11, <1>12, <1>13 DEF FrameTypes

\* What the helper does to its copy and to what it owes, without a frame of a
\* body of its own.
LEMMA HelperTurns ==
  ASSUME NEW n, NEW h, NEW u, NEW p, Sane(n, h, u, p),
         NEW w \in Seq(Frames), NEW m, m = [n EXCEPT !.wire = w],
         NEW g \in HelperRecords, g.left = h.left, ChunksIn(n, g) = ChunksIn(n, h),
         g.stream.initiator = h.stream.initiator,
         u => IF IsRemote(n) THEN Link(n.stream, w, g.stream, g.wire)
                             ELSE Link(g.stream, g.wire, n.stream, w),
         u => /\ CreditOf(g.stream, Outgoing(n)) + g.owed <= Credit
              /\ Takes(g.stream, Outgoing(n)) =>
                   CreditOf(g.stream, Outgoing(n)) + g.owed = Credit
  PROVE  Sane(m, g, u, p)
<1>1. /\ n \in NodeRecords
      /\ m \in NodeRecords /\ m.stream = n.stream /\ m.wire = w /\ m.tail = n.tail
      /\ m.held = n.held /\ m.closed = n.closed /\ m.body = n.body /\ m.pump = n.pump
      /\ m.aborted = n.aborted /\ m.source = n.source /\ m.caller = n.caller
  BY DEF Sane, Typed, NodeRecords
<1>2. /\ IsRemote(m) <=> IsRemote(n)
      /\ Incoming(m) = Incoming(n) /\ Outgoing(m) = Outgoing(n)
      /\ InputOver(m) <=> InputOver(n)
      /\ Owed(m) = Owed(n)
  BY <1>1 DEF IsRemote, Incoming, Outgoing, InputOver, Owed
<1>3. Typed(m, g, u, p) /\ ~p.refused
  BY <1>1 DEF Sane, Typed
<1>4. Linked(m, g, u)
  BY <1>1, <1>2 DEF Linked
<1>5. HelperDrained(m, g, u)
  BY <1>2 DEF HelperDrained
<1>6. NodeDrained(m, u)
  BY <1>1, <1>2 DEF Sane, NodeDrained
<1>7. Known(m, g, u, p)
  BY <1>1 DEF Sane, Known
<1>8. TailOrder(m) /\ BodyOrder(m)
  BY <1>1, <1>2 DEF Sane, TailOrder, BodyOrder
<1>9. ChunksIn(m, g) = ChunksIn(n, h)
  BY <1>2 DEF ChunksIn
<1>10. Whole(m, g, p)
  BY <1>1, <1>2, <1>9 DEF Sane, Whole
<1> QED BY <1>3, <1>4, <1>5, <1>6, <1>7, <1>8, <1>10 DEF Sane

\* A grant is no chunk.
LEMMA GrantIsNoChunk ==
  ASSUME NEW n, NEW h \in HelperRecords, NEW window \in Windows,
         NEW g, g.wire = Append(h.wire, Grant(window, "helper"))
  PROVE  ChunksIn(n, g) = ChunksIn(n, h)
<1> DEFINE e == Frame(ChunkOf(Incoming(n)), "helper")
           f == Grant(window, "helper")
<1>1. h.wire \in Seq(Frames) /\ f \in Frames
  BY DEF HelperRecords, Grant, Frames, FrameTypes, Sides, Windows
<1>2. f # e
  BY DEF Grant, Frame, ChunkOf
<1>3. Count(g.wire, e) = Count(h.wire, e) + 0
  <2>1. g.wire = Append(h.wire, f)
    OBVIOUS
  <2> HIDE DEF e, f
  <2> QED BY <1>1, <1>2, <2>1, CountAppend
<1>4. Count(h.wire, e) \in Nat
  BY <1>1, PositionsFinite
<1> QED BY <1>3, <1>4 DEF ChunksIn

\* The helper has a copy that takes a grant, with room for it, or one that
\* ignores it: what it owes never goes beyond the window.
LEMMA GrantFits ==
  ASSUME NEW n, NEW h, NEW u, NEW p, Sane(n, h, u, p), u, h.owed > 0
  PROVE  LET f == Grant(Outgoing(n), "helper")
             x == Receive(h.stream, f) IN
         \/ /\ ~Takes(h.stream, Outgoing(n))
            /\ x.stream = h.stream /\ x.outcome \in Ignored
         \/ /\ Takes(h.stream, Outgoing(n))
            /\ x.outcome \notin Ignored \union Refused
            /\ IF IsRemote(n) THEN Link(n.stream, n.wire, x.stream, Append(h.wire, f))
                              ELSE Link(x.stream, Append(h.wire, f), n.stream, n.wire)
            /\ x.stream.initiator = h.stream.initiator
            /\ CreditOf(x.stream, Outgoing(n)) = CreditOf(h.stream, Outgoing(n)) + 1
<1> DEFINE f == Grant(Outgoing(n), "helper")
           x == Receive(h.stream, f)
           c == CreditOf(h.stream, Outgoing(n))
           s == [h.stream EXCEPT !.requestCredit = @ + 1]
           t == [h.stream EXCEPT !.responseCredit = @ + 1]
           w == Append(h.wire, f)
<1> SUFFICES
      \/ /\ ~Takes(h.stream, Outgoing(n))
         /\ x.stream = h.stream /\ x.outcome \in Ignored
      \/ /\ Takes(h.stream, Outgoing(n))
         /\ x.outcome \notin Ignored \union Refused
         /\ IF IsRemote(n) THEN Link(n.stream, n.wire, x.stream, w)
                           ELSE Link(x.stream, w, n.stream, n.wire)
         /\ x.stream.initiator = h.stream.initiator
         /\ CreditOf(x.stream, Outgoing(n)) = c + 1
  OBVIOUS
<1>1. /\ h \in HelperRecords /\ Sound(h.stream) /\ Sound(n.stream)
      /\ h.stream.initiator = n.stream.initiator
      /\ IF IsRemote(n)
         THEN n.stream.initiator = "node" /\ Link(n.stream, n.wire, h.stream, h.wire)
         ELSE n.stream.initiator = "helper" /\ Link(h.stream, h.wire, n.stream, n.wire)
  BY BothEnds
<1>2. h.stream.requestCredit \in Nat /\ h.stream.responseCredit \in Nat /\ Credit \in Nat \ {0}
  BY <1>1, StreamType
<1>3. c < Credit
  <2>1. c \in Nat /\ h.owed \in Nat
    BY <1>1, <1>2 DEF CreditOf, HelperRecords
  <2>2. c + h.owed <= Credit
    BY DEF Sane, HelperDrained
  <2> QED BY <1>2, <2>1, <2>2
<1>4. h.stream.at # "unknown"
  <2>1. SUFFICES ASSUME h.stream.at = "unknown" PROVE FALSE
    OBVIOUS
  <2>2. h.stream.requestCredit = Credit /\ h.stream.responseCredit = Credit
    BY <1>1, <2>1 DEF Sound, Unstarted, Started
  <2> QED BY <1>2, <1>3, <2>2 DEF CreditOf
<1>5. h.stream.at \in {"active", "removed"}
  BY <1>1, <1>4, StreamType
<1>6. "window_ignored" \in Ignored /\ "inactive_frame_ignored" \in Ignored
      /\ "window_updated" \notin Ignored \union Refused
  BY DEF Ignored, Refused
<1>7. CASE IsRemote(n)
  <2>1. /\ Outgoing(n) = "request" /\ f = Grant("request", Opposite(h.stream.initiator))
        /\ Takes(h.stream, Outgoing(n)) <=> h.stream.request = "open"
    BY <1>1, <1>7 DEF Outgoing, Takes, Opposite
  <2>2. CASE h.stream.request # "open"
    <3>1. x = To("window_ignored", h.stream) \/ x = To("inactive_frame_ignored", h.stream)
      BY <1>1, <1>5, <2>1, <2>2, TakesRequestGrant
    <3> QED BY <1>6, <2>1, <2>2, <3>1 DEF To
  <2>3. CASE h.stream.request = "open"
    <3>1. h.stream.at = "active" /\ h.stream.requestCredit < Credit
      BY <1>1, <1>3, <1>5, <2>1, <2>3 DEF Sound, CreditOf
    <3>2. x = To("window_updated", s)
      BY <1>1, <2>1, <2>3, <3>1, TakesRequestGrant
    <3>3. x.outcome = "window_updated" /\ x.stream = s
      BY <3>2 DEF To
    <3>4. Link(n.stream, n.wire, s, w)
      BY <1>1, <1>7, <2>1, <2>3, <3>1, SendRequestGrant
    <3>5. s.initiator = h.stream.initiator /\ s.requestCredit = h.stream.requestCredit + 1
      BY <1>1 DEF Sound, Streams
    <3> HIDE DEF x, f, s, w
    <3> QED BY <1>6, <1>7, <2>1, <2>3, <3>3, <3>4, <3>5 DEF CreditOf
  <2> QED BY <2>2, <2>3
<1>8. CASE ~IsRemote(n)
  <2>1. /\ Outgoing(n) = "response" /\ f = Grant("response", h.stream.initiator)
        /\ Takes(h.stream, Outgoing(n)) <=> ~IsResponseTerminal(h.stream)
    BY <1>1, <1>8 DEF Outgoing, Takes, Opposite
  <2>2. CASE IsResponseTerminal(h.stream)
    <3>1. x = To("window_ignored", h.stream) \/ x = To("inactive_frame_ignored", h.stream)
      BY <1>1, <1>5, <2>1, <2>2, TakesResponseGrant
    <3> QED BY <1>6, <2>1, <2>2, <3>1 DEF To
  <2>3. CASE ~IsResponseTerminal(h.stream)
    <3>1. h.stream.at = "active" /\ h.stream.responseCredit < Credit
      BY <1>1, <1>3, <1>5, <2>1, <2>3 DEF Sound, CreditOf
    <3>2. x = To("window_updated", t)
      BY <1>1, <2>1, <2>3, <3>1, TakesResponseGrant
    <3>3. x.outcome = "window_updated" /\ x.stream = t
      BY <3>2 DEF To
    <3>4. Link(t, w, n.stream, n.wire)
      BY <1>1, <1>8, <2>1, <2>3, <3>1, SendResponseGrant
    <3>5. t.initiator = h.stream.initiator /\ t.responseCredit = h.stream.responseCredit + 1
      BY <1>1 DEF Sound, Streams
    <3> HIDE DEF x, f, t, w
    <3> QED BY <1>6, <1>8, <2>1, <2>3, <3>3, <3>4, <3>5 DEF CreditOf
  <2> QED BY <2>2, <2>3
<1> QED BY <1>7, <1>8

\* The helper gives credit back for what it took.
LEMMA HelperGranted ==
  ASSUME NEW n, NEW h, NEW u, NEW p, Sane(n, h, u, p), u, h.owed > 0,
         NEW x, x = Receive(h.stream, Grant(Outgoing(n), "helper")),
         NEW g, g = [h EXCEPT !.stream = x.stream, !.owed = @ - 1,
                       !.wire = IF x.outcome \in Ignored \union Refused
                                THEN @ ELSE Append(@, Grant(Outgoing(n), "helper"))]
  PROVE  Sane(n, g, u, p)
<1> DEFINE f == Grant(Outgoing(n), "helper")
           c == CreditOf(h.stream, Outgoing(n))
           d == CreditOf(g.stream, Outgoing(n))
           w == n.wire
           owed == h.owed - 1
<1>1. /\ n \in NodeRecords /\ h \in HelperRecords
      /\ h.stream \in Streams /\ h.wire \in Seq(Frames) /\ h.owed \in Nat \ {0}
      /\ w \in Seq(Frames) /\ n = [n EXCEPT !.wire = w]
      /\ Outgoing(n) \in Windows /\ c \in Nat /\ Credit \in Nat
  <2>1. n \in NodeRecords /\ h \in HelperRecords /\ Sound(h.stream)
    BY BothEnds
  <2>2. c \in Nat /\ Credit \in Nat
    BY <2>1, StreamType DEF CreditOf
  <2> QED BY <2>1, <2>2 DEF NodeRecords, HelperRecords, Outgoing, Windows
<1>2. /\ c + h.owed <= Credit
      /\ Takes(h.stream, Outgoing(n)) => c + h.owed = Credit
  BY DEF Sane, HelperDrained
<1>3. IF IsRemote(n) THEN Link(n.stream, w, h.stream, h.wire)
                     ELSE Link(h.stream, h.wire, n.stream, w)
  BY BothEnds
<1>4. owed \in Nat
  BY <1>1
<1>5. CASE ~Takes(h.stream, Outgoing(n)) /\ x.stream = h.stream /\ x.outcome \in Ignored
  <2>1. g = [h EXCEPT !.stream = h.stream, !.owed = owed, !.wire = h.wire]
    BY <1>5
  <2>2. /\ g \in HelperRecords /\ g.stream = h.stream /\ g.wire = h.wire
        /\ g.owed = owed /\ g.left = h.left
    <3> HIDE DEF owed
    <3> QED BY <1>1, <1>4, <2>1 DEF HelperRecords
  <2>3. ChunksIn(n, g) = ChunksIn(n, h)
    BY <2>2 DEF ChunksIn
  <2>4. d + g.owed <= Credit
    <3>1. d = c
      BY <2>2
    <3> HIDE DEF c, d
    <3> QED BY <1>1, <1>2, <2>2, <3>1
  <2> QED BY <1>1, <1>3, <1>5, <2>2, <2>3, <2>4, HelperTurns
<1>6. CASE /\ Takes(h.stream, Outgoing(n)) /\ x.outcome \notin Ignored \union Refused
           /\ IF IsRemote(n) THEN Link(n.stream, n.wire, x.stream, Append(h.wire, f))
                             ELSE Link(x.stream, Append(h.wire, f), n.stream, n.wire)
           /\ x.stream.initiator = h.stream.initiator
           /\ CreditOf(x.stream, Outgoing(n)) = c + 1
  <2>1. x.stream \in Streams /\ Append(h.wire, f) \in Seq(Frames)
    BY <1>6, WiresType
  <2>2. g = [h EXCEPT !.stream = x.stream, !.owed = owed, !.wire = Append(h.wire, f)]
    BY <1>6
  <2>3. /\ g \in HelperRecords /\ g.stream = x.stream /\ g.wire = Append(h.wire, f)
        /\ g.owed = owed /\ g.left = h.left
    <3> HIDE DEF owed, f
    <3> QED BY <1>1, <1>4, <2>2, <2>1 DEF HelperRecords
  <2>4. ChunksIn(n, g) = ChunksIn(n, h)
    <3>1. g.wire = Append(h.wire, Grant(Outgoing(n), "helper"))
      BY <2>3
    <3>2. h \in HelperRecords /\ Outgoing(n) \in Windows
      BY <1>1
    <3> HIDE DEF f
    <3> QED BY <3>1, <3>2, GrantIsNoChunk, ZenonT(30)
  <2>5. d + g.owed = Credit
    <3>1. d = c + 1
      BY <1>6, <2>3
    <3>2. c + h.owed = Credit
      BY <1>2, <1>6
    <3> HIDE DEF c, d
    <3> QED BY <1>1, <2>3, <3>1, <3>2
  <2>6. d + g.owed <= Credit
    BY <1>1, <2>5
  <2>7. /\ IF IsRemote(n) THEN Link(n.stream, w, g.stream, g.wire)
                          ELSE Link(g.stream, g.wire, n.stream, w)
        /\ g.stream.initiator = h.stream.initiator
    <3> HIDE DEF f
    <3> QED BY <1>6, <2>3
  <2> QED BY <1>1, <2>3, <2>4, <2>5, <2>6, <2>7, HelperTurns
<1> QED BY <1>5, <1>6, GrantFits

\* The helper owes the credit of what it takes off a wire it reads.
LEMMA ReadOwes ==
  ASSUME NEW n, NEW h \in HelperRecords, Sound(h.stream),
         NEW f, NEW x,
         \/ IsRemote(n) /\ ResponderTakes(h.stream, f, x)
         \/ ~IsRemote(n) /\ InitiatorTakes(h.stream, f, x)
  PROVE  LET owed == IF x.outcome \in {"request_chunk_delivered", "response_chunk_delivered"}
                     THEN h.owed + 1 ELSE h.owed IN
         /\ owed \in Nat
         /\ x.stream.initiator = h.stream.initiator
         /\ CreditOf(x.stream, Outgoing(n)) + owed <= CreditOf(h.stream, Outgoing(n)) + h.owed
         /\ Takes(x.stream, Outgoing(n)) =>
              /\ Takes(h.stream, Outgoing(n))
              /\ CreditOf(x.stream, Outgoing(n)) + owed
                   = CreditOf(h.stream, Outgoing(n)) + h.owed
<1> DEFINE wanted == IF x.outcome \in {"request_chunk_delivered", "response_chunk_delivered"}
                     THEN h.owed + 1 ELSE h.owed
<1> SUFFICES ASSUME NEW owed, owed = wanted
    PROVE  /\ owed \in Nat
           /\ x.stream.initiator = h.stream.initiator
           /\ CreditOf(x.stream, Outgoing(n)) + owed
                <= CreditOf(h.stream, Outgoing(n)) + h.owed
           /\ Takes(x.stream, Outgoing(n)) =>
                /\ Takes(h.stream, Outgoing(n))
                /\ CreditOf(x.stream, Outgoing(n)) + owed
                     = CreditOf(h.stream, Outgoing(n)) + h.owed
  OBVIOUS
<1> DEFINE c == CreditOf(h.stream, Outgoing(n))
           d == CreditOf(x.stream, Outgoing(n))
<1>1. /\ h.stream \in Streams /\ h.owed \in Nat /\ c \in Nat /\ Credit \in Nat
      /\ h.stream.requestCredit \in Nat /\ h.stream.responseCredit \in Nat
  BY StreamType DEF Sound, HelperRecords, CreditOf
<1>2. owed \in Nat
  BY <1>1
<1> DEFINE same == /\ owed = h.owed /\ d = c
                   /\ Takes(x.stream, Outgoing(n)) => Takes(h.stream, Outgoing(n))
           taken == /\ owed = h.owed + 1 /\ c = d + 1 /\ d \in Nat
                    /\ Takes(x.stream, Outgoing(n)) => Takes(h.stream, Outgoing(n))
           dropped == owed = h.owed /\ c = d + 1 /\ d \in Nat /\ ~Takes(x.stream, Outgoing(n))
<1>3. x.stream.initiator = h.stream.initiator /\ (same \/ taken \/ dropped)
  <2>1. CASE IsRemote(n) /\ ResponderTakes(h.stream, f, x)
    <3> DEFINE r == h.stream
    <3>1. Outgoing(n) = "request"
      BY <2>1 DEF Outgoing
    <3>2. c = r.requestCredit /\ d = x.stream.requestCredit
      BY <3>1 DEF CreditOf
    <3>3. CASE r.at = "unknown" /\ x = To("request_started", Started(r.initiator))
      <4>1. x.outcome = "request_started" /\ x.stream = Started(r.initiator)
        BY <3>3 DEF To
      <4>2. r = Unstarted(r.initiator)
        BY <3>3 DEF Sound
      <4>3. x.stream.initiator = r.initiator /\ x.stream.requestCredit = Credit
        BY <4>1 DEF Started
      <4>4. r.requestCredit = Credit /\ r.request = "open"
        BY <4>2 DEF Unstarted, Started
      <4>5. same
        BY <3>1, <3>2, <4>1, <4>3, <4>4 DEF Takes
      <4> QED BY <4>3, <4>5
    <3>4. CASE /\ r.requestCredit > 0
               /\ x = To(IF r.request = "open" THEN "request_chunk_delivered"
                                               ELSE "request_chunk_discarded",
                         [r EXCEPT !.requestCredit = @ - 1])
      <4>1. /\ x.stream = [r EXCEPT !.requestCredit = @ - 1]
            /\ x.outcome = IF r.request = "open" THEN "request_chunk_delivered"
                                                 ELSE "request_chunk_discarded"
        BY <3>4 DEF To
      <4>2. /\ x.stream.initiator = r.initiator /\ x.stream.request = r.request
            /\ x.stream.requestCredit = r.requestCredit - 1
        BY <1>1, <4>1 DEF Streams
      <4>3. c = d + 1 /\ d \in Nat
        <5> HIDE DEF c, d
        <5> QED BY <1>1, <3>2, <3>4, <4>2
      <4>4. Takes(x.stream, Outgoing(n)) <=> r.request = "open"
        BY <3>1, <4>2 DEF Takes
      <4>5. Takes(r, Outgoing(n)) <=> r.request = "open"
        BY <3>1 DEF Takes
      <4>6. CASE r.request = "open"
        BY <4>1, <4>2, <4>3, <4>5, <4>6
      <4>7. CASE r.request # "open"
        BY <4>1, <4>2, <4>3, <4>4, <4>7
      <4> QED BY <4>6, <4>7
    <3>5. CASE x = To("request_ended", [r EXCEPT !.request = "ended"])
      <4>1. /\ x.outcome = "request_ended" /\ x.stream.initiator = r.initiator
            /\ x.stream.request = "ended" /\ x.stream.requestCredit = r.requestCredit
        BY <1>1, <3>5 DEF To, Streams
      <4>2. same
        BY <3>1, <3>2, <4>1 DEF Takes
      <4> QED BY <4>1, <4>2
    <3>6. CASE x = To("request_cancelled", [r EXCEPT !.cancelled = TRUE, !.request = "cancelled"])
      <4>1. /\ x.outcome = "request_cancelled" /\ x.stream.initiator = r.initiator
            /\ x.stream.request = "cancelled" /\ x.stream.requestCredit = r.requestCredit
        BY <1>1, <3>6 DEF To, Streams
      <4>2. same
        BY <3>1, <3>2, <4>1 DEF Takes
      <4> QED BY <4>1, <4>2
    <3>7. CASE /\ x.outcome \in {"cancel_ignored", "window_ignored", "inactive_frame_ignored"}
               /\ x.stream = r
      BY <3>7
    <3>8. CASE x = To("window_updated", [r EXCEPT !.responseCredit = @ + 1])
      <4>1. /\ x.outcome = "window_updated" /\ x.stream.initiator = r.initiator
            /\ x.stream.request = r.request /\ x.stream.requestCredit = r.requestCredit
        BY <1>1, <3>8 DEF To, Streams
      <4>2. same
        BY <3>1, <3>2, <4>1 DEF Takes
      <4> QED BY <4>1, <4>2
    <3> HIDE DEF same, taken, dropped
    <3> QED BY <2>1, <3>3, <3>4, <3>5, <3>6, <3>7, <3>8 DEF ResponderTakes
  <2>2. CASE ~IsRemote(n) /\ InitiatorTakes(h.stream, f, x)
    <3> DEFINE i == h.stream
    <3>1. Outgoing(n) = "response"
      BY <2>2 DEF Outgoing
    <3>2. c = i.responseCredit /\ d = x.stream.responseCredit
      BY <3>1 DEF CreditOf
    <3>3. CASE /\ i.response = "none"
               /\ x = To("response_started", [i EXCEPT !.response = "open"])
      <4>1. /\ x.outcome = "response_started" /\ x.stream.initiator = i.initiator
            /\ x.stream.responseCredit = i.responseCredit
        BY <1>1, <3>3 DEF To, Streams
      <4>2. same
        BY <3>1, <3>2, <3>3, <4>1 DEF Takes, IsResponseTerminal
      <4> QED BY <4>1, <4>2
    <3>4. CASE /\ i.response = "open" /\ i.responseCredit > 0
               /\ x = To("response_chunk_delivered", [i EXCEPT !.responseCredit = @ - 1])
      <4>1. /\ x.outcome = "response_chunk_delivered" /\ x.stream.initiator = i.initiator
            /\ x.stream.responseCredit = i.responseCredit - 1
        BY <1>1, <3>4 DEF To, Streams
      <4>2. c = d + 1 /\ d \in Nat
        <5> HIDE DEF c, d
        <5> QED BY <1>1, <3>2, <3>4, <4>1
      <4>3. taken
        BY <3>1, <3>4, <4>1, <4>2 DEF Takes, IsResponseTerminal
      <4> QED BY <4>1, <4>3
    <3>5. CASE \/ x = To("response_ended", Closed(i, "succeeded"))
               \/ x = To("response_failed", Closed(i, "failed"))
      <4>1. /\ x.outcome \in {"response_ended", "response_failed"}
            /\ x.stream.initiator = i.initiator
            /\ x.stream.responseCredit = i.responseCredit
            /\ x.stream.response \in {"succeeded", "failed"}
        <5>1. /\ Closed(i, "succeeded").initiator = i.initiator
              /\ Closed(i, "succeeded").responseCredit = i.responseCredit
              /\ Closed(i, "succeeded").response = "succeeded"
              /\ Closed(i, "failed").initiator = i.initiator
              /\ Closed(i, "failed").responseCredit = i.responseCredit
              /\ Closed(i, "failed").response = "failed"
          BY <1>1 DEF Closed, Streams
        <5> QED BY <3>5, <5>1 DEF To
      <4>2. same
        BY <3>1, <3>2, <4>1 DEF Takes, IsResponseTerminal
      <4> QED BY <4>1, <4>2
    <3>6. CASE /\ x.outcome \in {"window_ignored", "inactive_frame_ignored"}
               /\ x.stream = i
      BY <3>6
    <3>7. CASE x = To("window_updated", [i EXCEPT !.requestCredit = @ + 1])
      <4>1. /\ x.outcome = "window_updated" /\ x.stream.initiator = i.initiator
            /\ x.stream.response = i.response /\ x.stream.responseCredit = i.responseCredit
        BY <1>1, <3>7 DEF To, Streams
      <4>2. same
        BY <3>1, <3>2, <4>1 DEF Takes, IsResponseTerminal
      <4> QED BY <4>1, <4>2
    <3> HIDE DEF same, taken, dropped
    <3> QED BY <2>2, <3>3, <3>4, <3>5, <3>6, <3>7 DEF InitiatorTakes
  <2> QED BY <2>1, <2>2
<1>4. \/ d + owed = c + h.owed /\ (Takes(x.stream, Outgoing(n)) => Takes(h.stream, Outgoing(n)))
      \/ d + owed <= c + h.owed /\ ~Takes(x.stream, Outgoing(n))
  <2>1. CASE same
    BY <2>1
  <2>2. CASE taken
    <3>1. d + owed = c + h.owed
      <4>1. owed = h.owed + 1 /\ c = d + 1 /\ d \in Nat
        BY <2>2
      <4> HIDE DEF c, d
      <4> QED BY <1>1, <4>1
    <3> QED BY <2>2, <3>1
  <2>3. CASE dropped
    <3>1. d + owed <= c + h.owed
      <4>1. owed = h.owed /\ c = d + 1 /\ d \in Nat
        BY <2>3
      <4> HIDE DEF c, d
      <4> QED BY <1>1, <4>1
    <3> QED BY <2>3, <3>1
  <2> QED BY <1>3, <2>1, <2>2, <2>3
<1>5. c + h.owed \in Nat
  <2> HIDE DEF c
  <2> QED BY <1>1
<1> HIDE DEF same, taken, dropped, c, d
<1>6. d + owed <= c + h.owed
  BY <1>4, <1>5
<1> QED BY <1>2, <1>3, <1>4, <1>6 DEF c, d

\* What the helper takes off the wire, it takes: the ends stay linked, and it
\* owes what its copy lacks.
LEMMA HelperTakes ==
  ASSUME NEW n, NEW h, NEW u, NEW p, Sane(n, h, u, p), u, n.wire # <<>>
  PROVE  LET x == Receive(h.stream, Head(n.wire))
             owed == IF x.outcome \in {"request_chunk_delivered", "response_chunk_delivered"}
                     THEN h.owed + 1 ELSE h.owed IN
         /\ x.outcome \notin Refused
         /\ IF IsRemote(n) THEN Link(n.stream, Tail(n.wire), x.stream, h.wire)
                           ELSE Link(x.stream, h.wire, n.stream, Tail(n.wire))
         /\ owed \in Nat
         /\ x.stream.initiator = h.stream.initiator
         /\ CreditOf(x.stream, Outgoing(n)) + owed <= CreditOf(h.stream, Outgoing(n)) + h.owed
         /\ Takes(x.stream, Outgoing(n)) =>
              /\ Takes(h.stream, Outgoing(n))
              /\ CreditOf(x.stream, Outgoing(n)) + owed
                   = CreditOf(h.stream, Outgoing(n)) + h.owed
<1> DEFINE f == Head(n.wire)
           x == Receive(h.stream, f)
<1>1. /\ h \in HelperRecords /\ Sound(h.stream)
      /\ IF IsRemote(n)
         THEN n.stream.initiator = "node" /\ Link(n.stream, n.wire, h.stream, h.wire)
         ELSE n.stream.initiator = "helper" /\ Link(h.stream, h.wire, n.stream, n.wire)
  BY BothEnds
<1>2. CASE IsRemote(n)
  <2>1. /\ x.outcome \notin Refused /\ Link(n.stream, Tail(n.wire), x.stream, h.wire)
        /\ ResponderTakes(h.stream, f, x)
    BY <1>1, <1>2, ResponderReads
  <2> QED BY <1>1, <1>2, <2>1, ReadOwes
<1>3. CASE ~IsRemote(n)
  <2>1. /\ x.outcome \notin Refused /\ Link(x.stream, h.wire, n.stream, Tail(n.wire))
        /\ InitiatorTakes(h.stream, f, x)
    BY <1>1, <1>3, InitiatorReads
  <2> QED BY <1>1, <1>3, <2>1, ReadOwes
<1> QED BY <1>2, <1>3

\* The helper reads what the node wrote, and refuses nothing of it.
LEMMA HelperHears ==
  ASSUME NEW n, NEW h, NEW u, NEW p, Sane(n, h, u, p), u, n.wire # <<>>,
         NEW x, x = Receive(h.stream, Head(n.wire)),
         NEW m, m = [n EXCEPT !.wire = Tail(@)],
         NEW g, g = [h EXCEPT !.stream = x.stream,
                       !.owed = IF x.outcome \in {"request_chunk_delivered",
                                                  "response_chunk_delivered"}
                                THEN @ + 1 ELSE @]
  PROVE  Sane(m, g, u, p) /\ x.outcome \notin Refused
<1> DEFINE owed == IF x.outcome \in {"request_chunk_delivered", "response_chunk_delivered"}
                   THEN h.owed + 1 ELSE h.owed
           w == Tail(n.wire)
<1>1. /\ n \in NodeRecords /\ h \in HelperRecords /\ Sound(h.stream)
  BY BothEnds
<1>2. /\ x.outcome \notin Refused
      /\ IF IsRemote(n) THEN Link(n.stream, w, x.stream, h.wire)
                        ELSE Link(x.stream, h.wire, n.stream, w)
  BY HelperTakes
<1>3. /\ owed \in Nat
      /\ x.stream.initiator = h.stream.initiator
      /\ CreditOf(x.stream, Outgoing(n)) + owed <= CreditOf(h.stream, Outgoing(n)) + h.owed
      /\ Takes(x.stream, Outgoing(n)) =>
           /\ Takes(h.stream, Outgoing(n))
           /\ CreditOf(x.stream, Outgoing(n)) + owed
                = CreditOf(h.stream, Outgoing(n)) + h.owed
  BY HelperTakes
<1>4. x.stream \in Streams /\ w \in Seq(Frames) /\ Sound(x.stream)
  <2>1. x.stream \in Streams /\ w \in Seq(Frames)
    BY <1>2, WiresType
  <2>2. Sound(x.stream)
    BY <1>2 DEF Link, Wires
  <2> QED BY <2>1, <2>2
<1>5. g = [h EXCEPT !.stream = x.stream, !.owed = owed] /\ m = [n EXCEPT !.wire = w]
  OBVIOUS
<1>6. /\ g \in HelperRecords /\ g.stream = x.stream /\ g.wire = h.wire
      /\ g.left = h.left /\ g.owed = owed
  <2> HIDE DEF owed
  <2> QED BY <1>1, <1>3, <1>4, <1>5 DEF HelperRecords
<1>7. ChunksIn(n, g) = ChunksIn(n, h)
  BY <1>6 DEF ChunksIn
<1>8. IF IsRemote(n) THEN Link(n.stream, w, g.stream, g.wire)
                     ELSE Link(g.stream, g.wire, n.stream, w)
  BY <1>2, <1>6
<1>9. /\ CreditOf(g.stream, Outgoing(n)) + g.owed <= Credit
      /\ Takes(g.stream, Outgoing(n)) =>
           CreditOf(g.stream, Outgoing(n)) + g.owed = Credit
  <2> DEFINE c == CreditOf(h.stream, Outgoing(n))
             d == CreditOf(x.stream, Outgoing(n))
  <2>1. /\ c + h.owed <= Credit
        /\ Takes(h.stream, Outgoing(n)) => c + h.owed = Credit
    BY DEF Sane, HelperDrained
  <2>2. c \in Nat /\ d \in Nat /\ h.owed \in Nat /\ Credit \in Nat
    BY <1>1, <1>4, StreamType DEF CreditOf, HelperRecords
  <2>3. d + owed <= Credit
    <3> HIDE DEF c, d, owed
    <3> QED BY <1>3, <2>1, <2>2 DEF c, d
  <2>4. Takes(x.stream, Outgoing(n)) => d + owed = Credit
    BY <1>3, <2>1
  <2> QED BY <1>6, <2>3, <2>4
<1>10. Sane(m, g, u, p)
  <2> HIDE DEF w, owed
  <2> QED BY <1>3, <1>4, <1>5, <1>6, <1>7, <1>8, <1>9, HelperTurns, ZenonT(30)
<1> QED BY <1>2, <1>10

\* The helper forgets a stream that is over.
LEMMA HelperForgets ==
  ASSUME NEW n, NEW h, NEW u, NEW p, Sane(n, h, u, p),
         h.stream.at = "active", IsResponseTerminal(h.stream),
         h.stream.request \notin {"open", "response_closed"},
         NEW g, g = [h EXCEPT !.stream = Removed(@)]
  PROVE  Sane(n, g, u, p)
<1> DEFINE s == [h.stream EXCEPT !.at = "removed"]
           w == n.wire
<1>1. n \in NodeRecords /\ h \in HelperRecords /\ h.stream \in Streams
  BY DEF Sane, Typed, HelperRecords
<1>2. Removed(h.stream) = s
  BY DEF Removed, Removable
<1>3. /\ s \in Streams /\ s.initiator = h.stream.initiator
      /\ s.request = h.stream.request /\ s.response = h.stream.response
      /\ s.requestCredit = h.stream.requestCredit /\ s.responseCredit = h.stream.responseCredit
  BY <1>1 DEF Streams
<1>4. /\ g \in HelperRecords /\ g.stream = s /\ g.wire = h.wire
      /\ g.left = h.left /\ g.owed = h.owed
  <2>1. g = [h EXCEPT !.stream = s]
    BY <1>2
  <2> HIDE DEF s
  <2> QED BY <1>1, <1>3, <2>1 DEF HelperRecords
<1>5. /\ w \in Seq(Frames) /\ n = [n EXCEPT !.wire = w]
  BY <1>1 DEF NodeRecords
<1>6. ChunksIn(n, g) = ChunksIn(n, h)
  BY <1>4 DEF ChunksIn
<1>7. u => IF IsRemote(n) THEN Link(n.stream, w, g.stream, g.wire)
                         ELSE Link(g.stream, g.wire, n.stream, w)
  <2>1. SUFFICES ASSUME u
                 PROVE  IF IsRemote(n) THEN Link(n.stream, w, s, h.wire)
                                       ELSE Link(s, h.wire, n.stream, w)
    BY <1>4
  <2>2. /\ Sound(h.stream)
        /\ IF IsRemote(n) THEN Link(n.stream, w, h.stream, h.wire)
                          ELSE Link(h.stream, h.wire, n.stream, w)
    BY <2>1, BothEnds
  <2>3. h.stream.request \in {"ended", "cancelled"}
    BY <2>2 DEF Sound, Streams, RequestStates
  <2>4. CASE IsRemote(n)
    BY <2>2, <2>3, <2>4, ResponderForgets
  <2>5. CASE ~IsRemote(n)
    BY <2>2, <2>5, InitiatorForgets
  <2> QED BY <2>4, <2>5
<1>8. u => /\ CreditOf(g.stream, Outgoing(n)) + g.owed <= Credit
           /\ Takes(g.stream, Outgoing(n)) =>
                CreditOf(g.stream, Outgoing(n)) + g.owed = Credit
  <2>1. /\ CreditOf(g.stream, Outgoing(n)) = CreditOf(h.stream, Outgoing(n))
        /\ Takes(g.stream, Outgoing(n)) <=> Takes(h.stream, Outgoing(n))
    BY <1>3, <1>4 DEF CreditOf, Takes, IsResponseTerminal
  <2> QED BY <1>4, <2>1 DEF Sane, HelperDrained
<1>9. g.stream.initiator = h.stream.initiator
  BY <1>3, <1>4
<1> HIDE DEF w, s
<1> QED BY <1>4, <1>5, <1>6, <1>7, <1>8, <1>9, HelperTurns

-----------------------------------------------------------------------------
(* The pump, between two steps of it.                                      *)

\* A step of somebody else, which may wake the pump and may close its source.
LEMMA PumpStays ==
  ASSUME NEW n, Pumped(n), NEW m,
         m.stream.initiator = n.stream.initiator,
         m.pump = n.pump \/ m.pump = Woken(n.pump), m.left = n.left,
         n.closed => m.closed, n.aborted => m.aborted,
         (m.source <=> n.source)
           \/ (~m.source /\ (m.aborted \/ m.closed \/ n.pump # "starting")),
         ~IsRemote(n) => m.stream.response = n.stream.response,
         IsRemote(n) => m.stream.request = n.stream.request
                          \/ ~m.source \/ m.aborted \/ m.closed
  PROVE  Pumped(m)
<1>1. IsRemote(m) <=> IsRemote(n)
  BY DEF IsRemote
<1>2. \/ m.pump = n.pump
      \/ n.pump = "waiting" /\ m.pump = "credit"
  BY DEF Woken
<1>3. ~IsRemote(n) => (IsResponseTerminal(m.stream) <=> IsResponseTerminal(n.stream))
  BY DEF IsResponseTerminal
<1>4. PumpHost(m)
  BY <1>1, <1>2, <1>3 DEF Pumped, PumpHost
<1>5. PumpRemote(m)
  BY <1>1, <1>2 DEF Pumped, PumpRemote
<1>6. PumpHasChunk(m)
  BY <1>2 DEF Pumped, PumpHasChunk
<1> QED BY <1>4, <1>5, <1>6 DEF Pumped

\* A pump that is off asks nothing.
LEMMA PumpOff ==
  ASSUME NEW m, m.pump = "off"
  PROVE  Pumped(m)
BY DEF Pumped, PumpHost, PumpRemote, PumpHasChunk

\* A pump that runs has a stream.
LEMMA PumpRuns ==
  ASSUME NEW n, NEW h, NEW u, NEW p, Good(n, h, u, p)
  PROVE  /\ Sane(n, h, u, p) /\ Pumped(n) /\ n \in NodeRecords /\ p \in PastRecords
         /\ n.pump # "idle" <=> n.stream.at # "unknown"
         /\ n.caller # "none" => n.stream.at # "unknown"
         /\ n.tail # <<>> => n.stream.at # "unknown"
         /\ n.body # "open" => n.stream.at # "unknown"
BY DEF Good, Sane, Known, Typed

\* The outcomes of the node's marks.
LEMMA MarksAre ==
  ASSUME NEW n \in NodeRecords
  PROVE  /\ Destroyed(n.body) \in Bodies
         /\ Destroyed(n.body) = n.body \/ Destroyed(n.body) = "destroyed"
         /\ Destroyed(n.body) # "open"
         /\ Woken(n.pump) \in Pumps /\ (Woken(n.pump) = "idle" <=> n.pump = "idle")
         /\ Rejected(n.caller) \in {"none", "waiting", "answered", "rejected"}
         /\ n.pump \in Pumps /\ n.caller \in {"none", "waiting", "answered", "rejected"}
         /\ n.aborted \in BOOLEAN /\ n.source \in BOOLEAN /\ n.closed \in BOOLEAN
         /\ n.body \in Bodies /\ n.left \in 0..MaxChunks
BY DEF NodeRecords, Destroyed, Woken, Rejected, Bodies, Pumps

\* #cancelRemoteStream: what is cancelled stays whole on both ends.
LEMMA Cancels ==
  ASSUME NEW n, NEW h, NEW u, NEW p, Good(n, h, u, p), IsRemote(n), n.stream.at # "unknown"
  PROVE  /\ Good(CancelRemote(n), h, u, p)
         /\ IsRemote(CancelRemote(n)) /\ CancelRemote(n).stream.at # "unknown"
         /\ CancelRemote(n) \in NodeRecords
<1> DEFINE m == [n EXCEPT !.aborted = TRUE, !.caller = Rejected(@), !.source = FALSE,
                          !.body = Destroyed(@), !.pump = Woken(@)]
           c == CancelRemote(n)
<1>1. /\ Sane(n, h, u, p) /\ Pumped(n) /\ n \in NodeRecords /\ n.pump # "idle"
  BY PumpRuns
<1>2. CASE n.closed \/ n.aborted
  BY <1>1, <1>2 DEF CancelRemote
<1>3. CASE ~(n.closed \/ n.aborted)
  <2>1. c = Send(m, Frame("request_cancel", "node"))
    BY <1>3 DEF CancelRemote
  <2>2. m = [n EXCEPT !.aborted = TRUE, !.caller = Rejected(n.caller), !.source = FALSE,
                      !.body = Destroyed(n.body), !.pump = Woken(n.pump)]
    OBVIOUS
  <2>3. /\ m \in NodeRecords
        /\ m.stream = n.stream /\ m.wire = n.wire /\ m.tail = n.tail /\ m.held = n.held
        /\ m.closed = n.closed /\ m.left = n.left
        /\ m.aborted = TRUE /\ m.source = FALSE
        /\ m.body = Destroyed(n.body) /\ m.pump = Woken(n.pump)
    BY <1>1, <2>2, MarksAre DEF NodeRecords
  <2> HIDE DEF m, c
  <2>4. /\ m.body = n.body \/ m.body = "destroyed"
        /\ m.pump # "idle"
    BY <1>1, <2>3, MarksAre
  <2>5. Sane(m, h, u, p)
    BY <1>1, <2>3, <2>4, Marked
  <2>6. IsRemote(m) /\ ~m.closed /\ m.stream.at # "unknown"
    BY <1>3, <2>3 DEF IsRemote
  <2>7. /\ Sane(c, h, u, p)
        /\ \E s, w : /\ c = [m EXCEPT !.stream = s, !.wire = w]
                     /\ s.response = m.stream.response /\ s.initiator = m.stream.initiator
                     /\ s.at = m.stream.at
    BY <2>1, <2>5, <2>6, NodeSendsCancel
  <2>8. /\ c.stream.initiator = n.stream.initiator /\ c.stream.at = n.stream.at
        /\ c.pump = m.pump /\ c.left = n.left /\ c.closed = n.closed
        /\ c.aborted = TRUE /\ c.source = FALSE
    BY <2>3, <2>7 DEF NodeRecords
  <2>9. Pumped(c)
    BY <1>1, <2>3, <2>8, PumpStays
  <2>10. c \in NodeRecords
    BY <2>7 DEF Sane, Typed
  <2> QED BY <2>7, <2>6, <2>8, <2>9, <2>10 DEF Good, IsRemote, c
<1> QED BY <1>2, <1>3

\* #rejectHostStream
LEMMA Rejects ==
  ASSUME NEW n, NEW h, NEW u, NEW p, Good(n, h, u, p), ~IsRemote(n), n.stream.at # "unknown"
  PROVE  Good(Reject(n), h, u, p)
<1> DEFINE m == [n EXCEPT !.aborted = TRUE, !.source = FALSE,
                          !.body = Destroyed(@), !.pump = "ending"]
           c == Reject(n)
<1>1. /\ Sane(n, h, u, p) /\ Pumped(n) /\ n \in NodeRecords /\ n.pump # "idle"
  BY PumpRuns
<1>2. CASE n.closed
  <2>1. c = [n EXCEPT !.pump = "off"]
    BY <1>2 DEF Reject
  <2>2. /\ c \in NodeRecords
        /\ c.stream = n.stream /\ c.wire = n.wire /\ c.tail = n.tail /\ c.held = n.held
        /\ c.closed = n.closed /\ c.body = n.body /\ c.pump = "off"
    BY <1>1, <2>1 DEF NodeRecords, Pumps
  <2> HIDE DEF c
  <2>3. Sane(c, h, u, p)
    BY <1>1, <2>2, Marked
  <2> QED BY <2>2, <2>3, PumpOff DEF Good, c
<1>3. CASE ~n.closed
  <2>1. c = IF m.stream.failed \/ IsResponseTerminal(m.stream) THEN m
            ELSE Send(m, Frame("response_error", "node"))
    BY <1>3 DEF Reject
  <2>2. m = [n EXCEPT !.aborted = TRUE, !.caller = n.caller, !.source = FALSE,
                      !.body = Destroyed(n.body), !.pump = "ending"]
    BY <1>1 DEF NodeRecords
  <2>3. /\ m \in NodeRecords
        /\ m.stream = n.stream /\ m.wire = n.wire /\ m.tail = n.tail /\ m.held = n.held
        /\ m.closed = n.closed /\ m.left = n.left
        /\ m.body = Destroyed(n.body) /\ m.pump = "ending"
    <3>1. "ending" \in Pumps
      BY DEF Pumps
    <3> QED BY <1>1, <2>2, <3>1, MarksAre DEF NodeRecords
  <2> HIDE DEF m, c
  <2>4. /\ m.body = n.body \/ m.body = "destroyed"
        /\ m.pump # "idle"
    BY <1>1, <2>3, MarksAre
  <2>5. Sane(m, h, u, p)
    BY <1>1, <2>3, <2>4, Marked
  <2>6. ~IsRemote(m) /\ ~m.closed /\ m.stream.at # "unknown" /\ ~m.stream.failed
    <3>1. Sound(n.stream)
      BY <1>1, <1>3, Live
    <3> QED BY <1>3, <2>3, <3>1 DEF IsRemote, Sound
  <2>7. CASE IsResponseTerminal(m.stream)
    <3>1. c = m
      BY <2>1, <2>7
    <3>2. Pumped(m)
      BY <2>3, <2>6, <2>7 DEF Pumped, PumpHost, PumpRemote, PumpHasChunk
    <3> QED BY <2>5, <3>1, <3>2 DEF Good, c
  <2>8. CASE ~IsResponseTerminal(m.stream)
    <3>1. c = Send(m, Frame("response_error", "node"))
      BY <2>1, <2>6, <2>8
    <3>2. /\ Sane(c, h, u, p)
          /\ c = [m EXCEPT !.stream = Closed(m.stream, "failed"),
                           !.wire = Append(m.wire, Frame("response_error", "node"))]
      BY <2>5, <2>6, <2>8, <3>1, NodeAnswersError
    <3>3. c.pump = "ending" /\ c.stream = Closed(m.stream, "failed")
      BY <2>3, <3>2 DEF NodeRecords
    <3>4. m.stream \in Streams
      BY <2>3 DEF NodeRecords
    <3>5. c.stream.initiator = m.stream.initiator /\ IsResponseTerminal(c.stream)
      BY <3>3, <3>4 DEF Closed, Streams, IsResponseTerminal
    <3>6. Pumped(c)
      BY <2>6, <3>3, <3>5 DEF Pumped, PumpHost, PumpRemote, PumpHasChunk, IsRemote
    <3> QED BY <3>2, <3>6 DEF Good, c
  <2> QED BY <2>7, <2>8
<1> QED BY <1>2, <1>3

\* What the pump does when something it awaited failed.
LEMMA Throws ==
  ASSUME NEW n, NEW h, NEW u, NEW p, Good(n, h, u, p), n.stream.at # "unknown"
  PROVE  Good(PumpThrows(n), h, u, p)
<1>1. CASE ~IsRemote(n)
  BY <1>1, Rejects DEF PumpThrows
<1>2. CASE IsRemote(n)
  <2> DEFINE c == CancelRemote(n)
             m == [c EXCEPT !.pump = "off"]
  <2>1. /\ Good(c, h, u, p) /\ c.stream.at # "unknown" /\ c \in NodeRecords
    BY <1>2, Cancels
  <2>2. /\ m \in NodeRecords
        /\ m.stream = c.stream /\ m.wire = c.wire /\ m.tail = c.tail /\ m.held = c.held
        /\ m.closed = c.closed /\ m.body = c.body /\ m.pump = "off"
    BY <2>1 DEF NodeRecords, Pumps
  <2>3. PumpThrows(n) = m
    BY <1>2 DEF PumpThrows
  <2> HIDE DEF m, c
  <2>4. Sane(m, h, u, p)
    BY <2>1, <2>2, Marked DEF Good
  <2> QED BY <2>2, <2>3, <2>4, PumpOff DEF Good
<1> QED BY <1>1, <1>2

-----------------------------------------------------------------------------
(* The node's outgoing body.                                               *)

\* request() opens a stream and waits for its flush.
LEMMA RequestKeeps ==
  ASSUME StreamInv, Request
  PROVE  StreamInv'
<1>1. Good(node, helper, up, past)
  BY DEF StreamInv
<1>2. /\ up /\ IsRemote(node) /\ node.pump = "idle"
      /\ helper' = helper /\ up' = up /\ past' = past
  BY DEF Request
<1>3. PICK chunks \in 0..MaxChunks :
        node' = [Send(node, Frame("request_start", "node"))
                   EXCEPT !.pump = "starting", !.left = chunks, !.caller = "waiting"]
  BY DEF Request
<1>4. /\ Sane(node, helper, up, past) /\ node \in NodeRecords
      /\ node.stream.at = "unknown" /\ node.source
  BY <1>1, <1>2 DEF Good, Sane, Typed, Known
<1>5. /\ Sane(node', helper, up, past)
      /\ Send(node, Frame("request_start", "node"))
           = [node EXCEPT !.stream = Started("node"),
                          !.wire = Append(node.wire, Frame("request_start", "node"))]
  BY <1>2, <1>3, <1>4, NodeOpens
<1>6. /\ node'.pump = "starting" /\ node'.source = node.source
      /\ node'.stream = Started("node")
  BY <1>3, <1>4, <1>5 DEF NodeRecords
<1>7. IsRemote(node') /\ node'.stream.request = "open"
  BY <1>6 DEF Started, IsRemote
<1>8. Pumped(node')
  BY <1>4, <1>6, <1>7 DEF Pumped, PumpHost, PumpRemote, PumpHasChunk
<1> QED BY <1>2, <1>5, <1>8 DEF StreamInv, Good

\* The pump goes to another of its steps and nothing else changes.
OnlyPump(n, m) ==
  /\ m \in NodeRecords /\ m.pump # "idle"
  /\ m.stream = n.stream /\ m.wire = n.wire /\ m.tail = n.tail /\ m.held = n.held
  /\ m.closed = n.closed /\ m.body = n.body /\ m.aborted = n.aborted
  /\ m.source = n.source

\* Such a step leaves everything else in order.
LEMMA PumpSteps ==
  ASSUME NEW n, NEW h, NEW u, NEW p, Sane(n, h, u, p), n.stream.at # "unknown",
         NEW m, OnlyPump(n, m)
  PROVE  /\ Sane(m, h, u, p)
         /\ m.stream = n.stream /\ m.closed = n.closed /\ m.aborted = n.aborted
         /\ m.source = n.source
<1>1. Sane(m, h, u, p)
  BY Marked DEF OnlyPump
<1> QED BY <1>1 DEF OnlyPump

\* The flush of the request's start is over.
LEMMA StartFlushedKeeps ==
  ASSUME StreamInv, StartFlushed
  PROVE  StreamInv'
<1>1. Good(node, helper, up, past)
  BY DEF StreamInv
<1>2. node.pump = "starting" /\ helper' = helper /\ up' = up /\ past' = past
  BY DEF StartFlushed
<1>3. /\ Sane(node, helper, up, past) /\ Pumped(node) /\ node \in NodeRecords
      /\ node.stream.at # "unknown" /\ IsRemote(node) /\ node.left \in 0..MaxChunks
  BY <1>1, <1>2, PumpRuns DEF Pumped, PumpHost, NodeRecords
<1>4. Good(node', helper, up, past)
  <2>1. CASE node.aborted \/ node.closed
    <3>1. node' = [node EXCEPT !.pump = "off", !.left = node.left]
      BY <1>3, <2>1 DEF StartFlushed, NodeRecords
    <3>2. "off" \in Pumps \ {"idle"}
      BY DEF Pumps
    <3>3. OnlyPump(node, node') /\ node'.pump = "off"
      BY <1>3, <3>1, <3>2 DEF OnlyPump, NodeRecords
    <3>4. Sane(node', helper, up, past)
      BY <1>3, <3>3, PumpSteps
    <3> QED BY <3>3, <3>4, PumpOff DEF Good
  <2>2. CASE ~(node.aborted \/ node.closed) /\ node.left > 0
    <3>1. node' = [node EXCEPT !.pump = "reading", !.left = node.left]
      BY <1>3, <2>2 DEF StartFlushed, NodeRecords
    <3>2. "reading" \in Pumps \ {"idle"}
      BY DEF Pumps
    <3>3. OnlyPump(node, node') /\ node'.pump = "reading"
      BY <1>3, <3>1, <3>2 DEF OnlyPump, NodeRecords
    <3>4. Sane(node', helper, up, past)
      BY <1>3, <3>3, PumpSteps
    <3>5. Pumped(node')
      BY <1>2, <1>3, <3>3 DEF Pumped, PumpHost, PumpRemote, PumpHasChunk, IsRemote, OnlyPump
    <3> QED BY <3>4, <3>5 DEF Good
  <2>3. CASE ~(node.aborted \/ node.closed) /\ ~(node.left > 0)
    <3> DEFINE m == Send(node, Frame("request_end", "node"))
    <3>1. node' = [m EXCEPT !.pump = "off"]
      BY <2>3 DEF StartFlushed
    <3>2. node.stream.request = "open"
      BY <1>2, <1>3, <2>3 DEF Pumped, PumpRemote
    <3>3. /\ Sane(m, helper, up, past)
          /\ m = [node EXCEPT !.stream = [node.stream EXCEPT !.request = "ended"],
                              !.wire = Append(node.wire, Frame("request_end", "node"))]
      BY <1>3, <2>3, <3>2, NodeSendsEnd
    <3>4. /\ m \in NodeRecords /\ m.left \in 0..MaxChunks /\ m.stream.at # "unknown"
          /\ [m EXCEPT !.pump = "off"] = [m EXCEPT !.pump = "off", !.left = m.left]
      <4>1. m.stream.at = node.stream.at
        BY <1>3, <3>3, ZenonT(30) DEF NodeRecords, Streams
      <4>2. m \in NodeRecords
        BY <3>3 DEF Sane, Typed
      <4> HIDE DEF m
      <4> QED BY <1>3, <4>1, <4>2 DEF NodeRecords
    <3>5. "off" \in Pumps \ {"idle"}
      BY DEF Pumps
    <3> HIDE DEF m
    <3>6. OnlyPump(m, node') /\ node'.pump = "off"
      BY <3>1, <3>4, <3>5 DEF OnlyPump, NodeRecords
    <3>7. Sane(node', helper, up, past)
      BY <3>3, <3>4, <3>6, PumpSteps
    <3> QED BY <3>6, <3>7, PumpOff DEF Good
  <2> QED BY <2>1, <2>2, <2>3
<1> QED BY <1>2, <1>4 DEF StreamInv

\* #dispatchHostStream: an answer, an error, or an answer nobody wants.
LEMMA DispatchKeeps ==
  ASSUME StreamInv, Dispatch
  PROVE  StreamInv'
<1>1. Good(node, helper, up, past)
  BY DEF StreamInv
<1>2. node.pump = "dispatching" /\ helper' = helper /\ up' = up
  BY DEF Dispatch
<1>3. /\ Sane(node, helper, up, past) /\ Pumped(node) /\ node \in NodeRecords
      /\ node.stream.at # "unknown" /\ ~IsRemote(node) /\ node.stream.response = "none"
  BY <1>1, <1>2, PumpRuns DEF Pumped, PumpHost, PumpRemote
<1>4. Good(node', helper, up, past')
  <2>1. CASE node' = Reject(node) /\ past' = past
    BY <1>1, <1>3, <2>1, Rejects
  <2>2. CASE /\ ~node.aborted /\ ~node.closed
             /\ \E chunks \in 0..MaxChunks :
                  node' = [Send(node, Frame("response_start", "node"))
                             EXCEPT !.pump = "writing", !.left = chunks]
             /\ past' = past
    <3> DEFINE m == Send(node, Frame("response_start", "node"))
    <3>1. PICK chunks \in 0..MaxChunks : node' = [m EXCEPT !.pump = "writing", !.left = chunks]
      BY <2>2
    <3>2. /\ Sane(m, helper, up, past)
          /\ m = [node EXCEPT !.stream = [node.stream EXCEPT !.response = "open"],
                              !.wire = Append(node.wire, Frame("response_start", "node"))]
      BY <1>3, <2>2, NodeAnswers
    <3>3. /\ m.stream.at # "unknown" /\ m.stream.response = "open"
          /\ m.stream.initiator = node.stream.initiator
      <4>1. m.stream = [node.stream EXCEPT !.response = "open"]
        <5> HIDE DEF m
        <5> QED BY <1>3, <3>2 DEF NodeRecords
      <4>2. node.stream \in Streams
        BY <1>3 DEF NodeRecords
      <4> HIDE DEF m
      <4> QED BY <1>3, <4>1, <4>2 DEF Streams
    <3>4. "writing" \in Pumps \ {"idle"}
      BY DEF Pumps
    <3> HIDE DEF m
    <3>5. OnlyPump(m, node') /\ node'.pump = "writing"
      <4>1. m \in NodeRecords
        BY <3>2 DEF Sane, Typed
      <4> QED BY <3>1, <3>4, <4>1 DEF OnlyPump, NodeRecords
    <3>6. Sane(node', helper, up, past')
      BY <2>2, <3>2, <3>3, <3>5, PumpSteps
    <3>7. Pumped(node')
      BY <1>3, <3>3, <3>5 DEF Pumped, PumpHost, PumpRemote, PumpHasChunk, IsRemote, OnlyPump
    <3> QED BY <3>6, <3>7 DEF Good
  <2>3. CASE node' = [node EXCEPT !.pump = "off"] /\ past' = [past EXCEPT !.dropped = TRUE]
    <3>1. /\ past' \in PastRecords /\ past'.refused = past.refused
          /\ past'.sent = past.sent /\ past'.got = past.got
      <4>1. past \in PastRecords
        BY <1>1, PumpRuns
      <4> QED BY <2>3, <4>1 DEF PastRecords
    <3>2. "off" \in Pumps \ {"idle"}
      BY DEF Pumps
    <3>3. OnlyPump(node, node') /\ node'.pump = "off"
      BY <1>3, <2>3, <3>2 DEF OnlyPump, NodeRecords
    <3>4. Sane(node', helper, up, past')
      BY <1>3, <3>1, <3>3, PumpSteps, Remembered
    <3> QED BY <3>3, <3>4, PumpOff DEF Good
  <2> QED BY <2>1, <2>2, <2>3 DEF Dispatch
<1> QED BY <1>2, <1>4 DEF StreamInv

\* The end of the node's own body is a frame its copy takes.
LEMMA PumpEnds ==
  ASSUME NEW n, NEW h, NEW u, NEW p, Good(n, h, u, p), n.pump = "reading",
         n.source \/ ~IsRemote(n), ~n.closed, ~(IsRemote(n) /\ n.aborted)
  PROVE  /\ Good([Send(n, EndFrame(n)) EXCEPT !.pump = IF IsRemote(n) THEN "off" ELSE "ending"],
                 h, u, p)
         /\ ~SendRefused(n, EndFrame(n))
<1> DEFINE f == EndFrame(n)
           m == Send(n, f)
           pump == IF IsRemote(n) THEN "off" ELSE "ending"
           c == [m EXCEPT !.pump = pump]
<1>1. /\ Sane(n, h, u, p) /\ Pumped(n) /\ n \in NodeRecords /\ n.stream.at # "unknown"
      /\ n.stream \in Streams
  BY PumpRuns DEF NodeRecords
<1>2. /\ Sane(m, h, u, p) /\ ~SendRefused(n, f)
      /\ m.stream.at # "unknown" /\ m.stream.initiator = n.stream.initiator
      /\ ~IsRemote(n) => IsResponseTerminal(m.stream)
  <2>1. CASE IsRemote(n)
    <3>1. f = Frame("request_end", "node") /\ n.stream.request = "open"
      BY <1>1, <2>1 DEF EndFrame, Pumped, PumpRemote
    <3>2. /\ Sane(m, h, u, p) /\ ~SendRefused(n, f)
          /\ m = [n EXCEPT !.stream = [n.stream EXCEPT !.request = "ended"],
                           !.wire = Append(n.wire, f)]
      BY <1>1, <2>1, <3>1, NodeSendsEnd
    <3>3. m.stream = [n.stream EXCEPT !.request = "ended"]
      <4> HIDE DEF m, f
      <4> QED BY <1>1, <3>2 DEF NodeRecords
    <3> QED BY <1>1, <2>1, <3>2, <3>3 DEF Streams
  <2>2. CASE ~IsRemote(n)
    <3>1. f = Frame("response_end", "node") /\ n.stream.response = "open"
      BY <1>1, <2>2 DEF EndFrame, Pumped, PumpHost
    <3>2. /\ Sane(m, h, u, p) /\ ~SendRefused(n, f)
          /\ m = [n EXCEPT !.stream = Closed(n.stream, "succeeded"),
                           !.wire = Append(n.wire, f)]
      BY <1>1, <2>2, <3>1, NodeAnswersEnd
    <3>3. m.stream = Closed(n.stream, "succeeded")
      <4> HIDE DEF m, f
      <4> QED BY <1>1, <3>2 DEF NodeRecords
    <3> QED BY <1>1, <3>2, <3>3 DEF Streams, Closed, IsResponseTerminal
  <2> QED BY <2>1, <2>2
<1>3. m \in NodeRecords
  BY <1>2 DEF Sane, Typed
<1>4. pump \in Pumps \ {"idle"}
  BY DEF Pumps
<1> HIDE DEF f, m, pump
<1>5. c = [m EXCEPT !.pump = pump, !.left = m.left] /\ m.left \in 0..MaxChunks
  BY <1>3 DEF NodeRecords
<1> HIDE DEF c
<1>6. OnlyPump(m, c) /\ c.pump = pump
  BY <1>3, <1>4, <1>5 DEF OnlyPump, NodeRecords
<1>7. Sane(c, h, u, p)
  BY <1>2, <1>6, PumpSteps
<1>8. Pumped(c)
  BY <1>2, <1>6 DEF Pumped, PumpHost, PumpRemote, PumpHasChunk, IsRemote, OnlyPump, pump
<1> QED BY <1>2, <1>7, <1>8 DEF Good, c, m, f, pump

\* The for-await over the source.
LEMMA PumpReadsKeeps ==
  ASSUME StreamInv, PumpReads
  PROVE  StreamInv'
<1>1. Good(node, helper, up, past)
  BY DEF StreamInv
<1>2. node.pump = "reading" /\ helper' = helper /\ up' = up
  BY DEF PumpReads
<1>3. /\ Sane(node, helper, up, past) /\ Pumped(node) /\ node \in NodeRecords
      /\ node.stream.at # "unknown" /\ node.left \in 0..MaxChunks
      /\ past \in PastRecords /\ ~past.refused
  BY <1>1, <1>2, PumpRuns DEF NodeRecords, Sane
<1>4. CASE /\ node.source /\ node.left > 0
           /\ node' = [node EXCEPT !.pump = "credit"]
           /\ UNCHANGED past
  <2>1. node' = [node EXCEPT !.pump = "credit", !.left = node.left]
    BY <1>3, <1>4 DEF NodeRecords
  <2>2. "credit" \in Pumps \ {"idle"}
    BY DEF Pumps
  <2>3. OnlyPump(node, node') /\ node'.pump = "credit" /\ node'.left = node.left
    BY <1>3, <2>1, <2>2 DEF OnlyPump, NodeRecords
  <2>4. Sane(node', helper, up, past)
    BY <1>3, <2>3, PumpSteps
  <2>5. Pumped(node')
    BY <1>2, <1>3, <1>4, <2>3 DEF Pumped, PumpHost, PumpRemote, PumpHasChunk, IsRemote, OnlyPump
  <2> QED BY <1>2, <1>4, <2>4, <2>5 DEF StreamInv, Good
<1> DEFINE over == node.closed \/ (IsRemote(node) /\ node.aborted)
<1>5. CASE /\ node.left = 0 /\ (node.source \/ ~IsRemote(node))
           /\ node' = IF over THEN [node EXCEPT !.pump = "off"]
                      ELSE [Send(node, EndFrame(node)) EXCEPT
                              !.pump = IF IsRemote(node) THEN "off" ELSE "ending"]
           /\ past' = [past EXCEPT !.refused =
                @ \/ (~over /\ SendRefused(node, EndFrame(node)))]
  <2>1. Good(node', helper, up, past) /\ ~(~over /\ SendRefused(node, EndFrame(node)))
    <3>1. CASE over
      <4>1. node' = [node EXCEPT !.pump = "off", !.left = node.left]
        BY <1>3, <1>5, <3>1 DEF NodeRecords
      <4>2. "off" \in Pumps \ {"idle"}
        BY DEF Pumps
      <4>3. OnlyPump(node, node') /\ node'.pump = "off"
        BY <1>3, <4>1, <4>2 DEF OnlyPump, NodeRecords
      <4>4. Sane(node', helper, up, past)
        BY <1>3, <4>3, PumpSteps
      <4> QED BY <3>1, <4>3, <4>4, PumpOff DEF Good
    <3>2. CASE ~over
      BY <1>1, <1>2, <1>5, <3>2, PumpEnds
    <3> QED BY <3>1, <3>2
  <2>2. /\ past' \in PastRecords /\ past'.refused = past.refused
        /\ past'.sent = past.sent /\ past'.got = past.got
    <3> HIDE DEF over
    <3> QED BY <1>3, <1>5, <2>1 DEF PastRecords
  <2> QED BY <1>2, <2>1, <2>2, Remembered DEF StreamInv, Good
<1>6. CASE /\ ~node.source \/ (~IsRemote(node) /\ ~node.aborted)
           /\ node' = PumpThrows(node) /\ UNCHANGED past
  <2>1. Good(node', helper, up, past)
    BY <1>1, <1>3, <1>6, Throws
  <2> QED BY <1>2, <1>6, <2>1 DEF StreamInv
<1> QED BY <1>4, <1>5, <1>6 DEF PumpReads

\* A chunk the node writes is one its copy takes.
LEMMA PumpWrites ==
  ASSUME NEW n, NEW h, NEW u, NEW p, Good(n, h, u, p), n.pump = "credit", ~n.closed,
         IsRemote(n) => n.stream.request = "open",
         CreditOf(n.stream, Outgoing(n)) # 0
  PROVE  Good([Send(n, Frame(ChunkOf(Outgoing(n)), "node"))
                 EXCEPT !.pump = "writing", !.left = @ - 1], h, u, p)
<1> DEFINE f == Frame(ChunkOf(Outgoing(n)), "node")
           m == Send(n, f)
           c == [m EXCEPT !.pump = "writing", !.left = @ - 1]
<1>1. /\ Sane(n, h, u, p) /\ Pumped(n) /\ n \in NodeRecords /\ n.stream.at # "unknown"
      /\ n.stream \in Streams /\ n.left \in 0..MaxChunks /\ n.left > 0
      /\ MaxChunks \in Nat
  BY PumpRuns, ChainCounts DEF NodeRecords, Pumped, PumpHasChunk
<1>2. n.stream.requestCredit \in Nat /\ n.stream.responseCredit \in Nat
  <2>1. Sound(n.stream)
    BY <1>1, Live
  <2> QED BY <2>1, StreamType
<1>3. /\ Sane(m, h, u, p)
      /\ m.stream.at # "unknown" /\ m.stream.initiator = n.stream.initiator
      /\ IsRemote(n) => m.stream.request = "open"
      /\ ~IsRemote(n) => m.stream.response = "open"
      /\ m.left = n.left
  <2>1. CASE IsRemote(n)
    <3>1. f = Frame("request_chunk", "node") /\ n.stream.requestCredit > 0
      BY <1>2, <2>1 DEF ChunkOf, Outgoing, CreditOf
    <3>2. /\ Sane(m, h, u, p)
          /\ m = [n EXCEPT !.stream = [n.stream EXCEPT !.requestCredit = @ - 1],
                           !.wire = Append(n.wire, f)]
      BY <1>1, <2>1, <3>1, NodeSendsChunk
    <3>3. m.stream = [n.stream EXCEPT !.requestCredit = @ - 1] /\ m.left = n.left
      <4> HIDE DEF m, f
      <4> QED BY <1>1, <3>2 DEF NodeRecords
    <3> HIDE DEF m, f
    <3> QED BY <1>1, <2>1, <3>2, <3>3 DEF Streams
  <2>2. CASE ~IsRemote(n)
    <3>1. f = Frame("response_chunk", "node") /\ n.stream.responseCredit > 0
      BY <1>2, <2>2 DEF ChunkOf, Outgoing, CreditOf
    <3>2. n.stream.response = "open"
      BY <1>1, <2>2 DEF Pumped, PumpHost
    <3>3. /\ Sane(m, h, u, p)
          /\ m = [n EXCEPT !.stream = [n.stream EXCEPT !.responseCredit = @ - 1],
                           !.wire = Append(n.wire, f)]
      BY <1>1, <2>2, <3>1, <3>2, NodeAnswersChunk
    <3>4. m.stream = [n.stream EXCEPT !.responseCredit = @ - 1] /\ m.left = n.left
      <4> HIDE DEF m, f
      <4> QED BY <1>1, <3>3 DEF NodeRecords
    <3> HIDE DEF m, f
    <3> QED BY <1>1, <2>2, <3>2, <3>3, <3>4 DEF Streams
  <2> QED BY <2>1, <2>2
<1>4. m \in NodeRecords
  BY <1>3 DEF Sane, Typed
<1>5. m.left - 1 \in 0..MaxChunks /\ "writing" \in Pumps
  BY <1>1, <1>3 DEF Pumps
<1> HIDE DEF f, m
<1>6. OnlyPump(m, c) /\ c.pump = "writing"
  BY <1>4, <1>5 DEF OnlyPump, NodeRecords
<1> HIDE DEF c
<1>7. Sane(c, h, u, p)
  BY <1>3, <1>6, PumpSteps
<1>8. Pumped(c)
  BY <1>3, <1>6 DEF Pumped, PumpHost, PumpRemote, PumpHasChunk, IsRemote, OnlyPump
<1> QED BY <1>7, <1>8 DEF Good, c, m, f

\* The wait for credit, and the chunk's write.
LEMMA PumpCreditKeeps ==
  ASSUME StreamInv, PumpCredit
  PROVE  StreamInv'
<1> DEFINE over == \/ node.closed \/ node.aborted \/ node.stream.at # "active"
                   \/ IsRemote(node) /\ node.stream.request # "open"
<1>1. Good(node, helper, up, past)
  BY DEF StreamInv
<1>2. /\ node.pump = "credit" /\ helper' = helper /\ up' = up /\ past' = past
      /\ node' = IF over THEN PumpThrows(node)
                 ELSE IF CreditOf(node.stream, Outgoing(node)) = 0
                 THEN [node EXCEPT !.pump = "waiting"]
                 ELSE [Send(node, Frame(ChunkOf(Outgoing(node)), "node"))
                         EXCEPT !.pump = "writing", !.left = @ - 1]
  BY DEF PumpCredit
<1>3. /\ Sane(node, helper, up, past) /\ Pumped(node) /\ node \in NodeRecords
      /\ node.stream.at # "unknown"
  BY <1>1, <1>2, PumpRuns
<1>4. Good(node', helper, up, past)
  <2>1. CASE over
    BY <1>1, <1>2, <1>3, <2>1, Throws
  <2>2. CASE ~over /\ CreditOf(node.stream, Outgoing(node)) = 0
    <3>1. node' = [node EXCEPT !.pump = "waiting"]
      BY <1>2, <2>2
    <3>2. OnlyPump(node, node') /\ node'.pump = "waiting" /\ node'.left = node.left
      BY <1>3, <3>1 DEF OnlyPump, NodeRecords, Pumps
    <3>3. Sane(node', helper, up, past)
      BY <1>3, <3>2, PumpSteps
    <3>4. Pumped(node')
      BY <1>2, <1>3, <3>2 DEF Pumped, PumpHost, PumpRemote, PumpHasChunk, IsRemote, OnlyPump
    <3> QED BY <3>3, <3>4 DEF Good
  <2>3. CASE ~over /\ CreditOf(node.stream, Outgoing(node)) # 0
    BY <1>1, <1>2, <2>3, PumpWrites
  <2> QED BY <2>1, <2>2, <2>3
<1> QED BY <1>2, <1>4 DEF StreamInv

\* The chunk's write is flushed.
LEMMA PumpWrittenKeeps ==
  ASSUME StreamInv, PumpWritten
  PROVE  StreamInv'
<1>1. Good(node, helper, up, past)
  BY DEF StreamInv
<1>2. /\ node.pump = "writing" /\ helper' = helper /\ up' = up /\ past' = past
      /\ node' = [node EXCEPT !.pump = "reading"]
  BY DEF PumpWritten
<1>3. /\ Sane(node, helper, up, past) /\ Pumped(node) /\ node \in NodeRecords
      /\ node.stream.at # "unknown"
  BY <1>1, <1>2, PumpRuns
<1>4. OnlyPump(node, node') /\ node'.pump = "reading"
  BY <1>2, <1>3 DEF OnlyPump, NodeRecords, Pumps
<1>5. Sane(node', helper, up, past)
  BY <1>3, <1>4, PumpSteps
<1>6. Pumped(node')
  BY <1>2, <1>3, <1>4 DEF Pumped, PumpHost, PumpRemote, PumpHasChunk, IsRemote, OnlyPump
<1> QED BY <1>2, <1>5, <1>6 DEF StreamInv, Good

\* #finishHostResponse: a finished stream is removed, or waits for its request.
LEMMA HostFinishesKeeps ==
  ASSUME StreamInv, HostFinishes
  PROVE  StreamInv'
<1>1. Good(node, helper, up, past)
  BY DEF StreamInv
<1>2. /\ node.pump = "ending" /\ helper' = helper /\ up' = up /\ past' = past
      /\ node' = [FinishHost(node) EXCEPT !.pump = "off"]
  BY DEF HostFinishes
<1>3. /\ Sane(node, helper, up, past) /\ Pumped(node) /\ node \in NodeRecords
      /\ node.stream.at # "unknown" /\ ~IsRemote(node)
      /\ node.closed \/ IsResponseTerminal(node.stream)
  BY <1>1, <1>2, PumpRuns DEF Pumped, PumpHost, PumpRemote
<1>4. Sane(node', helper, up, past) /\ node'.pump = "off"
  <2>1. CASE node.closed
    <3>1. node' = [node EXCEPT !.pump = "off"]
      BY <1>2, <2>1 DEF FinishHost
    <3>2. OnlyPump(node, node') /\ node'.pump = "off"
      BY <1>3, <3>1 DEF OnlyPump, NodeRecords, Pumps
    <3> QED BY <1>3, <3>2, PumpSteps
  <2>2. CASE ~node.closed /\ node.stream.request = "response_closed"
    <3>1. node' = [node EXCEPT !.body = Destroyed(node.body), !.source = FALSE, !.pump = "off"]
      BY <1>2, <1>3, <2>2 DEF FinishHost, NodeRecords
    <3>2. /\ node' \in NodeRecords
          /\ node'.stream = node.stream /\ node'.wire = node.wire /\ node'.tail = node.tail
          /\ node'.held = node.held /\ node'.closed = node.closed /\ node'.pump = "off"
          /\ node'.body = Destroyed(node.body)
      BY <1>3, <3>1, MarksAre DEF NodeRecords, Pumps
    <3>3. node'.body = node.body \/ node'.body = "destroyed"
      BY <1>3, <3>2, MarksAre
    <3> QED BY <1>3, <3>2, <3>3, Marked
  <2>3. CASE ~node.closed /\ node.stream.request # "response_closed"
    <3>1. /\ Sound(node.stream) /\ node.stream.at = "active"
      BY <1>3, <2>3, Live
    <3>2. node.stream.request \in {"ended", "cancelled"} /\ IsResponseTerminal(node.stream)
      BY <1>3, <2>3, <3>1 DEF Sound, Streams, RequestStates
    <3>3. node' = [node EXCEPT !.closed = TRUE, !.body = Destroyed(node.body),
                               !.stream = Removed(node.stream), !.pump = "off"]
      BY <1>2, <1>3, <2>3 DEF FinishHost, Remove, NodeRecords
    <3>4. Removed(node.stream) \in Streams
      BY <3>1 DEF Sound, Removed, Streams
    <3>5. /\ node' \in NodeRecords
          /\ node'.stream = Removed(node.stream) /\ node'.wire = node.wire
          /\ node'.tail = node.tail /\ node'.held = node.held /\ node'.closed = TRUE
          /\ node'.pump = "off" /\ node'.body = Destroyed(node.body)
      BY <1>3, <3>3, <3>4, MarksAre DEF NodeRecords, Pumps
    <3>6. (node'.body = node.body /\ node.body # "open") \/ node'.body = "destroyed"
      BY <1>3, <3>5, MarksAre
    <3> QED BY <1>3, <2>3, <3>2, <3>5, <3>6, Removes
  <2> QED BY <2>1, <2>2, <2>3
<1> QED BY <1>2, <1>4, PumpOff DEF StreamInv, Good

-----------------------------------------------------------------------------
(* The chain of the incoming body.                                         *)

\* A chunk is written to a body that takes it.
LEMMA TailWritesKeeps ==
  ASSUME StreamInv, TailWrites
  PROVE  StreamInv'
<1>1. /\ Sane(node, helper, up, past) /\ Pumped(node) /\ node \in NodeRecords
  BY PumpRuns DEF StreamInv
<1>2. /\ node.tail # <<>> /\ Head(node.tail) = "chunk"
      /\ helper' = helper /\ up' = up /\ past' = past
      /\ node' = IF Writable(node)
                 THEN [node EXCEPT !.held = @ + 1, !.tail[1] = "written"]
                 ELSE Next1(node)
  BY DEF TailWrites
<1>3. Sane(node', helper, up, past)
  <2>1. CASE Writable(node)
    BY <1>1, <1>2, <2>1, Writes
  <2>2. CASE ~Writable(node)
    <3>1. node.body # "open"
      BY <1>1, <2>2 DEF Writable, Sane, BodyOrder
    <3> QED BY <1>1, <1>2, <2>2, <3>1, Pops
  <2> QED BY <2>1, <2>2
<1>4. /\ node'.stream = node.stream /\ node'.pump = node.pump /\ node'.left = node.left
      /\ node'.closed = node.closed /\ node'.aborted = node.aborted
      /\ node'.source = node.source
  BY <1>1, <1>2 DEF Next1, NodeRecords
<1>5. Pumped(node')
  BY <1>1, <1>4, PumpStays
<1> QED BY <1>2, <1>3, <1>5 DEF StreamInv, Good

\* A drained chunk's credit goes back, when the body still wants it.
LEMMA TailGrantsKeeps ==
  ASSUME StreamInv, TailGrants
  PROVE  StreamInv'
<1> DEFINE f == Grant(Incoming(node), "node")
           grants == ~node.closed /\ node.body # "destroyed"
<1>1. /\ Sane(node, helper, up, past) /\ Pumped(node) /\ node \in NodeRecords
      /\ past \in PastRecords
  BY PumpRuns DEF StreamInv
<1>2. /\ node.tail # <<>> /\ Head(node.tail) = "written"
      /\ helper' = helper /\ up' = up
      /\ node' = Next1(IF grants THEN Send(node, f) ELSE node)
      /\ past' = [past EXCEPT !.refused = @ \/ (grants /\ SendRefused(node, f))]
  BY DEF TailGrants
<1>3. Sane(node', helper, up, past) /\ Pumped(node') /\ ~(grants /\ SendRefused(node, f))
  <2>1. CASE grants
    <3> DEFINE m == Next1(Send(node, f))
    <3>1. /\ Sane(m, helper, up, past) /\ ~SendRefused(node, f)
          /\ \E s, w : /\ m = [node EXCEPT !.stream = s, !.wire = w, !.tail = Tail(@)]
                       /\ s.initiator = node.stream.initiator /\ s.at = node.stream.at
                       /\ s.request = node.stream.request /\ s.response = node.stream.response
      BY <1>1, <1>2, <2>1, Grants
    <3>2. node' = m
      BY <1>2, <2>1
    <3> HIDE DEF m
    <3>3. /\ node'.stream.initiator = node.stream.initiator
          /\ node'.stream.request = node.stream.request
          /\ node'.stream.response = node.stream.response
          /\ node'.pump = node.pump /\ node'.left = node.left
          /\ node'.closed = node.closed /\ node'.aborted = node.aborted
          /\ node'.source = node.source
      BY <1>1, <3>1, <3>2 DEF NodeRecords
    <3>4. Pumped(node')
      BY <1>1, <3>3, PumpStays
    <3> QED BY <3>1, <3>2, <3>4
  <2>2. CASE ~grants
    <3>1. node' = Next1(node)
      BY <1>2, <2>2
    <3>2. node.body # "open"
      BY <1>1, <2>2 DEF Sane, BodyOrder
    <3>3. Sane(node', helper, up, past)
      BY <1>1, <1>2, <3>1, <3>2, Pops
    <3>4. /\ node'.stream = node.stream /\ node'.pump = node.pump /\ node'.left = node.left
          /\ node'.closed = node.closed /\ node'.aborted = node.aborted
          /\ node'.source = node.source
      BY <1>1, <3>1 DEF Next1, NodeRecords
    <3>5. Pumped(node')
      BY <1>1, <3>4, PumpStays
    <3> QED BY <2>2, <3>3, <3>5
  <2> QED BY <2>1, <2>2
<1>4. /\ past' \in PastRecords /\ past'.refused = past.refused
      /\ past'.sent = past.sent /\ past'.got = past.got
  <2> HIDE DEF grants, f
  <2> QED BY <1>1, <1>2, <1>3 DEF PastRecords
<1>5. Sane(node', helper, up, past')
  BY <1>3, <1>4, Remembered
<1> QED BY <1>2, <1>3, <1>5 DEF StreamInv, Good

\* The end of a body that is ended makes way for the stream's removal.
LEMMA EndMakesWay ==
  ASSUME NEW n, NEW h, NEW u, NEW p, Sane(n, h, u, p), n.tail # <<>>,
         Head(n.tail) = "end", IsRemote(n), n.body # "open"
  PROVE  Sane([n EXCEPT !.tail[1] = "remove"], h, u, p)
<1> DEFINE m == [n EXCEPT !.tail[1] = "remove"]
           t == [n.tail EXCEPT ![1] = "remove"]
<1>1. n \in NodeRecords /\ n.tail \in Seq(Links) /\ n.stream.at # "unknown"
  BY DEF Sane, Typed, NodeRecords, Known
<1>2. /\ Len(n.tail) \in Nat \ {0} /\ DOMAIN n.tail = 1..Len(n.tail)
      /\ Head(n.tail) = n.tail[1] /\ 1 \in DOMAIN n.tail
  BY <1>1, Shortened
<1>3. InputOver(n) /\ 1 = Len(n.tail)
  BY <1>2 DEF Sane, TailOrder
<1>4. /\ t \in Seq(Links) /\ DOMAIN t = DOMAIN n.tail /\ Len(t) = Len(n.tail)
      /\ t[1] = "remove"
  <2>1. "remove" \in Links
    BY DEF Links
  <2> QED BY <1>1, <1>2, <2>1
<1>5. /\ m \in NodeRecords /\ m.stream = n.stream /\ m.wire = n.wire /\ m.tail = t
      /\ m.held = n.held /\ m.closed = n.closed /\ m.body = n.body /\ m.pump = n.pump
      /\ m.aborted = n.aborted /\ m.source = n.source /\ m.caller = n.caller
  <2>1. m = [n EXCEPT !.tail = t]
    BY <1>1 DEF NodeRecords
  <2> HIDE DEF t, m
  <2> QED BY <1>1, <1>4, <2>1 DEF NodeRecords
<1>6. Count(t, "chunk") = Count(n.tail, "chunk") /\ Count(t, "written") = Count(n.tail, "written")
  <2>1. "remove" \in Links
    BY DEF Links
  <2>2. /\ Count(t, "chunk") = Count(Tail(n.tail), "chunk") + 0
        /\ Count(n.tail, "chunk") = Count(Tail(n.tail), "chunk") + 0
    BY <1>1, <2>1, CountFirst, CountTail
  <2>3. /\ Count(t, "written") = Count(Tail(n.tail), "written") + 0
        /\ Count(n.tail, "written") = Count(Tail(n.tail), "written") + 0
    BY <1>1, <2>1, CountFirst, CountTail
  <2> QED BY <2>2, <2>3
<1> SUFFICES Sane(m, h, u, p)
  OBVIOUS
<1> HIDE DEF t, m
<1>7. /\ IsRemote(m) /\ InputOver(m)
      /\ Incoming(m) = Incoming(n) /\ Outgoing(m) = Outgoing(n)
      /\ Owed(m) = Owed(n)
  BY <1>3, <1>5, <1>6 DEF IsRemote, Incoming, Outgoing, InputOver, Owed
<1>8. Typed(m, h, u, p) /\ ~p.refused
  BY <1>5 DEF Sane, Typed
<1>9. Linked(m, h, u) /\ HelperDrained(m, h, u)
  BY <1>5, <1>7 DEF Sane, Linked, HelperDrained
<1>10. NodeDrained(m, u)
  BY <1>5, <1>7 DEF Sane, NodeDrained
<1>11. Known(m, h, u, p)
  BY <1>1, <1>5 DEF Sane, Known
<1>12. TailOrder(m)
  <2>1. \A k \in DOMAIN m.tail : k = 1 /\ m.tail[k] = "remove"
    <3>1. DOMAIN m.tail = 1..1 /\ m.tail[1] = "remove"
      BY <1>2, <1>3, <1>4, <1>5
    <3>2. \A k \in 1..1 : k = 1
      OBVIOUS
    <3> QED BY <3>1, <3>2
  <2>2. IsResponseTerminal(m.stream)
    BY <1>7 DEF InputOver, IsResponseTerminal
  <2> QED BY <1>3, <1>4, <1>5, <1>7, <2>1, <2>2 DEF TailOrder
<1>13. BodyOrder(m)
  BY <1>5, <1>7 DEF Sane, BodyOrder
<1>14. ChunksIn(m, h) = ChunksIn(n, h)
  BY <1>7 DEF ChunksIn
<1>15. Whole(m, h, p)
  BY <1>5, <1>6, <1>7, <1>14 DEF Sane, Whole
<1> QED BY <1>8, <1>9, <1>10, <1>11, <1>12, <1>13, <1>15 DEF Sane

\* A body whose end is in the chain behind nothing else is ended.
LEMMA EndsBody ==
  ASSUME NEW n, NEW h, NEW u, NEW p, Sane(n, h, u, p), n.tail # <<>>,
         Head(n.tail) = "end",
         n.closed \/ IsRemote(n) \/ ~IsResponseTerminal(n.stream)
  PROVE  /\ Sane(Ended(n), h, u, p) /\ Ended(n).body # "open"
         /\ Ended(n).tail = n.tail /\ Ended(n).stream = n.stream
         /\ Ended(n).pump = n.pump /\ Ended(n).left = n.left
         /\ Ended(n).closed = n.closed /\ Ended(n).aborted = n.aborted
         /\ Ended(n).source = n.source
<1>1. n \in NodeRecords
  BY DEF Sane, Typed
<1>2. CASE n.body = "open"
  <2>1. Ended(n) = [n EXCEPT !.body = "ended"]
    BY <1>1, <1>2 DEF Ended
  <2>2. IsRemote(n) \/ ~IsResponseTerminal(n.stream)
    BY <1>2 DEF Sane, BodyOrder
  <2>3. Sane([n EXCEPT !.body = "ended"], h, u, p)
    BY <1>2, <2>2, Ends
  <2> QED BY <1>1, <2>1, <2>3 DEF NodeRecords
<1>3. CASE n.body # "open"
  <2>1. Ended(n) = n
    BY <1>1, <1>3 DEF Ended, NodeRecords
  <2> QED BY <1>3, <2>1
<1> QED BY <1>2, <1>3

\* The peer's end of the body is reached.
LEMMA TailEndsKeeps ==
  ASSUME StreamInv, TailEnds
  PROVE  StreamInv'
<1>1. /\ Sane(node, helper, up, past) /\ Pumped(node) /\ node \in NodeRecords
      /\ node.tail # <<>> => node.stream.at # "unknown"
  BY PumpRuns DEF StreamInv
<1>2. /\ node.tail # <<>> /\ Head(node.tail) = "end"
      /\ helper' = helper /\ up' = up /\ past' = past
      /\ node' = IF IsRemote(node)
                 THEN [FinishInput(Ended(node)) EXCEPT !.tail[1] = "remove"]
                 ELSE Next1(IF ~node.closed /\ IsResponseTerminal(node.stream)
                            THEN Remove(Ended(node), FALSE) ELSE Ended(node))
  BY DEF TailEnds
<1>3. CASE IsRemote(node)
  <2> DEFINE e == Ended(node)
             m == FinishInput(e)
  <2>1. /\ Sane(e, helper, up, past) /\ e.body # "open" /\ e.tail = node.tail
        /\ e.stream = node.stream /\ e.pump = node.pump /\ e.left = node.left
        /\ e.closed = node.closed /\ e.aborted = node.aborted /\ e.source = node.source
    BY <1>1, <1>2, <1>3, EndsBody
  <2>2. IsRemote(e) /\ e \in NodeRecords
    BY <1>3, <2>1 DEF IsRemote, Sane, Typed
  <2> HIDE DEF e
  <2>3. /\ Sane(m, helper, up, past)
        /\ \E s, w : /\ m = [e EXCEPT !.stream = s, !.wire = w]
                     /\ s.initiator = e.stream.initiator /\ s.response = e.stream.response
                     /\ s.at = e.stream.at
                     /\ s.request = e.stream.request
                        \/ (e.stream.request = "response_closed" /\ s.request = "ended")
    BY <2>1, <2>2, FinishesInput
  <2> HIDE DEF m
  <2>4. /\ m.stream.initiator = e.stream.initiator /\ m.stream.response = e.stream.response
        /\ m.stream.request = e.stream.request
           \/ (e.stream.request = "response_closed" /\ m.stream.request = "ended")
        /\ m.tail = e.tail /\ m.body = e.body /\ m.pump = e.pump /\ m.left = e.left
        /\ m.closed = e.closed /\ m.aborted = e.aborted /\ m.source = e.source
    BY <2>2, <2>3 DEF NodeRecords
  <2>5. m \in NodeRecords /\ IsRemote(m)
    BY <2>2, <2>3, <2>4 DEF Sane, Typed, IsRemote
  <2>6. node' = [m EXCEPT !.tail[1] = "remove"]
    BY <1>2, <1>3 DEF m, e
  <2>7. Sane(node', helper, up, past)
    <3>1. m.tail # <<>> /\ Head(m.tail) = "end" /\ m.body # "open"
      BY <1>2, <2>1, <2>4
    <3> QED BY <2>3, <2>5, <2>6, <3>1, EndMakesWay
  <2>8. /\ node'.stream = m.stream /\ node'.pump = m.pump /\ node'.left = m.left
        /\ node'.closed = m.closed /\ node'.aborted = m.aborted /\ node'.source = m.source
    BY <2>5, <2>6 DEF NodeRecords
  <2>9. Pumped(node')
    <3>1. /\ IsRemote(node') /\ IsRemote(node)
          /\ node'.pump = node.pump /\ node'.left = node.left
          /\ node'.closed = node.closed /\ node'.aborted = node.aborted
          /\ node'.source = node.source
          /\ node.stream.request = "open" => node'.stream.request = "open"
      BY <1>3, <2>1, <2>4, <2>5, <2>8 DEF IsRemote
    <3> QED BY <1>1, <3>1 DEF Pumped, PumpHost, PumpRemote, PumpHasChunk
  <2> QED BY <1>2, <2>7, <2>9 DEF StreamInv, Good
<1>4. CASE ~IsRemote(node) /\ ~node.closed /\ IsResponseTerminal(node.stream)
  <2> DEFINE m == Remove(Ended(node), FALSE)
  <2>1. /\ Sound(node.stream) /\ node.stream.at = "active" /\ node.pump # "idle"
    BY <1>1, <1>2, <1>4, Live
  <2>2. node.stream.request \in {"ended", "cancelled"}
    <3>1. InputOver(node)
      <4>1. 1 \in DOMAIN node.tail /\ Head(node.tail) = node.tail[1]
        BY <1>1, <1>2, Shortened DEF NodeRecords
      <4> QED BY <1>1, <1>2, <4>1 DEF Sane, TailOrder
    <3> QED BY <1>4, <3>1 DEF InputOver
  <2>3. Destroyed(Ended(node).body) = Destroyed(node.body)
    BY <1>1 DEF Ended, Destroyed, NodeRecords
  <2>4. m = [node EXCEPT !.closed = TRUE, !.pump = Woken(node.pump),
                         !.body = Destroyed(node.body), !.stream = Removed(node.stream)]
    BY <1>1, <2>3 DEF Remove, Ended, NodeRecords
  <2>5. Removed(node.stream) \in Streams
    BY <2>1 DEF Sound, Removed, Streams
  <2>6. /\ m \in NodeRecords /\ m.stream = Removed(node.stream) /\ m.wire = node.wire
        /\ m.tail = node.tail /\ m.held = node.held /\ m.closed = TRUE
        /\ m.pump = Woken(node.pump) /\ m.body = Destroyed(node.body)
        /\ m.left = node.left /\ m.aborted = node.aborted /\ m.source = node.source
    <3> HIDE DEF m
    <3> QED BY <1>1, <2>4, <2>5, MarksAre DEF NodeRecords
  <2> HIDE DEF m
  <2>7. /\ (m.body = node.body /\ node.body # "open") \/ m.body = "destroyed"
        /\ m.pump # "idle"
    BY <1>1, <2>1, <2>6, MarksAre
  <2>8. Sane(m, helper, up, past)
    BY <1>1, <1>2, <1>4, <2>2, <2>6, <2>7, Removes
  <2>9. node' = Next1(m)
    BY <1>2, <1>4 DEF m
  <2>10. Sane(node', helper, up, past)
    BY <1>2, <2>6, <2>8, <2>9, Pops
  <2>11. /\ node'.stream = Removed(node.stream) /\ node'.pump = Woken(node.pump)
         /\ node'.closed = TRUE /\ node'.left = node.left
         /\ node'.aborted = node.aborted /\ node'.source = node.source
    BY <2>6, <2>9 DEF Next1, NodeRecords
  <2>12. /\ node'.stream.initiator = node.stream.initiator
         /\ node'.stream.response = node.stream.response
    BY <2>1, <2>11 DEF Sound, Removed, Streams
  <2>13. Pumped(node')
    BY <1>1, <1>4, <2>11, <2>12, PumpStays
  <2> QED BY <1>2, <2>10, <2>13 DEF StreamInv, Good
<1>5. CASE ~IsRemote(node) /\ ~(~node.closed /\ IsResponseTerminal(node.stream))
  <2> DEFINE e == Ended(node)
  <2>1. /\ Sane(e, helper, up, past) /\ e.body # "open" /\ e.tail = node.tail
        /\ e.stream = node.stream /\ e.pump = node.pump /\ e.left = node.left
        /\ e.closed = node.closed /\ e.aborted = node.aborted /\ e.source = node.source
    BY <1>1, <1>2, <1>5, EndsBody
  <2>2. node' = Next1(e)
    BY <1>2, <1>5
  <2> HIDE DEF e
  <2>3. Sane(node', helper, up, past)
    BY <1>2, <2>1, <2>2, Pops
  <2>4. e \in NodeRecords
    BY <2>1 DEF Sane, Typed
  <2>5. /\ node'.stream = node.stream /\ node'.pump = node.pump /\ node'.left = node.left
        /\ node'.closed = node.closed /\ node'.aborted = node.aborted
        /\ node'.source = node.source
    BY <2>1, <2>2, <2>4 DEF Next1, NodeRecords
  <2>6. Pumped(node')
    BY <1>1, <2>5, PumpStays
  <2> QED BY <1>2, <2>3, <2>6 DEF StreamInv, Good
<1> QED BY <1>3, <1>4, <1>5

\* The last link of the chain removes the stream.
LEMMA TailRemovesKeeps ==
  ASSUME StreamInv, TailRemoves
  PROVE  StreamInv'
<1>1. /\ Sane(node, helper, up, past) /\ Pumped(node) /\ node \in NodeRecords
  BY PumpRuns DEF StreamInv
<1>2. /\ node.tail # <<>> /\ Head(node.tail) = "remove"
      /\ helper' = helper /\ up' = up /\ past' = past
      /\ node' = Next1(IF node.closed THEN node
                       ELSE IF node.stream.response = "failed" THEN RemoveFor(node)
                       ELSE Remove(node, TRUE))
  BY DEF TailRemoves
<1>3. CASE node.closed
  <2>1. node' = Next1(node)
    BY <1>2, <1>3
  <2>2. Sane(node', helper, up, past)
    BY <1>1, <1>2, <2>1, Pops
  <2>3. /\ node'.stream = node.stream /\ node'.pump = node.pump /\ node'.left = node.left
        /\ node'.closed = node.closed /\ node'.aborted = node.aborted
        /\ node'.source = node.source
    BY <1>1, <2>1 DEF Next1, NodeRecords
  <2>4. Pumped(node')
    BY <1>1, <2>3, PumpStays
  <2> QED BY <1>2, <2>2, <2>4 DEF StreamInv, Good
<1>4. CASE ~node.closed
  <2> DEFINE m == IF node.stream.response = "failed" THEN RemoveFor(node)
                  ELSE Remove(node, TRUE)
  <2>1. /\ IsRemote(node) /\ IsResponseTerminal(node.stream) /\ node.body # "open"
        /\ node.stream.at # "unknown"
    <3>1. 1 \in DOMAIN node.tail /\ Head(node.tail) = node.tail[1]
      BY <1>1, <1>2, Shortened DEF NodeRecords
    <3> QED BY <1>1, <1>2, <3>1 DEF Sane, TailOrder, Known
  <2>2. Sound(node.stream) /\ node.pump # "idle"
    BY <1>1, <1>4, <2>1, Live
  <2>3. Removed(node.stream) \in Streams
    BY <2>2 DEF Sound, Removed, Streams
  <2>4. /\ m \in NodeRecords /\ m.stream = Removed(node.stream) /\ m.wire = node.wire
        /\ m.tail = node.tail /\ m.held = node.held /\ m.closed = TRUE
        /\ m.pump = Woken(node.pump) /\ m.body \in {node.body, Destroyed(node.body)}
        /\ m.left = node.left
        /\ \/ m.aborted = node.aborted /\ m.source = node.source
           \/ m.aborted = TRUE /\ m.source = FALSE
    <3>1. CASE node.stream.response = "failed"
      <4>1. m = [node EXCEPT !.closed = TRUE, !.pump = Woken(node.pump),
                             !.body = Destroyed(node.body), !.stream = Removed(node.stream),
                             !.aborted = TRUE, !.caller = Rejected(node.caller),
                             !.source = FALSE]
        BY <1>1, <3>1 DEF Remove, RemoveFor, NodeRecords
      <4> HIDE DEF m
      <4> QED BY <1>1, <2>3, <4>1, MarksAre DEF NodeRecords
    <3>2. CASE node.stream.response # "failed"
      <4>1. m = [node EXCEPT !.closed = TRUE, !.pump = Woken(node.pump),
                             !.body = node.body, !.stream = Removed(node.stream)]
        BY <1>1, <3>2 DEF Remove, NodeRecords
      <4> HIDE DEF m
      <4> QED BY <1>1, <2>3, <4>1, MarksAre DEF NodeRecords
    <3> QED BY <3>1, <3>2
  <2>5. node' = Next1(m)
    BY <1>2, <1>4
  <2> HIDE DEF m
  <2>6. /\ (m.body = node.body /\ node.body # "open") \/ m.body = "destroyed"
        /\ m.pump # "idle"
    BY <1>1, <2>1, <2>2, <2>4, MarksAre
  <2>7. Sane(m, helper, up, past)
    BY <1>1, <1>4, <2>1, <2>4, <2>6, Removes
  <2>8. Sane(node', helper, up, past)
    BY <1>2, <2>4, <2>5, <2>7, Pops
  <2>9. /\ node'.stream = m.stream /\ node'.pump = m.pump /\ node'.left = m.left
        /\ node'.closed = TRUE /\ node'.aborted = m.aborted /\ node'.source = m.source
    BY <2>4, <2>5 DEF Next1, NodeRecords
  <2>10. node'.stream.initiator = node.stream.initiator
    BY <2>2, <2>4, <2>9 DEF Sound, Removed, Streams
  <2>11. Pumped(node')
    BY <1>1, <2>1, <2>4, <2>9, <2>10, PumpStays
  <2> QED BY <1>2, <2>8, <2>11 DEF StreamInv, Good
<1> QED BY <1>3, <1>4

-----------------------------------------------------------------------------
(* The body's reader, the caller and the connection.                       *)

\* The consumer reads.
LEMMA BodyReadKeeps ==
  ASSUME StreamInv, BodyRead
  PROVE  StreamInv'
<1>1. /\ Sane(node, helper, up, past) /\ Pumped(node) /\ node \in NodeRecords
  BY PumpRuns DEF StreamInv
<1>2. helper' = helper /\ up' = up
  BY DEF BodyRead
<1>3. Sane(node', helper, up, past')
  <2>1. CASE /\ node.body \in {"open", "ended"} /\ node.held > 0
             /\ node' = [node EXCEPT !.held = @ - 1]
             /\ past' = [past EXCEPT !.got = @ + 1]
    BY <1>1, <2>1, ChunkIsRead
  <2>2. CASE /\ node.body = "ended" /\ node.held = 0
             /\ node' = [node EXCEPT !.body = "read"]
             /\ UNCHANGED past
    BY <1>1, <2>2, BodyIsRead
  <2> QED BY <2>1, <2>2 DEF BodyRead
<1>4. /\ node'.stream = node.stream /\ node'.pump = node.pump /\ node'.left = node.left
      /\ node'.closed = node.closed /\ node'.aborted = node.aborted
      /\ node'.source = node.source
  BY <1>1 DEF BodyRead, NodeRecords
<1>5. Pumped(node')
  BY <1>1, <1>4, PumpStays
<1> QED BY <1>2, <1>3, <1>5 DEF StreamInv, Good

\* The caller leaves: the exchange is cancelled.
LEMMA CallerQuitsKeeps ==
  ASSUME StreamInv, CallerQuits
  PROVE  StreamInv'
<1> DEFINE c == CancelRemote(node)
<1>1. /\ Good(node, helper, up, past) /\ Sane(node, helper, up, past)
      /\ node \in NodeRecords /\ past \in PastRecords
      /\ node.caller # "none" => node.stream.at # "unknown"
  BY PumpRuns DEF StreamInv
<1>2. /\ IsRemote(node) /\ node.caller \in {"waiting", "answered"}
      /\ helper' = helper /\ up' = up
      /\ past' = [past EXCEPT !.quit = TRUE]
      /\ node' = IF node.caller = "answered" THEN [c EXCEPT !.body = "destroyed"] ELSE c
  BY DEF CallerQuits
<1>3. /\ Good(c, helper, up, past) /\ c.stream.at # "unknown" /\ c \in NodeRecords
      /\ c.pump # "idle"
  <2>1. Good(c, helper, up, past) /\ c.stream.at # "unknown" /\ c \in NodeRecords
    BY <1>1, <1>2, Cancels
  <2> HIDE DEF c
  <2> QED BY <2>1, PumpRuns
<1> HIDE DEF c
<1>4. Good(node', helper, up, past)
  <2>1. CASE node' = c
    BY <1>3, <2>1
  <2>2. CASE node' = [c EXCEPT !.body = "destroyed"]
    <3>1. /\ node' \in NodeRecords
          /\ node'.stream = c.stream /\ node'.wire = c.wire /\ node'.tail = c.tail
          /\ node'.held = c.held /\ node'.closed = c.closed /\ node'.body = "destroyed"
          /\ node'.pump = c.pump /\ node'.left = c.left /\ node'.aborted = c.aborted
          /\ node'.source = c.source
      BY <1>3, <2>2 DEF NodeRecords, Bodies
    <3>2. Sane(node', helper, up, past)
      BY <1>3, <3>1, Marked DEF Good
    <3>3. Pumped(node')
      BY <1>3, <3>1, PumpStays DEF Good
    <3> QED BY <3>2, <3>3 DEF Good
  <2> QED BY <1>2, <2>1, <2>2
<1>5. /\ past' \in PastRecords /\ past'.refused = past.refused
      /\ past'.sent = past.sent /\ past'.got = past.got
  BY <1>1, <1>2 DEF PastRecords
<1>6. Sane(node', helper, up, past')
  BY <1>4, <1>5, Remembered DEF Good
<1> QED BY <1>2, <1>4, <1>6 DEF StreamInv, Good

\* A connection that is gone leaves a closed stream as it is.
LEMMA StaysClosed ==
  ASSUME NEW n, NEW h, NEW u, NEW p, Sane(n, h, u, p), u,
         n.stream.at = "unknown" \/ n.closed
  PROVE  Sane(n, h, FALSE, p)
<1>1. Typed(n, h, FALSE, p) /\ ~p.refused
  BY DEF Sane, Typed
<1>2. Linked(n, h, FALSE) /\ HelperDrained(n, h, FALSE) /\ NodeDrained(n, FALSE)
  BY DEF Linked, HelperDrained, NodeDrained
<1>3. Known(n, h, FALSE, p)
  BY DEF Sane, Known
<1> QED BY <1>1, <1>2, <1>3 DEF Sane

\* #failConnection
LEMMA DisconnectKeeps ==
  ASSUME StreamInv, Disconnect
  PROVE  StreamInv'
<1>1. /\ Sane(node, helper, up, past) /\ Pumped(node) /\ node \in NodeRecords
      /\ node.pump # "idle" <=> node.stream.at # "unknown"
  BY PumpRuns DEF StreamInv
<1>2. /\ up /\ up' = FALSE /\ helper' = helper /\ past' = past
      /\ node' = IF node.stream.at = "unknown" \/ node.closed THEN node
                 ELSE RemoveFor(node)
  BY DEF Disconnect
<1>3. CASE node.stream.at = "unknown" \/ node.closed
  <2>1. node' = node
    BY <1>2, <1>3
  <2>2. Sane(node, helper, FALSE, past)
    BY <1>1, <1>2, <1>3, StaysClosed
  <2> QED BY <1>1, <1>2, <2>1, <2>2 DEF StreamInv, Good
<1>4. CASE ~(node.stream.at = "unknown" \/ node.closed)
  <2>1. node.stream \in Streams
    BY <1>1 DEF NodeRecords
  <2>2. /\ Removed(node.stream) \in Streams
        /\ Removed(node.stream).initiator = node.stream.initiator
        /\ Removed(node.stream).response = node.stream.response
    BY <2>1 DEF Removed, Streams
  <2>3. node' = [node EXCEPT !.closed = TRUE, !.pump = Woken(node.pump),
                             !.body = Destroyed(node.body), !.stream = Removed(node.stream),
                             !.aborted = TRUE, !.caller = Rejected(node.caller),
                             !.source = FALSE]
    BY <1>1, <1>2, <1>4 DEF Remove, RemoveFor, NodeRecords
  <2>4. /\ node' \in NodeRecords /\ node'.stream = Removed(node.stream)
        /\ node'.wire = node.wire /\ node'.tail = node.tail /\ node'.held = node.held
        /\ node'.closed = TRUE /\ node'.pump = Woken(node.pump)
        /\ node'.body = Destroyed(node.body) /\ node'.left = node.left
        /\ node'.aborted = TRUE /\ node'.source = FALSE
    BY <1>1, <2>2, <2>3, MarksAre DEF NodeRecords
  <2>5. /\ (node'.body = node.body /\ node.body # "open") \/ node'.body = "destroyed"
        /\ node'.pump # "idle"
    BY <1>1, <1>4, <2>4, MarksAre
  <2>6. Sane(node', helper, FALSE, past)
    BY <1>1, <1>2, <1>4, <2>4, <2>5, Breaks
  <2>7. Pumped(node')
    BY <1>1, <2>2, <2>4, PumpStays
  <2> QED BY <1>2, <2>6, <2>7 DEF StreamInv, Good
<1> QED BY <1>3, <1>4

-----------------------------------------------------------------------------
(* The node reads what the helper wrote.                                   *)

\* What a frame that is no chunk of a body makes of the node's copy, before the
\* node acts on it.
LEMMA CopyTurns ==
  ASSUME NEW n, NEW h, NEW u, NEW p, Sane(n, h, u, p), h.wire # <<>>,
         Head(h.wire).type # ChunkOf(Incoming(n)),
         n.stream.at # "unknown", n.stream.at = "active" => ~n.closed,
         NEW g, g = [h EXCEPT !.wire = Tail(@)],
         NEW m \in NodeRecords, m.wire = n.wire,
         m.tail = n.tail, m.held = n.held, m.closed = n.closed,
         m.body = n.body \/ m.body = "destroyed", m.pump # "idle",
         m.stream.at = n.stream.at, m.stream.initiator = n.stream.initiator,
         u, IF IsRemote(n) THEN Link(m.stream, m.wire, h.stream, Tail(h.wire))
                           ELSE Link(h.stream, Tail(h.wire), m.stream, m.wire),
         CreditOf(m.stream, Incoming(n)) = CreditOf(n.stream, Incoming(n)),
         Takes(m.stream, Incoming(n)) => Takes(n.stream, Incoming(n)),
         InputOver(n) => InputOver(m),
         IsResponseTerminal(n.stream) => IsResponseTerminal(m.stream),
         ~IsRemote(n) /\ m.stream.request = "cancelled" =>
           n.stream.request = "cancelled" \/ m.body # "open"
  PROVE  Sane(m, g, u, p)
<1>1. h \in HelperRecords
  BY DEF Sane, Typed
<1>2. /\ g \in HelperRecords /\ g.stream = h.stream /\ g.owed = h.owed
      /\ g.left = h.left /\ g.wire = Tail(h.wire)
      /\ ChunksIn(n, g) = ChunksIn(n, h)
  BY <1>1, ChunksRead, ZenonT(30)
<1>3. IsRemote(m) <=> IsRemote(n)
  BY DEF IsRemote
<1>4. Linked(m, g, u)
  BY <1>2, <1>3 DEF Linked
<1> QED BY <1>2, <1>4, Changed

\* #handleRemoteStreamFrame: what a frame of the response does at the node.
LEMMA RemoteReads ==
  ASSUME NEW n, NEW h, NEW u, NEW p, Good(n, h, u, p), u, IsRemote(n),
         h.wire # <<>>, n.pump # "starting",
         NEW x, x.outcome \notin Refused,
         InitiatorTakes(n.stream, Head(h.wire), x),
         Link(x.stream, n.wire, h.stream, Tail(h.wire)),
         NEW g, g = [h EXCEPT !.wire = Tail(@)],
         NEW source \in BOOLEAN, source <=> n.source /\ ~ClosesInput(n.stream, x.stream)
  PROVE  LET k == [n EXCEPT !.stream = x.stream, !.source = source] IN
         Good(IF x.outcome \in Ignored THEN k ELSE ReadRemote(k, x.outcome), g, u, p)
<1> DEFINE f == Head(h.wire)
           s == x.stream
           k == [n EXCEPT !.stream = s, !.source = source]
           m == IF x.outcome \in Ignored THEN k ELSE ReadRemote(k, x.outcome)
<1>1. /\ Sane(n, h, u, p) /\ Pumped(n) /\ n \in NodeRecords /\ h \in HelperRecords
      /\ Sound(n.stream) /\ n.stream \in Streams /\ n.stream.initiator = "node"
      /\ n.stream.at # "unknown" /\ n.pump # "idle"
      /\ n.stream.at = "active" => ~n.closed
      /\ n.stream.responseCredit \in Nat
  <2>1. /\ Sane(n, h, u, p) /\ Pumped(n) /\ (n.pump # "idle" <=> n.stream.at # "unknown")
    BY PumpRuns
  <2>2. n \in NodeRecords /\ h \in HelperRecords /\ Sound(n.stream)
    BY <2>1, BothEnds
  <2>3. n.stream.at # "unknown"
    BY DEF InitiatorTakes
  <2>4. n.stream.at = "active" => ~n.closed
    BY <2>1 DEF Sane, Known
  <2>5. n.stream.responseCredit \in Nat
    BY <2>2, StreamType
  <2> QED BY <2>1, <2>2, <2>3, <2>4, <2>5 DEF IsRemote, Sound
<1>2. s \in Streams
  BY WiresType
<1>3. /\ k \in NodeRecords /\ k.stream = s /\ k.source = source /\ k.wire = n.wire
      /\ k.tail = n.tail /\ k.held = n.held /\ k.closed = n.closed /\ k.body = n.body
      /\ k.pump = n.pump /\ k.left = n.left /\ k.aborted = n.aborted /\ k.caller = n.caller
  BY <1>1, <1>2 DEF NodeRecords
<1>4. /\ Opposite("node") = "helper" /\ Incoming(n) = "response"
      /\ ChunkOf(Incoming(n)) = "response_chunk"
  BY DEF Opposite, Incoming, ChunkOf
<1>5. SUFFICES Good(m, g, u, p)
  OBVIOUS
<1> HIDE DEF k
<1>6. CASE /\ f = Frame("response_start", "helper") /\ n.stream.at = "active"
           /\ n.stream.response = "none"
           /\ x = To("response_started", [n.stream EXCEPT !.response = "open"])
  <2> DEFINE caller == IF n.caller = "waiting" THEN "answered" ELSE n.caller
  <2>1. /\ x.outcome = "response_started" /\ s = [n.stream EXCEPT !.response = "open"]
        /\ f.type = "response_start"
    BY <1>6 DEF To, Frame
  <2>2. /\ s.at = n.stream.at /\ s.initiator = n.stream.initiator
        /\ s.request = n.stream.request /\ s.response = "open"
        /\ s.responseCredit = n.stream.responseCredit
    BY <1>1, <2>1 DEF Streams
  <2>3. m = [k EXCEPT !.caller = caller]
    BY <1>3, <2>1 DEF ReadRemote, Ignored
  <2>4. /\ m \in NodeRecords /\ m.stream = s /\ m.source = source /\ m.wire = n.wire
        /\ m.tail = n.tail /\ m.held = n.held /\ m.closed = n.closed /\ m.body = n.body
        /\ m.pump = n.pump /\ m.left = n.left /\ m.aborted = n.aborted
    <3>1. caller \in {"none", "waiting", "answered", "rejected"}
      BY <1>1 DEF NodeRecords
    <3> HIDE DEF m, caller
    <3> QED BY <1>3, <2>3, <3>1 DEF NodeRecords
  <2> HIDE DEF m, f
  <2>5. /\ CreditOf(m.stream, Incoming(n)) = CreditOf(n.stream, Incoming(n))
        /\ Takes(m.stream, Incoming(n)) => Takes(n.stream, Incoming(n))
        /\ ~InputOver(n) /\ ~IsResponseTerminal(n.stream)
    BY <1>4, <1>6, <2>2, <2>4 DEF CreditOf, Takes, InputOver, IsResponseTerminal
  <2>6. Link(m.stream, m.wire, h.stream, Tail(h.wire))
    BY <2>4
  <2>7. Sane(m, g, u, p)
    BY <1>1, <1>4, <2>1, <2>2, <2>4, <2>5, <2>6, CopyTurns DEF f
  <2>8. m.source <=> n.source
    BY <2>2, <2>4 DEF ClosesInput
  <2>9. Pumped(m)
    BY <1>1, <2>2, <2>4, <2>8, PumpStays
  <2> QED BY <2>7, <2>9 DEF Good
<1>7. CASE /\ f = Frame("response_chunk", "helper") /\ n.stream.at = "active"
           /\ n.stream.response = "open" /\ n.stream.responseCredit > 0
           /\ x = To("response_chunk_delivered", [n.stream EXCEPT !.responseCredit = @ - 1])
  <2>1. /\ x.outcome = "response_chunk_delivered"
        /\ s = [n.stream EXCEPT !.responseCredit = @ - 1]
    BY <1>7 DEF To
  <2>2. /\ s.at = "active" /\ s.initiator = n.stream.initiator
        /\ s.request = n.stream.request /\ s.response = n.stream.response
        /\ s.responseCredit = n.stream.responseCredit - 1
    BY <1>1, <1>7, <2>1 DEF Streams
  <2>3. m = [k EXCEPT !.tail = Append(k.tail, "chunk")]
    BY <1>3, <2>1 DEF ReadRemote, Ignored
  <2>4. /\ m \in NodeRecords /\ m.stream = s /\ m.source = source /\ m.wire = n.wire
        /\ m.tail = Append(n.tail, "chunk") /\ m.held = n.held /\ m.closed = n.closed
        /\ m.body = n.body /\ m.pump = n.pump /\ m.left = n.left /\ m.aborted = n.aborted
    <3>1. Append(k.tail, "chunk") \in Seq(Links)
      BY <1>3 DEF NodeRecords, Links
    <3> HIDE DEF m
    <3> QED BY <1>3, <2>3, <3>1 DEF NodeRecords
  <2>5. /\ CreditOf(n.stream, Incoming(n)) = CreditOf(m.stream, Incoming(n)) + 1
        /\ Takes(n.stream, Incoming(n))
    BY <1>1, <1>4, <1>7, <2>2, <2>4 DEF CreditOf, Takes, IsResponseTerminal
  <2>6. /\ g.wire = Tail(h.wire) /\ g.stream = h.stream
    BY <1>1 DEF HelperRecords
  <2>7. Linked(m, g, u)
    <3>1. IsRemote(m)
      BY <1>1, <2>2, <2>4 DEF IsRemote
    <3> HIDE DEF m
    <3> QED BY <2>4, <2>6, <3>1 DEF Linked
  <2>8. f = Frame(ChunkOf(Incoming(n)), "helper")
    BY <1>4, <1>7
  <2> HIDE DEF m, f
  <2>9. Sane(m, g, u, p)
    BY <1>1, <1>7, <2>2, <2>4, <2>5, <2>7, <2>8, ChunkArrives DEF f
  <2>10. m.source <=> n.source
    BY <2>2, <2>4 DEF ClosesInput
  <2>11. Pumped(m)
    BY <1>1, <2>2, <2>4, <2>10, PumpStays
  <2> QED BY <2>9, <2>11 DEF Good
<1>8. CASE /\ f = Frame("response_end", "helper") /\ n.stream.at = "active"
           /\ n.stream.response = "open"
           /\ x = To("response_ended", Closed(n.stream, "succeeded"))
  <2>1. /\ x.outcome = "response_ended" /\ s = Closed(n.stream, "succeeded")
        /\ f.type = "response_end"
    BY <1>8 DEF To, Frame
  <2>2. /\ s.at = n.stream.at /\ s.initiator = n.stream.initiator
        /\ s.request = IF n.stream.request = "open" THEN "response_closed" ELSE n.stream.request
        /\ s.response = "succeeded" /\ s.responseCredit = n.stream.responseCredit
    BY <1>1, <2>1 DEF Closed, Streams
  <2> HIDE DEF f
  <2>3. m = [k EXCEPT !.tail = Append(@, "end")]
    BY <2>1 DEF ReadRemote, Ignored
  <2>4. /\ CreditOf(k.stream, Incoming(n)) = CreditOf(n.stream, Incoming(n))
        /\ Takes(k.stream, Incoming(n)) => Takes(n.stream, Incoming(n))
        /\ ~InputOver(n) /\ ~IsResponseTerminal(n.stream)
    BY <1>3, <1>4, <1>8, <2>2 DEF CreditOf, Takes, InputOver, IsResponseTerminal
  <2>5. Link(k.stream, k.wire, h.stream, Tail(h.wire))
    BY <1>3
  <2>6. Sane(k, g, u, p)
    BY <1>1, <1>3, <1>4, <2>1, <2>2, <2>4, <2>5, CopyTurns DEF f
  <2>7. InputOver(k) /\ k.stream.at # "unknown"
    BY <1>1, <1>3, <2>2 DEF InputOver, IsRemote
  <2>8. \A j \in DOMAIN k.tail : k.tail[j] \notin {"end", "remove"}
    BY <1>1, <1>3, <2>4, NoEnd DEF Sane
  <2>9. Sane(m, g, u, p)
    <3> HIDE DEF m
    <3> QED BY <2>3, <2>6, <2>7, <2>8, EndFollows
  <2>10. /\ m.stream = s /\ m.source = source /\ m.closed = n.closed /\ m.pump = n.pump
         /\ m.left = n.left /\ m.aborted = n.aborted
    <3> HIDE DEF m
    <3> QED BY <1>3, <2>3 DEF NodeRecords
  <2> HIDE DEF m
  <2>11. /\ (m.source <=> n.source) \/ ~m.source
         /\ m.stream.request = n.stream.request \/ ~m.source
    BY <2>2, <2>10 DEF ClosesInput
  <2>12. Pumped(m)
    BY <1>1, <2>2, <2>10, <2>11, PumpStays
  <2> QED BY <2>9, <2>12 DEF Good
<1>9. CASE /\ f = Frame("response_error", "helper") /\ n.stream.at = "active"
           /\ n.stream.response \in {"none", "open"}
           /\ x = To("response_failed", Closed(n.stream, "failed"))
  <2> DEFINE b == [k EXCEPT !.caller = Rejected(k.caller), !.body = Destroyed(@),
                            !.tail = <<"remove">>]
  <2>1. /\ x.outcome = "response_failed" /\ s = Closed(n.stream, "failed")
        /\ f.type = "response_error"
    BY <1>9 DEF To, Frame
  <2>2. /\ s.at = n.stream.at /\ s.initiator = n.stream.initiator
        /\ s.request = IF n.stream.request = "open" THEN "response_closed" ELSE n.stream.request
        /\ s.response = "failed" /\ s.responseCredit = n.stream.responseCredit
    BY <1>1, <2>1 DEF Closed, Streams
  <2> HIDE DEF f
  <2>3. m = FinishInput(b)
    BY <2>1 DEF ReadRemote, Ignored
  <2>4. /\ CreditOf(k.stream, Incoming(n)) = CreditOf(n.stream, Incoming(n))
        /\ Takes(k.stream, Incoming(n)) => Takes(n.stream, Incoming(n))
        /\ ~InputOver(n) /\ ~IsResponseTerminal(n.stream)
    BY <1>3, <1>4, <1>9, <2>2 DEF CreditOf, Takes, InputOver, IsResponseTerminal
  <2>5. Link(k.stream, k.wire, h.stream, Tail(h.wire))
    BY <1>3
  <2>6. Sane(k, g, u, p)
    BY <1>1, <1>3, <1>4, <2>1, <2>2, <2>4, <2>5, CopyTurns DEF f
  <2>7. /\ IsRemote(k) /\ k.stream.at # "unknown" /\ IsResponseTerminal(k.stream)
        /\ k.stream.response # "succeeded"
    BY <1>1, <1>3, <2>2 DEF IsRemote, IsResponseTerminal
  <2>8. Rejected(k.caller) \in {"none", "waiting", "answered", "rejected"}
    BY <1>3, MarksAre
  <2>9. Sane(b, g, u, p)
    BY <2>6, <2>7, <2>8, BodyBreaks
  <2>10. /\ b.stream = s /\ b.source = source /\ b.closed = n.closed /\ b.pump = n.pump
         /\ b.left = n.left /\ b.aborted = n.aborted /\ b \in NodeRecords
    <3>1. b \in NodeRecords
      BY <2>9 DEF Sane, Typed
    <3> QED BY <1>3, <3>1 DEF NodeRecords
  <2> HIDE DEF b, m
  <2>11. IsRemote(b)
    BY <1>1, <2>2, <2>10 DEF IsRemote
  <2>12. /\ Sane(FinishInput(b), g, u, p)
         /\ \E t, w : /\ FinishInput(b) = [b EXCEPT !.stream = t, !.wire = w]
                      /\ t.initiator = b.stream.initiator /\ t.response = b.stream.response
                      /\ t.at = b.stream.at
                      /\ t.request = b.stream.request
                         \/ (b.stream.request = "response_closed" /\ t.request = "ended")
    BY <2>9, <2>11, FinishesInput
  <2>13. /\ Sane(m, g, u, p)
         /\ m.stream.initiator = s.initiator
         /\ m.stream.request = s.request
            \/ (s.request = "response_closed" /\ m.stream.request = "ended")
         /\ m.source = source /\ m.closed = n.closed /\ m.pump = n.pump
         /\ m.left = n.left /\ m.aborted = n.aborted
    <3>1. PICK t, w : /\ FinishInput(b) = [b EXCEPT !.stream = t, !.wire = w]
                      /\ t.initiator = b.stream.initiator /\ t.response = b.stream.response
                      /\ t.at = b.stream.at
                      /\ t.request = b.stream.request
                         \/ (b.stream.request = "response_closed" /\ t.request = "ended")
      BY <2>12
    <3> DEFINE c == [b EXCEPT !.stream = t, !.wire = w]
    <3>2. /\ c.stream = t /\ c.source = b.source /\ c.closed = b.closed /\ c.pump = b.pump
          /\ c.left = b.left /\ c.aborted = b.aborted
      BY <2>10 DEF NodeRecords
    <3>3. m = c
      BY <2>3, <3>1
    <3> HIDE DEF c
    <3>4. Sane(m, g, u, p)
      BY <2>3, <2>12
    <3> QED BY <2>10, <3>1, <3>2, <3>3, <3>4
  <2>14. Pumped(m)
    <3>1. IsRemote(m) /\ IsRemote(n)
      BY <1>1, <2>2, <2>13 DEF IsRemote
    <3>2. n.stream.request = "open" => ~m.source
      BY <2>2, <2>13 DEF ClosesInput
    <3>3. m.source => n.source
      BY <2>13
    <3> QED BY <1>1, <2>13, <3>1, <3>2, <3>3 DEF Pumped, PumpHost, PumpRemote, PumpHasChunk
  <2> QED BY <2>13, <2>14 DEF Good
<1>10. CASE /\ f = Grant("request", "helper")
            /\ x.outcome \in {"window_ignored", "inactive_frame_ignored"}
            /\ s = n.stream
  <2>1. /\ x.outcome \in Ignored /\ f.type = "window_update"
    BY <1>10 DEF Ignored, Grant
  <2>2. m = k
    BY <2>1
  <2>3. Link(k.stream, k.wire, h.stream, Tail(h.wire))
    BY <1>3
  <2> HIDE DEF m, f
  <2>4. Sane(k, g, u, p)
    BY <1>1, <1>3, <1>4, <1>10, <2>1, <2>3, CopyTurns DEF f, InputOver, IsRemote
  <2>5. k.source <=> n.source
    BY <1>3, <1>10 DEF ClosesInput
  <2>6. Pumped(k)
    BY <1>1, <1>3, <1>10, <2>5, PumpStays
  <2> QED BY <2>2, <2>4, <2>6 DEF Good
<1>11. CASE /\ f = Grant("request", "helper") /\ n.stream.at = "active"
            /\ n.stream.request = "open" /\ n.stream.requestCredit < Credit
            /\ x = To("window_updated", [n.stream EXCEPT !.requestCredit = @ + 1])
  <2>1. /\ x.outcome = "window_updated" /\ s = [n.stream EXCEPT !.requestCredit = @ + 1]
        /\ f.type = "window_update"
    BY <1>11 DEF To, Grant
  <2>2. /\ s.at = n.stream.at /\ s.initiator = n.stream.initiator
        /\ s.request = n.stream.request /\ s.response = n.stream.response
        /\ s.responseCredit = n.stream.responseCredit
    BY <1>1, <2>1 DEF Streams
  <2>3. m = [k EXCEPT !.pump = Woken(n.pump)]
    BY <1>3, <2>1 DEF ReadRemote, Ignored
  <2>4. /\ m \in NodeRecords /\ m.stream = s /\ m.source = source /\ m.wire = n.wire
        /\ m.tail = n.tail /\ m.held = n.held /\ m.closed = n.closed /\ m.body = n.body
        /\ m.pump = Woken(n.pump) /\ m.left = n.left /\ m.aborted = n.aborted
        /\ m.pump # "idle"
    <3>1. Woken(n.pump) \in Pumps \ {"idle"}
      BY <1>1, MarksAre
    <3> HIDE DEF m
    <3> QED BY <1>3, <2>3, <3>1 DEF NodeRecords
  <2> HIDE DEF m, f
  <2>5. /\ CreditOf(m.stream, Incoming(n)) = CreditOf(n.stream, Incoming(n))
        /\ Takes(m.stream, Incoming(n)) => Takes(n.stream, Incoming(n))
        /\ InputOver(n) => InputOver(m)
        /\ IsResponseTerminal(n.stream) => IsResponseTerminal(m.stream)
    BY <1>4, <2>2, <2>4 DEF CreditOf, Takes, InputOver, IsResponseTerminal, IsRemote
  <2>6. Link(m.stream, m.wire, h.stream, Tail(h.wire))
    BY <2>4
  <2>7. Sane(m, g, u, p)
    BY <1>1, <1>4, <2>1, <2>2, <2>4, <2>5, <2>6, CopyTurns, ZenonT(30) DEF f
  <2>8. m.source <=> n.source
    BY <2>2, <2>4 DEF ClosesInput
  <2>9. Pumped(m)
    BY <1>1, <2>2, <2>4, <2>8, PumpStays
  <2> QED BY <2>7, <2>9 DEF Good
<1> HIDE DEF m, f, s
<1> QED
  <2>1. InitiatorTakes(n.stream, f, x)
    BY DEF f
  <2> QED BY <1>1, <1>4, <1>6, <1>7, <1>8, <1>9, <1>10, <1>11, <2>1 DEF InitiatorTakes, s

\* #handleStreamFrame: what a frame of a request does at the node.
LEMMA HostReads ==
  ASSUME NEW n, NEW h, NEW u, NEW p, Good(n, h, u, p), u, ~IsRemote(n),
         h.wire # <<>>,
         NEW x, ResponderTakes(n.stream, Head(h.wire), x),
         Link(h.stream, Tail(h.wire), x.stream, n.wire),
         NEW g, g = [h EXCEPT !.wire = Tail(@)],
         NEW source \in BOOLEAN, source <=> n.source
  PROVE  LET k == [n EXCEPT !.stream = x.stream, !.source = source] IN
         Good(IF x.outcome \in Ignored THEN k ELSE ReadHost(k, x.outcome), g, u, p)
<1> DEFINE f == Head(h.wire)
           s == x.stream
           k == [n EXCEPT !.stream = s, !.source = source]
           m == IF x.outcome \in Ignored THEN k ELSE ReadHost(k, x.outcome)
<1>1. /\ Sane(n, h, u, p) /\ Pumped(n) /\ n \in NodeRecords /\ h \in HelperRecords
      /\ Sound(n.stream) /\ n.stream \in Streams /\ n.stream.initiator = "helper"
      /\ n.pump # "idle" <=> n.stream.at # "unknown"
      /\ n.stream.at = "active" => ~n.closed
      /\ n.stream.requestCredit \in Nat
  <2>1. /\ Sane(n, h, u, p) /\ Pumped(n) /\ (n.pump # "idle" <=> n.stream.at # "unknown")
    BY PumpRuns
  <2>2. /\ n \in NodeRecords /\ h \in HelperRecords /\ Sound(n.stream)
        /\ n.stream.initiator = "helper"
    BY <2>1, BothEnds
  <2>3. n.stream.at = "active" => ~n.closed
    BY <2>1 DEF Sane, Known
  <2>4. n.stream.requestCredit \in Nat
    BY <2>2, StreamType
  <2> QED BY <2>1, <2>2, <2>3, <2>4 DEF Sound
<1>2. s \in Streams
  BY WiresType
<1>3. /\ k \in NodeRecords /\ k.stream = s /\ k.source = source /\ k.wire = n.wire
      /\ k.tail = n.tail /\ k.held = n.held /\ k.closed = n.closed /\ k.body = n.body
      /\ k.pump = n.pump /\ k.left = n.left /\ k.aborted = n.aborted /\ k.caller = n.caller
  BY <1>1, <1>2 DEF NodeRecords
<1>4. /\ Incoming(n) = "request" /\ ChunkOf(Incoming(n)) = "request_chunk"
  BY DEF Incoming, ChunkOf
<1>5. SUFFICES Good(m, g, u, p)
  OBVIOUS
<1>6. CASE /\ f = Frame("request_start", "helper") /\ n.stream.at = "unknown"
           /\ x = To("request_started", Started("helper"))
  <2>1. x.outcome = "request_started" /\ s = Started("helper")
    BY <1>6 DEF To
  <2>2. m = [k EXCEPT !.pump = "dispatching"]
    BY <2>1 DEF ReadHost, Ignored
  <2>3. k = [n EXCEPT !.stream = s]
    <3>1. source = n.source
      BY <1>1 DEF NodeRecords
    <3> QED BY <1>1, <3>1 DEF NodeRecords
  <2>4. m = [n EXCEPT !.stream = Started("helper"), !.pump = "dispatching"]
    <3> HIDE DEF m, k
    <3> QED BY <1>1, <2>1, <2>2, <2>3 DEF NodeRecords
  <2> HIDE DEF m, k
  <2>5. Sane(m, g, u, p)
    BY <1>1, <1>6, <2>4, HostOpens
  <2>6. m.stream = Started("helper") /\ m.pump = "dispatching"
    BY <1>1, <2>4 DEF NodeRecords
  <2>7. Pumped(m)
    BY <2>6 DEF Pumped, PumpHost, PumpRemote, PumpHasChunk, IsRemote, Started
  <2> QED BY <2>5, <2>7 DEF Good, m
<1> HIDE DEF k
<1>7. CASE /\ f = Frame("request_chunk", "helper") /\ n.stream.at = "active"
           /\ n.stream.request # "ended" /\ n.stream.requestCredit > 0
           /\ x = To(IF n.stream.request = "open" THEN "request_chunk_delivered"
                                                  ELSE "request_chunk_discarded",
                     [n.stream EXCEPT !.requestCredit = @ - 1])
  <2>1. /\ x.outcome = IF n.stream.request = "open" THEN "request_chunk_delivered"
                                                    ELSE "request_chunk_discarded"
        /\ s = [n.stream EXCEPT !.requestCredit = @ - 1]
    BY <1>7 DEF To
  <2>2. /\ s.at = "active" /\ s.initiator = n.stream.initiator
        /\ s.request = n.stream.request /\ s.response = n.stream.response
        /\ s.requestCredit = n.stream.requestCredit - 1
    BY <1>1, <1>7, <2>1 DEF Streams
  <2> DEFINE tail == IF n.stream.request = "open" THEN Append(k.tail, "chunk") ELSE k.tail
  <2>3. m = [k EXCEPT !.tail = tail]
    <3>1. CASE n.stream.request = "open"
      BY <2>1, <3>1 DEF ReadHost, Ignored
    <3>2. CASE n.stream.request # "open"
      <4>1. m = k
        BY <2>1, <3>2 DEF Ignored
      <4> HIDE DEF m
      <4> QED BY <1>3, <3>2, <4>1 DEF NodeRecords
    <3> QED BY <3>1, <3>2
  <2>4. /\ m \in NodeRecords /\ m.stream = s /\ m.source = source /\ m.wire = n.wire
        /\ m.tail = tail /\ m.held = n.held /\ m.closed = n.closed
        /\ m.body = n.body /\ m.pump = n.pump /\ m.left = n.left /\ m.aborted = n.aborted
    <3>1. tail \in Seq(Links)
      BY <1>3 DEF NodeRecords, Links
    <3> HIDE DEF m, tail
    <3> QED BY <1>3, <2>3, <3>1 DEF NodeRecords
  <2>5. /\ CreditOf(n.stream, Incoming(n)) = CreditOf(m.stream, Incoming(n)) + 1
        /\ Takes(n.stream, Incoming(n)) <=> n.stream.request = "open"
    BY <1>1, <1>4, <1>7, <2>2, <2>4 DEF CreditOf, Takes
  <2>6. /\ g.wire = Tail(h.wire) /\ g.stream = h.stream
    BY <1>1 DEF HelperRecords
  <2>7. Linked(m, g, u)
    <3>1. ~IsRemote(m)
      BY <1>1, <2>2, <2>4 DEF IsRemote
    <3> HIDE DEF m
    <3> QED BY <2>4, <2>6, <3>1 DEF Linked
  <2>8. f = Frame(ChunkOf(Incoming(n)), "helper")
    BY <1>4, <1>7
  <2>9. IF Takes(n.stream, Incoming(n)) THEN m.tail = Append(n.tail, "chunk")
        ELSE m.tail = n.tail /\ ~IsRemote(n)
    BY <1>3, <2>4, <2>5
  <2> HIDE DEF m, f, tail
  <2>10. Sane(m, g, u, p)
    BY <1>1, <1>7, <2>2, <2>4, <2>5, <2>7, <2>8, <2>9, ChunkArrives, ZenonT(30) DEF f
  <2>11. m.source <=> n.source
    BY <2>4
  <2>12. Pumped(m)
    BY <1>1, <2>2, <2>4, <2>11, PumpStays
  <2> QED BY <2>10, <2>12 DEF Good
<1>8. CASE /\ f = Frame("request_end", "helper") /\ n.stream.at = "active"
           /\ n.stream.request \in {"open", "response_closed"}
           /\ x = To("request_ended", [n.stream EXCEPT !.request = "ended"])
  <2>1. /\ x.outcome = "request_ended" /\ s = [n.stream EXCEPT !.request = "ended"]
        /\ f.type = "request_end"
    BY <1>8 DEF To, Frame
  <2>2. /\ s.at = n.stream.at /\ s.initiator = n.stream.initiator
        /\ s.request = "ended" /\ s.response = n.stream.response
        /\ s.requestCredit = n.stream.requestCredit
    BY <1>1, <2>1 DEF Streams
  <2> HIDE DEF f
  <2>3. m = [k EXCEPT !.tail = Append(@, "end")]
    BY <2>1 DEF ReadHost, Ignored
  <2>4. /\ CreditOf(k.stream, Incoming(n)) = CreditOf(n.stream, Incoming(n))
        /\ Takes(k.stream, Incoming(n)) => Takes(n.stream, Incoming(n))
        /\ ~InputOver(n) /\ n.stream.at # "unknown"
        /\ IsResponseTerminal(n.stream) => IsResponseTerminal(k.stream)
    BY <1>3, <1>4, <1>8, <2>2 DEF CreditOf, Takes, InputOver, IsResponseTerminal
  <2>5. Link(h.stream, Tail(h.wire), k.stream, k.wire)
    BY <1>3
  <2>6. Sane(k, g, u, p)
    BY <1>1, <1>3, <1>4, <2>1, <2>2, <2>4, <2>5, CopyTurns DEF f
  <2>7. InputOver(k) /\ k.stream.at # "unknown"
    BY <1>1, <1>3, <2>2, <2>4 DEF InputOver, IsRemote
  <2>8. \A j \in DOMAIN k.tail : k.tail[j] \notin {"end", "remove"}
    BY <1>1, <1>3, <2>4, NoEnd DEF Sane
  <2>9. Sane(m, g, u, p)
    <3> HIDE DEF m
    <3> QED BY <2>3, <2>6, <2>7, <2>8, EndFollows
  <2>10. /\ m.stream = s /\ m.source = source /\ m.closed = n.closed /\ m.pump = n.pump
         /\ m.left = n.left /\ m.aborted = n.aborted
    <3> HIDE DEF m
    <3> QED BY <1>3, <2>3 DEF NodeRecords
  <2> HIDE DEF m
  <2>11. m.source <=> n.source
    BY <2>10
  <2>12. Pumped(m)
    BY <1>1, <2>2, <2>10, <2>11, PumpStays
  <2> QED BY <2>9, <2>12 DEF Good
<1>9. CASE /\ f = Frame("request_cancel", "helper") /\ n.stream.at = "active"
           /\ n.stream.request # "cancelled" /\ ~IsResponseTerminal(n.stream)
           /\ x = To("request_cancelled",
                     [n.stream EXCEPT !.cancelled = TRUE, !.request = "cancelled"])
  <2>1. /\ x.outcome = "request_cancelled" /\ f.type = "request_cancel"
        /\ s = [n.stream EXCEPT !.cancelled = TRUE, !.request = "cancelled"]
    BY <1>9 DEF To, Frame
  <2>2. /\ s.at = n.stream.at /\ s.initiator = n.stream.initiator
        /\ s.request = "cancelled" /\ s.response = n.stream.response
        /\ s.requestCredit = n.stream.requestCredit
    BY <1>1, <2>1 DEF Streams
  <2>3. ~k.closed
    BY <1>1, <1>3, <1>9
  <2>4. m = [k EXCEPT !.aborted = TRUE, !.source = FALSE, !.body = Destroyed(n.body),
                      !.pump = Woken(n.pump)]
    BY <1>3, <2>1, <2>3 DEF ReadHost, Ignored, CancelHost
  <2>5. /\ m \in NodeRecords /\ m.stream = s /\ m.source = FALSE /\ m.wire = n.wire
        /\ m.tail = n.tail /\ m.held = n.held /\ m.closed = n.closed
        /\ m.body = Destroyed(n.body) /\ m.pump = Woken(n.pump) /\ m.left = n.left
        /\ m.aborted = TRUE
    <3>1. Woken(n.pump) \in Pumps /\ Destroyed(n.body) \in Bodies
      BY <1>1, MarksAre
    <3> HIDE DEF m
    <3> QED BY <1>3, <2>4, <3>1 DEF NodeRecords
  <2> HIDE DEF m, f
  <2>6. /\ m.body = n.body \/ m.body = "destroyed"
        /\ m.body # "open" /\ m.pump # "idle" /\ n.stream.at # "unknown"
    BY <1>1, <1>9, <2>5, MarksAre
  <2>7. /\ CreditOf(m.stream, Incoming(n)) = CreditOf(n.stream, Incoming(n))
        /\ Takes(m.stream, Incoming(n)) => Takes(n.stream, Incoming(n))
        /\ InputOver(n) => InputOver(m)
        /\ IsResponseTerminal(n.stream) => IsResponseTerminal(m.stream)
    BY <1>1, <1>4, <1>9, <2>2, <2>5 DEF CreditOf, Takes, InputOver, IsResponseTerminal, IsRemote
  <2>8. Link(h.stream, Tail(h.wire), m.stream, m.wire)
    BY <2>5
  <2>9. Sane(m, g, u, p)
    <3>1. /\ m.stream.at = n.stream.at /\ m.stream.initiator = n.stream.initiator
          /\ Head(h.wire).type # ChunkOf(Incoming(n))
      BY <1>4, <2>1, <2>2, <2>5 DEF f
    <3> QED BY <1>1, <2>5, <2>6, <2>7, <2>8, <3>1, CopyTurns
  <2>10. Pumped(m)
    BY <1>1, <2>2, <2>5, PumpStays
  <2> QED BY <2>9, <2>10 DEF Good
<1>10. CASE /\ f \in {Frame("request_cancel", "helper"), Grant("response", "helper")}
            /\ x.outcome \in {"cancel_ignored", "window_ignored", "inactive_frame_ignored"}
            /\ n.stream.at # "unknown" /\ s = n.stream
  <2>1. /\ x.outcome \in Ignored /\ f.type \in {"request_cancel", "window_update"}
    BY <1>10 DEF Ignored, Grant, Frame
  <2>2. m = k
    BY <2>1
  <2>3. Link(h.stream, Tail(h.wire), k.stream, k.wire)
    BY <1>3
  <2> HIDE DEF m, f
  <2>4. Sane(k, g, u, p)
    BY <1>1, <1>3, <1>4, <1>10, <2>1, <2>3, CopyTurns DEF f, InputOver, IsRemote
  <2>5. k.source <=> n.source
    BY <1>3
  <2>6. Pumped(k)
    BY <1>1, <1>3, <1>10, <2>5, PumpStays
  <2> QED BY <2>2, <2>4, <2>6 DEF Good
<1>11. CASE /\ f = Grant("response", "helper") /\ n.stream.at = "active"
            /\ ~IsResponseTerminal(n.stream) /\ n.stream.responseCredit < Credit
            /\ x = To("window_updated", [n.stream EXCEPT !.responseCredit = @ + 1])
  <2>1. /\ x.outcome = "window_updated" /\ s = [n.stream EXCEPT !.responseCredit = @ + 1]
        /\ f.type = "window_update"
    BY <1>11 DEF To, Grant
  <2>2. /\ s.at = n.stream.at /\ s.initiator = n.stream.initiator
        /\ s.request = n.stream.request /\ s.response = n.stream.response
        /\ s.requestCredit = n.stream.requestCredit
    BY <1>1, <2>1 DEF Streams
  <2>3. m = [k EXCEPT !.pump = Woken(n.pump)]
    BY <1>3, <2>1 DEF ReadHost, Ignored
  <2>4. /\ m \in NodeRecords /\ m.stream = s /\ m.source = source /\ m.wire = n.wire
        /\ m.tail = n.tail /\ m.held = n.held /\ m.closed = n.closed /\ m.body = n.body
        /\ m.pump = Woken(n.pump) /\ m.left = n.left /\ m.aborted = n.aborted
        /\ m.pump # "idle"
    <3>1. Woken(n.pump) \in Pumps \ {"idle"}
      BY <1>1, <1>11, MarksAre
    <3> HIDE DEF m
    <3> QED BY <1>3, <2>3, <3>1 DEF NodeRecords
  <2> HIDE DEF m, f
  <2>5. /\ CreditOf(m.stream, Incoming(n)) = CreditOf(n.stream, Incoming(n))
        /\ Takes(m.stream, Incoming(n)) => Takes(n.stream, Incoming(n))
        /\ InputOver(n) => InputOver(m)
        /\ n.stream.at # "unknown"
        /\ IsResponseTerminal(n.stream) => IsResponseTerminal(m.stream)
    BY <1>4, <1>11, <2>2, <2>4 DEF CreditOf, Takes, InputOver, IsResponseTerminal, IsRemote
  <2>6. Link(h.stream, Tail(h.wire), m.stream, m.wire)
    BY <2>4
  <2>7. Sane(m, g, u, p)
    <3>1. /\ m.stream.at = n.stream.at /\ m.stream.initiator = n.stream.initiator
          /\ m.stream.request = n.stream.request
          /\ Head(h.wire).type # ChunkOf(Incoming(n))
      BY <1>4, <2>1, <2>2, <2>4 DEF f
    <3> QED BY <1>1, <2>4, <2>5, <2>6, <3>1, CopyTurns
  <2>8. m.source <=> n.source
    BY <2>4
  <2>9. Pumped(m)
    BY <1>1, <2>2, <2>4, <2>8, PumpStays
  <2> QED BY <2>7, <2>9 DEF Good
<1> HIDE DEF m, f, s
<1> QED
  <2>1. ResponderTakes(n.stream, f, x)
    BY DEF f
  <2> QED BY <1>1, <1>4, <1>6, <1>7, <1>8, <1>9, <1>10, <1>11, <2>1 DEF ResponderTakes, s

-----------------------------------------------------------------------------
(* The frames: what the node reads and what the helper does.               *)

\* Each end reads what the other wrote, and refuses nothing of it.
LEMMA NodeHears ==
  ASSUME NEW n, NEW h, NEW u, NEW p, Good(n, h, u, p), u,
         h.wire # <<>>, n.pump # "starting",
         NEW x, x = Receive(n.stream, Head(h.wire)),
         NEW g, g = [h EXCEPT !.wire = Tail(@)],
         NEW source \in BOOLEAN,
         source <=> n.source /\ ~(IsRemote(n) /\ ClosesInput(n.stream, x.stream))
  PROVE  LET k == [n EXCEPT !.stream = x.stream, !.source = source] IN
         /\ x.outcome \notin Refused
         /\ (IsRemote(k) <=> IsRemote(n))
         /\ Good(IF x.outcome \in Ignored THEN k
                 ELSE IF IsRemote(k) THEN ReadRemote(k, x.outcome)
                 ELSE ReadHost(k, x.outcome), g, u, p)
<1> DEFINE k == [n EXCEPT !.stream = x.stream, !.source = source]
<1>1. /\ n \in NodeRecords
      /\ IF IsRemote(n)
         THEN n.stream.initiator = "node" /\ Link(n.stream, n.wire, h.stream, h.wire)
         ELSE n.stream.initiator = "helper" /\ Link(h.stream, h.wire, n.stream, n.wire)
  BY BothEnds DEF Good
<1>2. k.stream = x.stream
  BY <1>1 DEF NodeRecords
<1>3. CASE IsRemote(n)
  <2>1. /\ x.outcome \notin Refused /\ Link(x.stream, n.wire, h.stream, Tail(h.wire))
        /\ InitiatorTakes(n.stream, Head(h.wire), x)
    BY <1>1, <1>3, InitiatorReads
  <2>2. Good(IF x.outcome \in Ignored THEN k ELSE ReadRemote(k, x.outcome), g, u, p)
    BY <1>3, <2>1, RemoteReads
  <2>3. x.stream.initiator = h.stream.initiator /\ h.stream.initiator = n.stream.initiator
    BY <1>1, <1>3, <2>1 DEF Link, Wires
  <2>4. IsRemote(k)
    <3> HIDE DEF k
    <3> QED BY <1>2, <1>3, <2>3 DEF IsRemote
  <2> HIDE DEF k
  <2> QED BY <1>3, <2>1, <2>2, <2>4 DEF k
<1>4. CASE ~IsRemote(n)
  <2>1. /\ x.outcome \notin Refused /\ Link(h.stream, Tail(h.wire), x.stream, n.wire)
        /\ ResponderTakes(n.stream, Head(h.wire), x)
    BY <1>1, <1>4, ResponderReads
  <2>2. Good(IF x.outcome \in Ignored THEN k ELSE ReadHost(k, x.outcome), g, u, p)
    BY <1>4, <2>1, HostReads
  <2>3. x.stream.initiator = h.stream.initiator /\ h.stream.initiator = n.stream.initiator
    BY <1>1, <1>4, <2>1 DEF Link, Wires
  <2>4. ~IsRemote(k)
    <3> HIDE DEF k
    <3> QED BY <1>2, <1>4, <2>3 DEF IsRemote
  <2> HIDE DEF k
  <2> QED BY <1>4, <2>1, <2>2, <2>4 DEF k
<1> QED BY <1>3, <1>4

\* #readLoop
LEMMA NodeReadsKeeps ==
  ASSUME StreamInv, NodeReads
  PROVE  StreamInv'
<1> DEFINE x == Receive(node.stream, Head(helper.wire))
           source == node.source /\ ~(IsRemote(node) /\ ClosesInput(node.stream, x.stream))
           k == [node EXCEPT !.stream = x.stream, !.source = source]
           m == IF x.outcome \in Ignored THEN k
                ELSE IF IsRemote(k) THEN ReadRemote(k, x.outcome)
                ELSE ReadHost(k, x.outcome)
<1>1. /\ Good(node, helper, up, past) /\ past \in PastRecords /\ node \in NodeRecords
      /\ up /\ helper.wire # <<>> /\ node.pump # "starting"
      /\ up \in BOOLEAN
  BY PumpRuns DEF StreamInv, NodeReads, Good, Sane, Typed
<1>2. helper' = [helper EXCEPT !.wire = Tail(@)]
  BY DEF NodeReads
<1>3. x.outcome \notin Refused /\ Good(m, helper', up, past)
  <2>1. source \in BOOLEAN
    BY <1>1 DEF NodeRecords
  <2> HIDE DEF x, source
  <2>2. x = Receive(node.stream, Head(helper.wire))
        /\ (source <=> node.source
                         /\ ~(IsRemote(node) /\ ClosesInput(node.stream, x.stream)))
    BY DEF x, source
  <2> QED BY <1>1, <1>2, <2>1, <2>2, NodeHears
<1>4. node' = CASE x.outcome \in Ignored -> k
                [] x.outcome \in Refused -> RemoveFor(k)
                [] OTHER -> IF IsRemote(k) THEN ReadRemote(k, x.outcome)
                            ELSE ReadHost(k, x.outcome)
  BY <1>1 DEF NodeReads, NodeRecords
<1>5. /\ up' = (x.outcome # "connection_error")
      /\ past' = [past EXCEPT
           !.refused = @ \/ x.outcome \in Refused,
           !.crossed = @ \/ ( /\ x.outcome = "cancel_ignored"
                              /\ node.stream.request = "response_closed" )]
  BY DEF NodeReads
<1>6. node' = m
  <2> HIDE DEF x, k
  <2> QED BY <1>3, <1>4
<1> HIDE DEF x, m, k, source
<1>7. up' = up
  BY <1>1, <1>3, <1>5 DEF Refused
<1>8. /\ past' \in PastRecords /\ past'.refused = past.refused
      /\ past'.sent = past.sent /\ past'.got = past.got
  BY <1>1, <1>3, <1>5 DEF PastRecords
<1>9. Sane(node', helper', up, past') /\ Pumped(node')
  BY <1>3, <1>6, <1>8, Remembered DEF Good
<1> QED BY <1>7, <1>9 DEF StreamInv, Good

\* The helper sends a frame of its own.
LEMMA HelperSendsKeeps ==
  ASSUME StreamInv, NEW types \in SUBSET (FrameTypes \ {"window_update"}), HelperSends(types)
  PROVE  StreamInv'
<1>1. PICK type \in types :
        LET f == Frame(type, "helper")
            r == Receive(helper.stream, f)
            chunk == type \in {"request_chunk", "response_chunk"}
        IN /\ type = "request_start" \/ helper.stream.at = "active"
           /\ r.outcome \notin Ignored \union Refused
           /\ chunk => helper.left > 0
           /\ helper' = [helper EXCEPT !.stream = r.stream,
                           !.wire = Append(@, f),
                           !.left = IF chunk THEN @ - 1 ELSE @]
           /\ past' = [past EXCEPT !.sent = IF chunk THEN @ + 1 ELSE @]
  BY DEF HelperSends
<1>2. up /\ node' = node /\ up' = up
  BY DEF HelperSends
<1>3. Sane(node, helper, up, past) /\ Pumped(node)
  BY DEF StreamInv, Good
<1>4. type \in FrameTypes \ {"window_update"}
  OBVIOUS
<1>5. Sane(node, helper', up, past')
  BY <1>1, <1>2, <1>3, <1>4, HelperSent
<1> QED BY <1>2, <1>3, <1>5 DEF StreamInv, Good

\* It gives credit back.
LEMMA HelperGrantsKeeps ==
  ASSUME StreamInv, HelperGrants
  PROVE  StreamInv'
<1> DEFINE x == Receive(helper.stream, Grant(Outgoing(node), "helper"))
<1>1. /\ up /\ helper.owed > 0 /\ node' = node /\ up' = up /\ past' = past
      /\ helper' = [helper EXCEPT !.stream = x.stream, !.owed = @ - 1,
                      !.wire = IF x.outcome \in Ignored \union Refused
                               THEN @ ELSE Append(@, Grant(Outgoing(node), "helper"))]
  BY DEF HelperGrants
<1>2. Sane(node, helper, up, past) /\ Pumped(node)
  BY DEF StreamInv, Good
<1>3. Sane(node, helper', up, past)
  BY <1>1, <1>2, HelperGranted
<1> QED BY <1>1, <1>2, <1>3 DEF StreamInv, Good

\* It reads what the node wrote.
LEMMA HelperReadsKeeps ==
  ASSUME StreamInv, HelperReads
  PROVE  StreamInv'
<1> DEFINE x == Receive(helper.stream, Head(node.wire))
<1>1. /\ up /\ node.wire # <<>> /\ up' = up
      /\ node' = [node EXCEPT !.wire = Tail(@)]
      /\ helper' = [helper EXCEPT !.stream = x.stream,
           !.owed = IF x.outcome \in {"request_chunk_delivered", "response_chunk_delivered"}
                    THEN @ + 1 ELSE @]
      /\ past' = [past EXCEPT !.refused = @ \/ x.outcome \in Refused]
  BY DEF HelperReads
<1>2. /\ Sane(node, helper, up, past) /\ Pumped(node) /\ node \in NodeRecords
      /\ past \in PastRecords
  BY PumpRuns DEF StreamInv
<1>3. Sane(node', helper', up, past) /\ x.outcome \notin Refused
  BY <1>1, <1>2, HelperHears
<1> HIDE DEF x
<1>4. /\ past' \in PastRecords /\ past'.refused = past.refused
      /\ past'.sent = past.sent /\ past'.got = past.got
  BY <1>1, <1>2, <1>3 DEF PastRecords
<1>5. Sane(node', helper', up, past')
  BY <1>3, <1>4, Remembered
<1>6. /\ node'.stream = node.stream /\ node'.pump = node.pump /\ node'.left = node.left
      /\ node'.closed = node.closed /\ node'.aborted = node.aborted
      /\ node'.source = node.source
  BY <1>1, <1>2 DEF NodeRecords
<1>7. Pumped(node')
  BY <1>2, <1>6, PumpStays
<1> QED BY <1>1, <1>5, <1>7 DEF StreamInv, Good

\* It forgets a stream that is over.
LEMMA HelperRemovesKeeps ==
  ASSUME StreamInv, HelperRemoves
  PROVE  StreamInv'
<1>1. /\ helper.stream.at = "active" /\ IsResponseTerminal(helper.stream)
      /\ helper.stream.request \notin {"open", "response_closed"}
      /\ helper' = [helper EXCEPT !.stream = Removed(@)]
      /\ node' = node /\ up' = up /\ past' = past
  BY DEF HelperRemoves
<1>2. Sane(node, helper, up, past) /\ Pumped(node)
  BY DEF StreamInv, Good
<1>3. Sane(node, helper', up, past)
  BY <1>1, <1>2, HelperForgets
<1> QED BY <1>1, <1>2, <1>3 DEF StreamInv, Good

-----------------------------------------------------------------------------
(* The invariant, and what follows from it.                                *)

\* A stream nobody started.
LEMMA UntouchedIs ==
  ASSUME NEW initiator \in Sides, NEW s, s = Unstarted(initiator)
  PROVE  /\ s \in Streams /\ s.at = "unknown" /\ s.initiator = initiator
         /\ s.request = "open" /\ s.response = "none" /\ ~s.failed /\ ~s.cancelled
         /\ s.requestCredit = Credit /\ s.responseCredit = Credit
<1>1. /\ Credit \in 0..Credit /\ "open" \in RequestStates /\ "none" \in ResponseStates
  BY CreditAssumption DEF RequestStates, ResponseStates
<1>2. s = [at |-> "unknown", initiator |-> initiator, request |-> "open",
           response |-> "none", cancelled |-> FALSE, failed |-> FALSE,
           requestCredit |-> Credit, responseCredit |-> Credit]
  BY DEF Unstarted, Started
<1> QED BY <1>1, <1>2 DEF Streams

\* Before anything is sent.
LEMMA Unlinked ==
  ASSUME NEW initiator \in Sides
  PROVE  Link(Unstarted(initiator), <<>>, Unstarted(initiator), <<>>)
<1> DEFINE s == Unstarted(initiator)
<1>1. /\ s \in Streams /\ s.at = "unknown" /\ s.initiator = initiator
      /\ s.request = "open" /\ s.response = "none" /\ ~s.failed /\ ~s.cancelled
      /\ s.requestCredit = Credit /\ s.responseCredit = Credit
  BY UntouchedIs
<1>2. ~IsResponseTerminal(s)
  BY <1>1 DEF IsResponseTerminal
<1> HIDE DEF s
<1>3. Sound(s)
  BY <1>1, <1>2 DEF Sound, s
<1>4. Wires(s, <<>>, s, <<>>)
  BY <1>3 DEF Wires
<1>5. Opening(s, <<>>, s, <<>>)
  BY <1>1 DEF Opening
<1>6. RequestFrames(<<>>) /\ ResponseFrames(<<>>)
  BY DEF RequestFrames, ResponseFrames
<1>7. RequestOrder(s, <<>>, s)
  BY <1>1 DEF RequestOrder
<1>8. ResponseOrder(s, s, <<>>)
  BY <1>1, <1>2 DEF ResponseOrder
<1>9. \A e : Count(<<>>, e) = 0
  BY CountNone
<1>10. RequestBalance(s, <<>>, s, <<>>)
  <2>1. RequestSum(s, <<>>, <<>>) = s.requestCredit
    BY <1>1, <1>9, CreditAssumption DEF RequestSum
  <2>2. s.requestCredit <= s.requestCredit
    BY <1>1, CreditAssumption
  <2> QED BY <2>1, <2>2 DEF RequestBalance
<1>11. ResponseBalance(s, <<>>, s, <<>>)
  <2>1. ResponseSum(s, <<>>, s, <<>>) = s.responseCredit
    BY <1>1, <1>9, CreditAssumption DEF ResponseSum
  <2>2. s.responseCredit <= s.responseCredit
    BY <1>1, CreditAssumption
  <2> QED BY <2>1, <2>2 DEF ResponseBalance
<1>12. Link(s, <<>>, s, <<>>)
  BY <1>4, <1>5, <1>6, <1>7, <1>8, <1>10, <1>11 DEF Link
<1> QED BY <1>12 DEF s

\* The program starts in it, whichever end opens the stream.
LEMMA InitGood == ASSUME StreamInit PROVE StreamInv
<1>1. PICK initiator \in Sides, chunks \in 0 .. MaxChunks :
        /\ node = [stream |-> Unstarted(initiator), wire |-> <<>>, closed |-> FALSE,
                   aborted |-> FALSE, pump |-> "idle", left |-> 0, source |-> TRUE,
                   body |-> "open", held |-> 0, tail |-> <<>>, caller |-> "none"]
        /\ helper = [stream |-> Unstarted(initiator), wire |-> <<>>,
                     left |-> chunks, owed |-> 0]
        /\ up = TRUE
        /\ past = [quit |-> FALSE, crossed |-> FALSE, dropped |-> FALSE, refused |-> FALSE,
                   sent |-> 0, got |-> 0]
  BY DEF StreamInit
<1> DEFINE s == Unstarted(initiator)
<1>2. /\ Link(s, <<>>, s, <<>>)
      /\ s \in Streams /\ s.at = "unknown" /\ s.initiator = initiator
      /\ s.request = "open" /\ s.response = "none"
      /\ s.requestCredit = Credit /\ s.responseCredit = Credit
  BY Unlinked, UntouchedIs
<1> HIDE DEF s
<1>3. /\ node.stream = s /\ node.wire = <<>> /\ ~node.closed /\ ~node.aborted
      /\ node.pump = "idle" /\ node.left = 0 /\ node.source /\ node.body = "open"
      /\ node.held = 0 /\ node.tail = <<>> /\ node.caller = "none"
      /\ helper.stream = s /\ helper.wire = <<>> /\ helper.left = chunks /\ helper.owed = 0
      /\ ~past.refused /\ past.sent = 0 /\ past.got = 0 /\ up
  BY <1>1 DEF s
<1>4. Typed(node, helper, up, past)
  <2>1. MaxChunks \in Nat /\ "idle" \in Pumps /\ "open" \in Bodies
    BY StreamAssumption DEF Pumps, Bodies
  <2>2. node \in NodeRecords
    BY <1>1, <1>2, <2>1 DEF NodeRecords, s
  <2>3. helper \in HelperRecords
    BY <1>1, <1>2, <2>1 DEF HelperRecords, s
  <2>4. up \in BOOLEAN /\ past \in PastRecords
    BY <1>1, <2>1 DEF PastRecords
  <2> QED BY <2>2, <2>3, <2>4 DEF Typed
<1>5. Linked(node, helper, up)
  BY <1>2, <1>3 DEF Linked
<1>6. /\ \A window : CreditOf(s, window) = Credit
      /\ Credit + 0 = Credit /\ Credit <= Credit
  BY <1>2, CreditAssumption DEF CreditOf
<1>7. HelperDrained(node, helper, up)
  BY <1>3, <1>6 DEF HelperDrained
<1>8. \A e : Count(<<>>, e) = 0
  BY CountNone
<1>9. NodeDrained(node, up)
  <2>1. Owed(node) = 0
    BY <1>3, <1>8 DEF Owed
  <2> QED BY <1>3, <1>6, <2>1 DEF NodeDrained
<1>10. Known(node, helper, up, past)
  BY <1>2, <1>3 DEF Known
<1>11. TailOrder(node) /\ BodyOrder(node)
  BY <1>2, <1>3 DEF TailOrder, BodyOrder
<1>12. Whole(node, helper, past)
  <2>1. Count(node.tail, "chunk") = 0 /\ ChunksIn(node, helper) = 0
    BY <1>3, <1>8 DEF ChunksIn
  <2>2. chunks \in Nat /\ MaxChunks \in Nat /\ chunks <= MaxChunks
    BY StreamAssumption
  <2> QED BY <1>3, <2>1, <2>2 DEF Whole
<1>13. Pumped(node)
  BY <1>2, <1>3 DEF Pumped, PumpHost, PumpRemote, PumpHasChunk
<1> QED BY <1>3, <1>4, <1>5, <1>7, <1>9, <1>10, <1>11, <1>12, <1>13
        DEF StreamInv, Good, Sane

\* Every step of either end, of the reader, the caller and the connection keeps
\* it.
LEMMA NextKeeps == ASSUME StreamInv, [StreamNext]_streamVars PROVE StreamInv'
<1>1. CASE Node
  <2>1. CASE Request
    BY <2>1, RequestKeeps
  <2>2. CASE StartFlushed
    BY <2>2, StartFlushedKeeps
  <2>3. CASE Dispatch
    BY <2>3, DispatchKeeps
  <2>4. CASE PumpReads
    BY <2>4, PumpReadsKeeps
  <2>5. CASE PumpCredit
    BY <2>5, PumpCreditKeeps
  <2>6. CASE PumpWritten
    BY <2>6, PumpWrittenKeeps
  <2>7. CASE HostFinishes
    BY <2>7, HostFinishesKeeps
  <2>8. CASE TailWrites
    BY <2>8, TailWritesKeeps
  <2>9. CASE TailGrants
    BY <2>9, TailGrantsKeeps
  <2>10. CASE TailEnds
    BY <2>10, TailEndsKeeps
  <2>11. CASE TailRemoves
    BY <2>11, TailRemovesKeeps
  <2>12. CASE NodeReads
    BY <2>12, NodeReadsKeeps
  <2> QED BY <1>1, <2>1, <2>2, <2>3, <2>4, <2>5, <2>6, <2>7, <2>8, <2>9, <2>10,
             <2>11, <2>12 DEF Node
<1>2. CASE Helper
  <2>1. CASE HelperStarts
    <3>1. {"request_start"} \in SUBSET (FrameTypes \ {"window_update"})
      BY DEF FrameTypes
    <3> QED BY <2>1, <3>1, HelperSendsKeeps DEF HelperStarts
  <2>2. CASE HelperRequests
    <3>1. {"request_chunk", "request_end"} \in SUBSET (FrameTypes \ {"window_update"})
      BY DEF FrameTypes
    <3> QED BY <2>2, <3>1, HelperSendsKeeps DEF HelperRequests
  <2>3. CASE HelperCancels
    <3>1. {"request_cancel"} \in SUBSET (FrameTypes \ {"window_update"})
      BY DEF FrameTypes
    <3> QED BY <2>3, <3>1, HelperSendsKeeps DEF HelperCancels
  <2>4. CASE HelperAnswers
    <3>1. {"response_start", "response_chunk", "response_end", "response_error"}
            \in SUBSET (FrameTypes \ {"window_update"})
      BY DEF FrameTypes
    <3> QED BY <2>4, <3>1, HelperSendsKeeps DEF HelperAnswers
  <2>5. CASE HelperGrants
    BY <2>5, HelperGrantsKeeps
  <2>6. CASE HelperReads
    BY <2>6, HelperReadsKeeps
  <2>7. CASE HelperRemoves
    BY <2>7, HelperRemovesKeeps
  <2> QED BY <1>2, <2>1, <2>2, <2>3, <2>4, <2>5, <2>6, <2>7 DEF Helper
<1>3. CASE BodyRead
  BY <1>3, BodyReadKeeps
<1>4. CASE CallerQuits
  BY <1>4, CallerQuitsKeeps
<1>5. CASE Disconnect
  BY <1>5, DisconnectKeeps
<1>6. CASE UNCHANGED streamVars
  BY <1>6 DEF streamVars, StreamInv
<1> QED BY <1>1, <1>2, <1>3, <1>4, <1>5, <1>6 DEF StreamNext

\* Credit in both directions, of two ends that are linked.
LEMMA Conserves == ASSUME StreamInv PROVE CreditConserved
<1> SUFFICES ASSUME up PROVE
      /\ Flowing(Outgoing(node)) =>
           Conserved(Outgoing(node), End("node"), End("helper"), helper.owed)
      /\ Flowing(Incoming(node)) /\ node.body = "open" =>
           Conserved(Incoming(node), End("helper"), End("node"), Undrained)
  BY DEF CreditConserved
<1> DEFINE n == node.stream
           h == helper.stream
           out == Count(node.wire, Frame(ChunkOf(Outgoing(node)), "node"))
           outGrants == Count(helper.wire, Grant(Outgoing(node), "helper"))
           in == Count(helper.wire, Frame(ChunkOf(Incoming(node)), "helper"))
           inGrants == Count(node.wire, Grant(Incoming(node), "node"))
<1>1. /\ Sane(node, helper, up, past) /\ node \in NodeRecords /\ helper \in HelperRecords
      /\ Sound(n) /\ Sound(h)
      /\ IF IsRemote(node)
         THEN n.initiator = "node" /\ Link(n, node.wire, h, helper.wire)
         ELSE n.initiator = "helper" /\ Link(h, helper.wire, n, node.wire)
  BY BothEnds DEF StreamInv, Good
<1>2. /\ n.requestCredit \in Nat /\ n.responseCredit \in Nat
      /\ h.requestCredit \in Nat /\ h.responseCredit \in Nat /\ Credit \in Nat
      /\ helper.owed \in Nat
  BY <1>1, StreamType DEF HelperRecords
<1>3. /\ node.wire \in Seq(Frames) /\ helper.wire \in Seq(Frames) /\ node.tail \in Seq(Links)
  BY <1>1 DEF NodeRecords, HelperRecords
<1>4. /\ out \in Nat /\ outGrants \in Nat /\ in \in Nat /\ inGrants \in Nat
      /\ Undrained \in Nat /\ Undrained = Owed(node)
  <2>1. out \in Nat /\ inGrants \in Nat
    BY <1>3, PositionsFinite
  <2>2. outGrants \in Nat /\ in \in Nat
    BY <1>3, PositionsFinite
  <2>3. Count(node.tail, "chunk") \in Nat /\ Count(node.tail, "written") \in Nat
    BY <1>3, PositionsFinite
  <2> HIDE DEF out, outGrants, in, inGrants
  <2> QED BY <2>1, <2>2, <2>3 DEF Undrained, Owed
<1>5. /\ Opposite("node") = "helper" /\ Opposite("helper") = "node"
  BY DEF Opposite
<1>6. /\ Flowing(Outgoing(node)) =>
           CreditOf(n, Outgoing(node)) + out + outGrants = CreditOf(h, Outgoing(node))
      /\ Flowing(Incoming(node)) =>
           CreditOf(h, Incoming(node)) + in + inGrants = CreditOf(n, Incoming(node))
  <2>1. CASE IsRemote(node)
    <3>1. Outgoing(node) = "request" /\ Incoming(node) = "response"
      BY <2>1 DEF Outgoing, Incoming
    <3>2. /\ n.request = "open" => RequestSum(n, node.wire, helper.wire) = h.requestCredit
          /\ ~IsResponseTerminal(h) =>
               ResponseSum(n, node.wire, h, helper.wire) = n.responseCredit
      BY <1>1, <2>1 DEF Link, RequestBalance, ResponseBalance
    <3>3. /\ RequestSum(n, node.wire, helper.wire) = n.requestCredit + out + outGrants
          /\ ResponseSum(n, node.wire, h, helper.wire) = h.responseCredit + in + inGrants
      BY <1>1, <1>5, <2>1, <3>1 DEF RequestSum, ResponseSum, ChunkOf
    <3>4. /\ Flowing("request") => n.request = "open"
          /\ Flowing("response") => ~IsResponseTerminal(h)
      BY DEF Flowing
    <3> HIDE DEF out, outGrants, in, inGrants
    <3> QED BY <3>1, <3>2, <3>3, <3>4 DEF CreditOf
  <2>2. CASE ~IsRemote(node)
    <3>1. Outgoing(node) = "response" /\ Incoming(node) = "request"
      BY <2>2 DEF Outgoing, Incoming
    <3>2. /\ h.request = "open" => RequestSum(h, helper.wire, node.wire) = n.requestCredit
          /\ ~IsResponseTerminal(n) =>
               ResponseSum(h, helper.wire, n, node.wire) = h.responseCredit
      BY <1>1, <2>2 DEF Link, RequestBalance, ResponseBalance
    <3>3. /\ RequestSum(h, helper.wire, node.wire) = h.requestCredit + in + inGrants
          /\ ResponseSum(h, helper.wire, n, node.wire) = n.responseCredit + out + outGrants
      <4>1. h.initiator = "helper"
        BY <1>1, <2>2, BothEnds
      <4> QED BY <1>5, <3>1, <4>1 DEF RequestSum, ResponseSum, ChunkOf
    <3>4. /\ Flowing("request") => h.request = "open"
          /\ Flowing("response") => ~IsResponseTerminal(n)
      BY DEF Flowing
    <3> HIDE DEF out, outGrants, in, inGrants
    <3> QED BY <3>1, <3>2, <3>3, <3>4 DEF CreditOf
  <2> QED BY <2>1, <2>2
<1>7. /\ Flowing(Outgoing(node)) => Takes(h, Outgoing(node))
      /\ Flowing(Incoming(node)) => Takes(n, Incoming(node))
  BY DEF Flowing, Takes, Outgoing, Incoming
<1>8. /\ Takes(h, Outgoing(node)) => CreditOf(h, Outgoing(node)) + helper.owed = Credit
      /\ Takes(n, Incoming(node)) /\ node.body = "open" =>
           CreditOf(n, Incoming(node)) + Undrained = Credit
  BY <1>1, <1>4 DEF Sane, HelperDrained, NodeDrained
<1>9. /\ Conserved(Outgoing(node), End("node"), End("helper"), helper.owed)
           <=> CreditOf(n, Outgoing(node)) + out + helper.owed + outGrants = Credit
      /\ Conserved(Incoming(node), End("helper"), End("node"), Undrained)
           <=> CreditOf(h, Incoming(node)) + in + Undrained + inGrants = Credit
  BY DEF Conserved, End
<1> DEFINE a == CreditOf(n, Outgoing(node))
           b == CreditOf(h, Outgoing(node))
           c == CreditOf(h, Incoming(node))
           d == CreditOf(n, Incoming(node))
<1>10. a \in Nat /\ b \in Nat /\ c \in Nat /\ d \in Nat
  BY <1>2 DEF CreditOf
<1> HIDE DEF a, b, c, d, out, outGrants, in, inGrants
<1>11. ASSUME Flowing(Outgoing(node))
       PROVE  a + out + helper.owed + outGrants = Credit
  <2>1. a + out + outGrants = b /\ b + helper.owed = Credit
    BY <1>6, <1>7, <1>8, <1>11 DEF a, b
  <2> QED BY <1>2, <1>4, <1>10, <2>1
<1>12. ASSUME Flowing(Incoming(node)), node.body = "open"
       PROVE  c + in + Undrained + inGrants = Credit
  <2>1. c + in + inGrants = d /\ d + Undrained = Credit
    BY <1>6, <1>7, <1>8, <1>12 DEF c, d
  <2> QED BY <1>2, <1>4, <1>10, <2>1
<1> QED BY <1>9, <1>11, <1>12 DEF a, c

\* The two ends of a stream, whatever crosses between them: their copies, the
\* frames on the way, the bodies and the pump fit together (Link, Sane, Pumped).
THEOREM EndsFit == StreamSpec => []StreamInv
<1>1. StreamInit => StreamInv
  BY InitGood
<1>2. StreamInv /\ [StreamNext]_streamVars => StreamInv'
  BY NextKeeps
<1> QED BY <1>1, <1>2, PTL DEF StreamSpec

\* Two ends that each follow the protocol never refuse one another a frame: no
\* stream fails, and with it no connection (helperClient.ts:911).
THEOREM NeverRefuses == StreamSpec => []NothingRefused
<1>1. StreamInv => NothingRefused
  BY DEF StreamInv, Good, Sane, NothingRefused
<1> QED BY <1>1, EndsFit, PTL

\* Credit adds up to the window in both directions, and a body that ends for its
\* reader is the whole body (helperClient.ts:973, :1028).
THEOREM NeverLoses == StreamSpec => []NothingIsLost
<1>1. StreamInv => StreamTypeOK
  BY DEF StreamInv, Good, Sane, Typed, StreamTypeOK, NodeRecords, HelperRecords, PastRecords
<1>2. StreamInv => CreditConserved
  BY Conserves
<1>3. StreamInv => NothingMissing
  BY DEF StreamInv, Good, Sane, Whole, NothingMissing
<1>4. StreamInv => NothingIsLost
  BY <1>1, <1>2, <1>3 DEF NothingIsLost
<1> QED BY <1>4, EndsFit, PTL
=============================================================================
