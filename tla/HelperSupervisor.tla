--------------------------- MODULE HelperSupervisor ---------------------------
(***************************************************************************)
(* The host's remote helper: a supervisor that launches one helper process *)
(* and keeps it (src/src/remote/helperSupervisor.ts), and the calls of the *)
(* remote access service that start and stop it (updateConfig,             *)
(* drainDisabledHelper, beginActivation, diagnostics, reconnect, close).   *)
(* Nothing serialises those calls: each runs on its own HTTP request, and  *)
(* an await of one lets the others run.                                    *)
(*                                                                         *)
(* A launch is a number; the supervisor's #generation is kept as the       *)
(* launch it belongs to (owner), because the code only ever asks whether   *)
(* the generation is still the one an attempt took.                        *)
(*                                                                         *)
(* `mishaps` is a ghost: the orders of calls that the service does not     *)
(* handle, so that the properties can say that nothing else goes wrong.    *)
(***************************************************************************)
EXTENDS Naturals, FiniteSets

CONSTANTS Calls,          \* requests of the service that may be under way at once
          FailureLimit,   \* HELPER_FAILURE_LIMIT
          MaxOps,         \* bound: service calls made
          MaxFaults       \* bound: faults of the helper or of a launch

ASSUME CallsAssumption == IsFiniteSet(Calls) /\ Calls # {}
ASSUME LimitAssumption == FailureLimit \in Nat \ {0}
ASSUME BoundsAssumption == MaxOps \in Nat /\ MaxFaults \in Nat

VARIABLES
  enabled,    \* config.enabled, as persisted and as held by the service
  pending,    \* an activation is pending
  known,      \* #identityStatus is cached
  call,       \* per request: what it does, where it waits, what it read
  closing,    \* #closing
  st,         \* #snapshot.state
  owner,      \* the launch #generation belongs to, 0 when invalidated
  attempt,    \* the attempt in flight (#attemptPromise)
  launch,     \* #launch, 0 for undefined
  client,     \* #client, 0 for undefined
  desired,    \* #desiredRuntime is set
  running,    \* #runtimeActive
  timer,      \* #restartTimer: none, fast or slow (circuit recovery)
  failures,   \* failures inside the window
  circuit,    \* #circuitOpen
  proc,       \* helper processes
  invalid,    \* the launch #failReadyLaunch is draining, 0 for none
  started,    \* attempts begun
  ops, faults, mishaps

service == <<enabled, pending, known>>
runtime == <<desired, running>>
breaker == <<timer, failures, circuit>>
budget  == <<ops, faults>>
vars == <<enabled, pending, known, call, closing, st, owner, attempt, launch,
          client, desired, running, timer, failures, circuit, proc, invalid,
          started, ops, faults, mishaps>>

\* Every attempt follows a service call, a fault, or the launch at boot.
Launches == 1 .. (MaxOps + MaxFaults + 1)
Idle == [op |-> "none", pc |-> "idle", was |-> FALSE, on |-> 0]
NoAttempt == [on |-> 0, pc |-> "none"]
Mishaps == {"stoppedWhileEnabled", "startedWhileStopping", "endedLate",
            "runtimeRefused"}

TypeOK ==
  /\ enabled \in BOOLEAN /\ pending \in BOOLEAN /\ known \in BOOLEAN
  /\ call \in [Calls -> [op : {"none", "enable", "activate", "diagnose",
                               "stop", "close"},
                         pc : {"idle", "start", "drain"},
                         was : BOOLEAN, on : {0} \union Launches]]
  /\ closing \in BOOLEAN
  /\ st \in {"disabled", "starting", "ready", "degraded"}
  /\ {owner, launch, client, invalid} \subseteq {0} \union Launches
  /\ attempt \in [on : {0} \union Launches,
                  pc : {"none", "resolving", "authenticating"}]
  /\ desired \in BOOLEAN /\ running \in BOOLEAN
  /\ timer \in {"none", "fast", "slow"}
  /\ failures \in 0 .. FailureLimit /\ circuit \in BOOLEAN
  /\ proc \in [Launches -> {"none", "alive", "going", "gone"}]
  /\ started \in 0 .. Cardinality(Launches)
  /\ ops \in 0 .. MaxOps /\ faults \in 0 .. MaxFaults
  /\ mishaps \subseteq Mishaps

-----------------------------------------------------------------------------
(* What the supervisor does between two awaits.                            *)

Alive == {h \in Launches : proc[h] = "alive"}
Stopping == invalid # 0 \/ \E c \in Calls : call[c].pc = "drain"
Note(m, if) == mishaps' = mishaps \union {x \in {m} : if}

\* #attempt up to its first await: it supersedes the armed timer.
BeginAttempt(recovery) ==
  /\ started < Cardinality(Launches)
  /\ started' = started + 1
  /\ attempt' = [on |-> started + 1, pc |-> "resolving"]
  /\ owner' = started + 1
  /\ st' = "starting"
  /\ timer' = "none"
  /\ failures' = IF recovery THEN 0 ELSE failures
  /\ UNCHANGED circuit

\* Mutants: a start does not join the attempt in flight; one that joins it
\* announces it as its own.
StartTwice ==
  IF st # "ready"
  THEN BeginAttempt(FALSE)
  ELSE UNCHANGED <<started, attempt, owner, st, breaker>>

StartAnnounces ==
  IF st # "ready" /\ attempt = NoAttempt
  THEN BeginAttempt(FALSE)
  ELSE /\ st' = IF st = "ready" THEN st ELSE "starting"
       /\ UNCHANGED <<started, attempt, owner, breaker>>

\* start: nothing when ready, else the attempt in flight or a new one.
Start ==
  IF st # "ready" /\ attempt = NoAttempt
  THEN BeginAttempt(FALSE)
  ELSE UNCHANGED <<started, attempt, owner, st, breaker>>

ResetFailureCircuit == failures' = 0 /\ circuit' = FALSE

\* Mutants: the failures are not filtered; a failed slow recovery forgets that
\* the circuit is open.
RecordFailureUnfiltered ==
  /\ st' = "degraded"
  /\ failures' = failures + 1
  /\ circuit' = (circuit \/ failures + 1 >= FailureLimit)
  /\ timer' = IF circuit' THEN "slow" ELSE "fast"

RecordFailureFast ==
  LET n == IF failures < FailureLimit THEN failures + 1 ELSE failures
  IN /\ st' = "degraded"
     /\ failures' = n
     /\ circuit' = (circuit \/ n = FailureLimit)
     /\ timer' = IF n = FailureLimit THEN "slow" ELSE "fast"

\* recordFailure and the attempt it schedules.
RecordFailure ==
  LET n == IF failures < FailureLimit THEN failures + 1 ELSE failures
      open == circuit \/ n = FailureLimit
  IN /\ st' = "degraded"
     /\ failures' = n
     /\ circuit' = open
     /\ timer' = IF open THEN "slow" ELSE "fast"

\* The parts of stop and close before the drain: the generation is bumped, the
\* launch is detached and told to go.
Detach ==
  /\ owner' = 0
  /\ launch' = 0 /\ client' = 0 /\ running' = FALSE
  /\ proc' = [h \in Launches |->
               IF h = launch /\ proc[h] = "alive" THEN "going" ELSE proc[h]]

\* The call of stop: with nothing launched it ends at once.
Stop(c, op) ==
  /\ Detach
  /\ timer' = "none" /\ ResetFailureCircuit
  /\ desired' = FALSE
  /\ IF launch = 0
     THEN call' = [call EXCEPT ![c] = Idle] /\ st' = "disabled"
     ELSE /\ call' = [call EXCEPT ![c] = [op |-> op, pc |-> "drain",
                                          was |-> FALSE, on |-> launch]]
          /\ UNCHANGED st

-----------------------------------------------------------------------------
(* The attempt.                                                            *)

Current == ~closing /\ owner = attempt.on

\* The package is verified and the helper spawned.
Spawn ==
  /\ attempt.pc = "resolving"
  /\ attempt' = [attempt EXCEPT !.pc = "authenticating"]
  /\ launch' = attempt.on
  /\ proc' = [proc EXCEPT ![attempt.on] = "alive"]
  /\ UNCHANGED <<service, call, closing, st, owner, client, runtime, breaker,
                 invalid, started, budget, mishaps>>

\* Mutants: an overtaken attempt returns without closing its client; a launch
\* does not restore the runtime that was wanted.
AuthenticatedKept ==
  /\ attempt.pc = "authenticating"
  /\ proc[attempt.on] = "alive"
  /\ attempt' = NoAttempt
  /\ IF Current
     THEN /\ client' = attempt.on /\ running' = desired /\ known' = TRUE
          /\ timer' = "none" /\ ResetFailureCircuit
          /\ st' = "ready"
     ELSE UNCHANGED <<client, running, known, breaker, st>>
  /\ UNCHANGED <<enabled, pending, call, closing, owner, launch, desired, proc,
                 invalid, started, budget, mishaps>>

AuthenticatedForgets ==
  /\ attempt.pc = "authenticating"
  /\ proc[attempt.on] = "alive"
  /\ attempt' = NoAttempt
  /\ IF Current
     THEN /\ client' = attempt.on /\ running' = FALSE /\ known' = TRUE
          /\ timer' = "none" /\ ResetFailureCircuit
          /\ st' = "ready"
          /\ UNCHANGED proc
     ELSE /\ proc' = [proc EXCEPT ![attempt.on] = "going"]
          /\ UNCHANGED <<client, running, known, breaker, st>>
  /\ UNCHANGED <<enabled, pending, call, closing, owner, launch, desired,
                 invalid, started, budget, mishaps>>

\* The helper answers. An attempt that was overtaken closes its client and
\* keeps quiet; the current one becomes ready and restores the runtime.
Authenticated ==
  /\ attempt.pc = "authenticating"
  /\ proc[attempt.on] = "alive"
  /\ attempt' = NoAttempt
  /\ IF Current
     THEN /\ client' = attempt.on /\ running' = desired /\ known' = TRUE
          /\ timer' = "none" /\ ResetFailureCircuit
          /\ st' = "ready"
          /\ UNCHANGED proc
     ELSE /\ proc' = [proc EXCEPT ![attempt.on] = "going"]
          /\ UNCHANGED <<client, running, known, breaker, st>>
  /\ UNCHANGED <<enabled, pending, call, closing, owner, launch, desired,
                 invalid, started, budget, mishaps>>

\* Everything thrown by an attempt: the launch is discarded, and only the
\* current attempt records the failure.
AttemptFails ==
  /\ attempt # NoAttempt
  /\ proc' = [h \in Launches |->
               IF h # attempt.on THEN proc[h]
               ELSE IF proc[h] = "alive" THEN "going"
               ELSE IF proc[h] = "none" THEN "gone" ELSE proc[h]]
  /\ launch' = IF launch = attempt.on THEN 0 ELSE launch
  /\ attempt' = NoAttempt
  /\ IF Current THEN RecordFailure ELSE UNCHANGED <<st, breaker>>
  /\ UNCHANGED <<service, call, closing, owner, client, runtime, invalid,
                 started, ops, mishaps>>

\* The package is refused, the spawn fails, or the helper is too late.
LaunchFault ==
  /\ faults < MaxFaults /\ faults' = faults + 1
  /\ attempt.pc = "authenticating" => proc[attempt.on] = "alive"
  /\ AttemptFails

\* The helper was told to go, or exited, before it authenticated.
LaunchGone ==
  /\ attempt.pc = "authenticating" /\ proc[attempt.on] # "alive"
  /\ AttemptFails
  /\ UNCHANGED faults

-----------------------------------------------------------------------------
(* The ready helper, its exit, and the timer.                              *)

\* A helper whose parent has closed the channel, or was killed, exits.
Exit(h) ==
  /\ proc[h] = "going"
  /\ proc' = [proc EXCEPT ![h] = "gone"]
  /\ UNCHANGED <<service, call, closing, st, owner, attempt, launch, client,
                 runtime, breaker, invalid, started, budget, mishaps>>

\* It crashes, or its connection fails: the client is then useless, and the
\* supervisor does nothing before the process has exited.
HelperFault(h) ==
  /\ faults < MaxFaults /\ faults' = faults + 1
  /\ proc[h] = "alive"
  /\ \E to \in {"going", "gone"} : proc' = [proc EXCEPT ![h] = to]
  /\ UNCHANGED <<service, call, closing, st, owner, attempt, launch, client,
                 runtime, breaker, invalid, started, ops, mishaps>>

OnUnexpectedExit ==
  /\ client # 0 /\ proc[client] = "gone"
  /\ ~closing /\ owner = client
  /\ client' = 0 /\ running' = FALSE
  /\ launch' = IF launch = client THEN 0 ELSE launch
  /\ RecordFailure
  /\ UNCHANGED <<service, call, closing, owner, attempt, desired, proc,
                 invalid, started, budget, mishaps>>

\* failReadyLaunch: an invalid status, its drain, and a failure recorded
\* whatever happened meanwhile.
InvalidStatus ==
  /\ faults < MaxFaults /\ faults' = faults + 1
  /\ client # 0 /\ ~closing /\ invalid = 0
  /\ invalid' = launch
  /\ Detach
  /\ UNCHANGED <<service, call, closing, st, attempt, desired, breaker,
                 started, ops, mishaps>>

InvalidDrained ==
  /\ invalid # 0 /\ proc[invalid] = "gone"
  /\ invalid' = 0
  /\ RecordFailure
  /\ Note("endedLate", attempt # NoAttempt \/ client # 0 \/ st = "disabled")
  /\ UNCHANGED <<service, call, closing, owner, attempt, launch, client,
                 runtime, proc, started, budget>>

\* The restart timer: it does nothing over a ready helper or an attempt.
TimerFires ==
  /\ timer # "none"
  /\ IF closing \/ st = "ready" \/ attempt # NoAttempt
     THEN /\ timer' = "none"
          /\ UNCHANGED <<started, attempt, owner, st, failures, circuit>>
     ELSE BeginAttempt(timer = "slow")
  /\ UNCHANGED <<service, call, closing, launch, client, runtime, proc,
                 invalid, budget, mishaps>>

\* Failures fall out of the window with time.
WindowPasses ==
  /\ failures > 0
  /\ failures' = failures - 1
  /\ UNCHANGED <<service, call, closing, st, owner, attempt, launch, client,
                 runtime, timer, circuit, proc, invalid, started, budget,
                 mishaps>>

-----------------------------------------------------------------------------
(* The service's calls.                                                    *)

Waits(c, op, was) ==
  call' = [call EXCEPT ![c] = [op |-> op, pc |-> "start", was |-> was,
                               on |-> IF st = "ready" THEN 0
                                      ELSE attempt'.on]]

Calling(c) ==
  /\ call[c] = Idle /\ ~closing
  /\ ops < MaxOps /\ ops' = ops + 1
  /\ UNCHANGED <<closing, faults>>

\* A start that joins what a stop has doomed.
JoinsAStop == Stopping \/ (attempt # NoAttempt /\ owner # attempt.on)

\* updateConfig with enabled true: the config is saved, then start is awaited.
Enable(c) ==
  /\ Calling(c)
  /\ enabled' = TRUE
  /\ Start /\ Waits(c, "enable", TRUE)
  /\ Note("startedWhileStopping", JoinsAStop)
  /\ UNCHANGED <<pending, known, launch, client, runtime, proc, invalid>>

\* updateConfig with enabled false answers first; drainDisabledHelper runs when
\* the response has gone out.
Disable(c) ==
  /\ Calling(c)
  /\ enabled /\ enabled' = FALSE
  /\ call' = [call EXCEPT ![c] = [op |-> "stop", pc |-> "start",
                                  was |-> FALSE, on |-> 0]]
  /\ UNCHANGED <<pending, known, st, owner, attempt, launch, client, runtime,
                 breaker, proc, invalid, started, mishaps>>

\* beginActivation: it remembers whether the helper was wanted before.
BeginActivation(c) ==
  /\ Calling(c)
  /\ Start /\ Waits(c, "activate", enabled \/ pending)
  /\ Note("startedWhileStopping", JoinsAStop)
  /\ UNCHANGED <<service, launch, client, runtime, proc, invalid>>

\* getActivation or cancelActivation ends a pending activation: completed under
\* an enabled host it starts the runtime, else the idle helper is stopped.
EndActivation(c) ==
  /\ Calling(c)
  /\ pending /\ pending' = FALSE
  /\ \E op \in {"stop"} \union {x \in {"enable"} : enabled} :
       call' = [call EXCEPT ![c] = [op |-> op, pc |-> "start",
                                    was |-> enabled, on |-> 0]]
  /\ UNCHANGED <<enabled, known, st, owner, attempt, launch, client, runtime,
                 breaker, proc, invalid, started, mishaps>>

\* diagnostics: ensureIdentityStatus starts a helper only to ask who it is.
Diagnose(c) ==
  /\ Calling(c)
  /\ ~known
  /\ Start /\ Waits(c, "diagnose", enabled)
  /\ UNCHANGED <<service, launch, client, runtime, proc, invalid, mishaps>>

\* reconnect: reconnectRuntime of a ready helper, which starts the runtime when
\* the first start did not.
Reconnect(c) ==
  /\ Calling(c)
  /\ enabled /\ st = "ready" /\ client # 0 /\ proc[client] = "alive"
  /\ running' = TRUE
  /\ UNCHANGED <<service, call, st, owner, attempt, launch, client, desired,
                 breaker, proc, invalid, started, mishaps>>

Close(c) ==
  /\ call[c] = Idle /\ ~closing
  /\ closing' = TRUE
  /\ Stop(c, "close")
  /\ UNCHANGED <<service, attempt, invalid, started, budget, mishaps>>

-----------------------------------------------------------------------------
(* What a call does when the start it awaited has settled.                 *)

Settled(c, op) ==
  /\ call[c].pc = "start" /\ call[c].op = op
  /\ call[c].on = 0 \/ attempt.on # call[c].on
  /\ UNCHANGED <<enabled, known, closing, attempt, invalid, started, ops>>

Ready == ~closing /\ st = "ready" /\ client # 0
Answers == Ready /\ proc[client] = "alive"

\* startRuntime: the wish is kept even when the helper is not there to hear it.
StartRuntime(c) ==
  /\ Settled(c, "enable")
  /\ desired' = TRUE
  /\ call' = [call EXCEPT ![c] = Idle]
  /\ \/ /\ running' = (running \/ Answers)
        /\ UNCHANGED <<faults, mishaps>>
     \/ /\ Answers /\ faults < MaxFaults /\ faults' = faults + 1
        /\ Note("runtimeRefused", TRUE)
        /\ UNCHANGED running
  /\ UNCHANGED <<pending, st, owner, launch, client, breaker, proc>>

\* The helper takes the activation, or a helper nobody wanted is stopped again.
ActivationAsked(c) ==
  /\ Settled(c, "activate")
  /\ \/ /\ Answers /\ pending' = TRUE
        /\ call' = [call EXCEPT ![c] = Idle]
        /\ UNCHANGED <<faults, st, owner, launch, client, runtime, breaker,
                       proc, mishaps>>
     \/ /\ IF Answers THEN faults < MaxFaults /\ faults' = faults + 1
                      ELSE UNCHANGED faults
        /\ IF call[c].was \/ closing
           THEN /\ call' = [call EXCEPT ![c] = Idle]
                /\ UNCHANGED <<st, owner, launch, client, runtime, breaker,
                               proc, mishaps>>
           ELSE /\ Stop(c, "stop")
                /\ Note("stoppedWhileEnabled", enabled)
        /\ UNCHANGED pending

\* diagnostics and the ends of an activation or of remote access: the helper
\* is stopped when it is not wanted, as far as the call knows.
StopIfIdle(c) ==
  /\ \/ Settled(c, "diagnose")
     \/ Settled(c, "stop")
  /\ LET wanted == IF call[c].op = "diagnose" THEN call[c].was ELSE enabled
     IN IF wanted \/ pending \/ closing
        THEN /\ call' = [call EXCEPT ![c] = Idle]
             /\ UNCHANGED <<st, owner, launch, client, runtime, breaker, proc,
                            mishaps>>
        ELSE /\ Stop(c, "stop")
             /\ Note("stoppedWhileEnabled", enabled)
  /\ UNCHANGED <<pending, faults>>

\* The end of stop and close: the helper has exited, or was killed after the
\* drain, and the snapshot is the initial one whatever happened meanwhile.
Drained(c) ==
  /\ call[c].pc = "drain" /\ proc[call[c].on] = "gone"
  /\ call' = [call EXCEPT ![c] = Idle]
  /\ st' = "disabled"
  /\ Note("endedLate", attempt # NoAttempt \/ client # 0 \/ timer # "none")
  /\ UNCHANGED <<service, closing, owner, attempt, launch, client, runtime,
                 breaker, proc, invalid, started, budget>>

-----------------------------------------------------------------------------
\* The host boots disabled, or enabled with its first start under way.
Init ==
  /\ enabled \in BOOLEAN
  /\ pending = FALSE /\ known = FALSE /\ closing = FALSE
  /\ LET first == [on |-> 1, pc |-> "resolving"]
     IN IF enabled
        THEN /\ attempt = first /\ owner = 1 /\ started = 1 /\ st = "starting"
             /\ \E c \in Calls :
                  call = [x \in Calls |->
                           IF x = c THEN [op |-> "enable", pc |-> "start",
                                          was |-> TRUE, on |-> 1]
                           ELSE Idle]
        ELSE /\ attempt = NoAttempt /\ owner = 0 /\ started = 0
             /\ st = "disabled" /\ call = [x \in Calls |-> Idle]
  /\ launch = 0 /\ client = 0 /\ invalid = 0
  /\ desired = FALSE /\ running = FALSE
  /\ timer = "none" /\ failures = 0 /\ circuit = FALSE
  /\ proc = [h \in Launches |-> "none"]
  /\ ops = 0 /\ faults = 0 /\ mishaps = {}

Supervise ==
  \/ Spawn \/ Authenticated \/ LaunchFault \/ LaunchGone
  \/ OnUnexpectedExit \/ InvalidStatus \/ InvalidDrained
  \/ TimerFires \/ WindowPasses
  \/ \E h \in Launches : Exit(h) \/ HelperFault(h)

Serve(c) ==
  \/ Enable(c) \/ Disable(c) \/ BeginActivation(c) \/ EndActivation(c)
  \/ Diagnose(c) \/ Reconnect(c) \/ Close(c)
  \/ StartRuntime(c) \/ ActivationAsked(c) \/ StopIfIdle(c) \/ Drained(c)

Next == Supervise \/ \E c \in Calls : Serve(c)

Spec == Init /\ [][Next]_vars

\* The event loop runs every continuation and every timer; a helper that was
\* told to go exits or is killed; a launch settles within its deadline.
Fairness ==
  /\ WF_vars(Spawn) /\ WF_vars(Authenticated) /\ WF_vars(LaunchGone)
  /\ WF_vars(OnUnexpectedExit) /\ WF_vars(InvalidDrained)
  /\ WF_vars(TimerFires)
  /\ \A h \in Launches : WF_vars(Exit(h))
  /\ \A c \in Calls : /\ WF_vars(StartRuntime(c)) /\ WF_vars(ActivationAsked(c))
                      /\ WF_vars(StopIfIdle(c)) /\ WF_vars(Drained(c))

FairSpec == Spec /\ Fairness

-----------------------------------------------------------------------------
(* Properties.                                                             *)

\* One helper over the identity lock: whatever the order of starts, timers,
\* failures and stops, two launches are never both kept, unless the end of an
\* earlier stop hid a helper that is up (endedLate).
OneHelper == "endedLate" \in mishaps \/ Cardinality(Alive) <= 1

\* A supervisor that says it is off, with no call, attempt or drain under way,
\* has no helper left running.
OffRunsNothing ==
  ("endedLate" \notin mishaps /\ st = "disabled" /\ attempt = NoAttempt
     /\ ~Stopping)
  => Alive = {} /\ timer = "none"

\* It never waits for nothing: "starting" has its attempt, "degraded" a timer
\* or an attempt that will settle it, and "ready" a client or the drain or exit
\* that is taking it away (endedLate apart).
NeverStranded ==
  "endedLate" \notin mishaps =>
  /\ st = "starting" => attempt # NoAttempt \/ Stopping
  /\ st = "degraded" /\ ~closing
       => timer # "none" \/ attempt # NoAttempt \/ Stopping
  /\ st = "ready" => client # 0 \/ Stopping

\* An open circuit goes back to the fast restarts only through a launch that
\* authenticates or an explicit stop, however many recoveries fail.
OpenCircuitStaysSlow ==
  circuit => timer # "fast"

\* Enabled remote access comes up, through failed launches, crashes and the
\* slow recovery, unless it is turned off or the calls crossed in one of the
\* ways the service does not handle.
EnabledComesUp ==
  enabled ~> (st = "ready" /\ running) \/ ~enabled \/ closing \/ mishaps # {}

\* The same without the excuse: a stop that crosses an enabling call leaves the
\* host enabled with no helper and no retry.
EnabledAlwaysComesUp ==
  enabled ~> (st = "ready" /\ running) \/ ~enabled \/ closing

\* One helper at a time, and none left over: an overtaken attempt or a stopped
\* launch leaves no process that nobody will stop.
HelperIsOwned == TypeOK /\ OneHelper /\ OffRunsNothing

\* A supervisor without a ready helper has an attempt or a timer on its way, and
\* the timer of an open circuit is the slow one.
RecoversAtItsPace == NeverStranded /\ OpenCircuitStaysSlow
=============================================================================
