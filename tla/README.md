# A verification of discord-waifus

TLA+ models of the program in `src/`, the TLC configurations that check them on small
instances, and proofs that TLAPS checks. Paths below are under
`src/src/` unless they start with `docs/`.

Discord Waifus runs a cast of characters ("waifus"), each with her own Discord account
and one continuous *life*: an append-only log that a language model is called on
whenever something wakes her. The program is one Node process (the *host*) with files
for a database. Nothing in it is transactional but the replacement of one file, so most
of what can go wrong is a step of one component between two awaits of another, or a
crash between two file writes. That is what the models are about.

Contents: [the system](#the-system), [the modules](#the-modules), [the runs](#the-runs),
[the proofs](#the-proofs), [disagreements](#disagreements),
[not modelled](#what-is-not-modelled), [plan](#plan), [how to run](#running-the-checks).

## The system

| component | its state | its operations | hard behaviour |
|---|---|---|---|
| **intake** (`life/intake.ts`, `intakeMarks.ts`, `intakeHold.ts`) | per place: taken messages, bursts and their timers, holds, the high-water mark; on disk: marks and the pause start | take a message, hold and join it to a burst, fire the burst, ask the detector, route, mark | a mark that passes a message nobody routed; live delivery against catch-up; pauses; failed routes |
| **living cast** (`life/livingCast.ts`) | the lives, pause times, the queue of forgets | boot, pause, resume, catch up, forget, stop | what is in flight when a pause or a resume comes; order at boot |
| **wake router** (`life/wakeRouter.ts`, `budget.ts`, `unanswered.ts`) | limits per user, per DM and per room | drop, defer, count as "+N more", or admit a wake | limits checked before an await and recorded after it |
| **wake queue** (`life/wakeQueue.ts`) | `wakes.json`: immediate wakes, the deferred batch, the quiet lines | add (joining at the limit), defer, take, put back, scrub | joins into an entry a turn has read; a batch that grows while it is built |
| **scheduler, wakeups** (`life/scheduler.ts`, `life/wakeups/`) | timers; per waifu her file of wakeups and the app's side file (what fired, what is held back) | fire, count on, remove, hold back, end a watch, release the batch, rest, dream | routed, then marked, then removed: crashes, edits and messages in between |
| **wake loop** (`life/lifeLoop.ts`) | `state.json`: status, open turn, failed turn; in memory the cycle, timers, the abort signal | poke, cycle, turn, fold, caps, compaction, follow-up, interrupt | an abort, a crash or an arrival at every await |
| **boot repair** (`life/repair.ts`) | reads the open turn a crash left | close the log, put the wakes back, clear the turn | runs while Discord events already arrive |
| **epochs** (`life/compaction.ts`, `lifeStore.ts`, `dream.ts`) | the life log of an epoch, its summary | summarise, rewrite the log, raise the epoch | log and state are two files; a summary that fails; deletions meanwhile |
| **forget** (`life/forget.ts`, `archiveScrub.ts`, `orchestration/dm/`) | the queue of scrubs | remove a person from every file, summarise again without them, run again what failed | an open turn holds what is scrubbed; failures half-way; a second request while one runs |
| **tools, home, sandbox** (`life/tools/`, `home/`, `sandbox/`, `bash/`) | her files, a change-set journal, send records | run the model's calls | a send that may have happened |
| **instance lock** (`storage/instanceLock.ts`) | `app/host.lock` | acquire, break a dead holder's, release, clear | several starters, crashes between file operations |
| **storage** (`storage/`) | JSON files, key locks | replace a file | |
| **operation ledger** (`storage/operationStore.ts`, `auditStore.ts`, `api/mutations.ts`) | receipts of unsafe requests, the audit file | reserve, audit, run, complete, abandon, mark unknown | a client that leaves, a process that dies, a write that fails between the effect and its record |
| **updates while idle** (`backend/updates/`) | leases of roles, a journal, the package | prepare, stop, install, roll back, restart, recover | a worker that dies; work that starts while it looks |
| **remote helper** (`remote/helperSupervisor.ts`, `backend/remoteAccess/`) | the helper process, its generation, restart timer and circuit | launch, authenticate, restart, drain, stop | exits, timers, launches and HTTP requests that race |
| **helper connection** (`remote/helperClient.ts`, `shared/wipcState.ts`) | per stream: two bodies, credit, a chain of writes | start, pump, grant, cancel, end, remove | frames of two directions that cross; consumers that leave |
| **API, CLI, frontend, models, Discord adapter, migrations** | | | the environment of the above, or presentation |

How they interact: Discord events call intake; intake asks the detector (a model) and
the router; the router writes the queue and *pokes* the life; the life's cycle takes the
life lock and a turn slot, reads the queue, records the turn, takes the wakes and calls
the model, whose tool calls send messages; these come back through intake as cast
messages and may wake others. The owner (dashboard, CLI, Discord commands) pauses,
resumes, forgets people and stops the process. The scheduler wakes lives by the clock.

What makes each correct, in one line: **intake**: the mark covers only what was routed,
so that whatever happens the next catch-up finds the rest; **queue**: a wake waits in
one place until a turn took it; **wake loop**: every admitted wake is answered once,
whatever crash, pause, error or limit comes; **forget**: what is removed does not come
back, and nothing else is lost with it; **wakeups**: what is due is heard, once; **lock**: one
host; **updates**: nobody runs while files are replaced, and whoever was stopped is started
again; **ledger**: one effect for a key, and its answer; **helper**: one process, up while
remote access is enabled, its streams whole and never stuck.

## The modules

| module | models | lines of its source |
|---|---|---|
| `WakeDelivery` | the abstract promise: a wake waits, is held by one turn, is settled with that turn or given back | |
| `WakeLife` | one life, boot repair, forget and pause around it | `life/lifeLoop.ts`, `repair.ts`, parts of `livingCast.ts`, `sync.ts`, `scheduler.ts`, `wakeRouter.ts` |
| `WakeLife_proofs` | the inductive invariant and the theorems | |
| `WakeQueue` | `wakes.json` with joined entries, the batch and the limit | `life/wakeQueue.ts`, the router's and scheduler's uses of it |
| `Intake` | one room, from the gateway to the router, with pause, resume and catch-up | `life/intake.ts`, `intakeMarks.ts`, parts of `livingCast.ts` |
| `InstanceLock` | the lock file, one file operation per step | `storage/instanceLock.ts` |
| `IdleUpdate` | the update worker, two roles and their gates | `backend/updates/*.ts` |
| `Wakeups` | her wakeups, the scheduler's tick over them and the messages that match | `life/wakeups/*.ts`, `life/scheduler.ts`, the router's dedupe |
| `LifeMemory` | logs, summary and notes of one life: compaction, reset, scrub, the queue of scrubs | `life/compaction.ts`, `life/forget.ts`, `orchestration/dm/forgotten.ts`, parts of `livingCast.ts`, `intake.ts` |
| `SendRecovery` | a send script: its intents, Discord's answers, the result she reads, or the one boot repair makes | `life/tools/messages.ts`, `life/sandbox/toolScript.ts`, `life/repair.ts`, parts of `lifeLoop.ts` |
| `OperationLedger` | receipts and audit of unsafe requests | `storage/operationStore.ts`, `storage/auditStore.ts`, `api/mutations.ts` |
| `HelperSupervisor` | the supervised helper process and the service calls over it | `remote/helperSupervisor.ts`, `backend/remoteAccess/remoteAccessService.ts` |
| `WipcState` | a stream as one end follows it, frame by frame | `shared/wipcState.ts` |
| `WipcStream` | a stream of either kind between the node and its helper, with a `WipcState` at each end | `remote/helperClient.ts` |
| `Intake_proofs`, `WakeQueue_proofs`, `LifeMemory_proofs`, `OperationLedger_proofs` | an inductive invariant and theorems each | |
| `SendsAndWakeups_proofs` | the same for `SendRecovery` and for `Wakeups` | |
| `Installation_proofs` | the same for `IdleUpdate` and for `InstanceLock` | |
| `RemoteHelper_proofs` | the same for `HelperSupervisor` and for `WipcStream` | |
| `MC…` | constants of the small instances | |

The modules meet at named interfaces rather than in one product: `Intake` ends where
`WakeRouter.route` decides (`woken`), `WakeQueue` starts there and ends where a turn takes
entries, and `WakeLife` has one message per wake, admitted below the limit, and the turn's
whole life. `WakeLife` is joined to its promise by refinement (`ImplementsDelivery`).
What crosses an interface is small: a wake with an identity. `Wakeups` ends at the same
interface from the scheduler's side (its queue is the set of the wakes in it); `LifeMemory`
is what a turn of `WakeLife` reads and leaves, and shares its life lock; `SendRecovery` is one tool
call of such a turn, and one open call of its boot repair. `WipcStream`
composes two copies of `WipcState`, which it EXTENDS, over two wires.

### WakeLife

`pc` is where `Life.runCycle` / `oneTurn` stands; every value of it is an await of the code
at which anything else may run. `run` is `this.run.wakes`; `inTurn` and `turnWakes` are
`state.status` and `state.currentTurn.wakes` on disk; `immediate` and `deferred` are
`wakes.json`; `timer`, `retry`, `followTimer` and `rerun` are the life's timers and its flag;
`repair` walks through `LivingCast.start` and the `repairLife` in it, `owner` through `LivingCast.runForget`.
Wakes arrive from the moment the process is up, also while boot repairs her life.

| code | actions |
|---|---|
| `poke`, timers | `Poke`, `RetryFires`, `FollowUpFires`, `StartCycle` |
| `runCycle`: lock, slot, the loop of turns | `TakeLock`, `TakeSlot`, `EndCycle`, `Outcome` |
| `oneTurn` up to the first round | `NothingToDo`, `WaitForProvider`, `BudgetSpent`, `CheckTurn`, `PrepareAborted`, `StartRest`, `PeekQueue`, `RecordTurn`, `TakeWakes`, `ShowNotifications` |
| rounds | `Answer`, `Nudge`, `CallTools`, `Overflow`, `CallFails`, `ToolsInterrupted`, `Capped`, `RoundAborted`, `PeekFold`, `RecordFold`, `TakeFold`, `ShowFold` |
| ends of a turn | `FinishTurn`, `RequeueInterrupted`, `FailIntoCooldown`, `FailWithFollowUp`, `Regain`, `EndRest`, `TurnThrows` |
| owner and environment | `Arrive`, `ArriveOverBudget`, `ReleaseDeferred`, `Pause`, `Resume`, `PrepareForget`, `AbortForForget`, `LockForForget`, `ScrubQueue`, `ForgetDone`, `Sealed`, `Crash` |
| boot | `Boot`, `RepairRead`, `RepairRequeue`, `RepairIdle`, `RepairThrows`, `BootArm`, `BootScrub`, `BootResume` |

History variables (`admitted`, `answered`, `forgotten`, `dropped`, `crashLost`, `heard`, `owed`,
`threw`, `missed`, `leftOpen`, `overtook`) record what happened and guard nothing.
Left out: what the model says and its tools do (a round either answers, calls tools, fails
or overflows), the quiet trigger of a rest, the summary calls before a cycle, failing scrubs
of other files, pending scrubs that cannot be read at boot (`livingCast.ts:297-300`: they wait for the night), a graceful stop (for the files it is a `Crash` at a convenient moment).

### WakeQueue

An entry has an identity, a place and a set of messages, because at `MAX_IMMEDIATE_WAKES`
(200) a wake joins an entry of its place, and the deferred wakes of a spent day become one.
Each write of `wakes.json` is one step: `updateLifeFile` holds the file's lock for
read-modify-write. `routing` is where the router is with each message, `peek` what a turn
has read and not yet removed, `batch` what the scheduler has read and not yet removed.
Left out: the cap of 50 messages per entry, wakes held by an older version, an empty batch
and a forget's scrub.

### Intake

One room. Messages are numbered in the order of their ids, which is their order in time,
so a point in time is the number of the last message before it. `seen`, `held`, `routed`,
`burst`, `castBurst` and `mark` are fields of `Intake`; `phase` is what a message's handler
waits for; `catchUp[c]` is one call of `catchUpAndResume`: at boot or after a resume. Left out
by assumption: the boot window is longer than any downtime and a page holds every message
of the room. A page that cannot be read counts as a race: the pause start is cleared all the same. Any schedule may happen; `raced` is a history variable that says that one of the
schedules the code does not handle came (each is named where it is set), so the properties
say what the mark and the pause start guarantee otherwise, and the disagreements below what a
race does to that. DM places, staggered wakes of several waifus, an empty cast and the pause
of one server are not modelled.

### InstanceLock

Files are named by the process that created them: the path names one of them, a breaker has
renamed another *aside*. Every file operation is a step. `pid` says what became of a dead
process's pid: free, in use by a process whose start time tells it apart, or in use by one
whose start time cannot be read. Left out: `ps` and its rounding, I/O errors other than
`ENOENT` and `EEXIST`.

### IdleUpdate

Roles (host, gateway) register a lease, work, are sealed and stopped; one worker at a time
prepares, stops, installs, rolls back and restarts, with its journal on disk; a worker that
dies leaves the journal to the next, which a registered role launches. A role registers on whatever
`package.json` names the version it was built of, so also on a package that is half replaced; `npm` may
outlive its worker (`orphan`); an accepted stop or a start may lose its answer (`MaxLost`). Ghosts: `torn` (a
worker died or gave up in the middle of a replacement), `mistaken` (a recovery took a role that still shuts
down for one that runs). Left out: staging,
registry checks and back-off, the quiet window, disabled and locked roles, pid reuse.

### Wakeups

One wakeup of each kind: a reminder, a repeating time, a watch that fires once and ends, a
repeating watch with its spacing and cap. `file` is hers, the side file is the app's; each
rewrite holds her home lock and is one step (`finish`, `removeFired`, a write of hers), and `tick`
and `msg[m]` keep what the tick and a message's handler read before. A wake is `<<kind, wakeup,
n>>`; the router's dedupe looks at the set of the wakes that wait. A wake that is routed while the
app is paused, or whose waifu has no bot, is dropped by the router although its wakeup is marked
or removed (`dropped`). Ghosts say which crossing came: `again` (a wake routed before the tick
could record it, which `schedule.ts:2-6` counts on being in the queue still; once a turn took it, it
rings again), `crossed` (a message handled while the tick routed what it changes). A message whose
handling a crash cuts off is taken again (`cutOff` keeps the matches that go with it). A message that
came before a watch ended, and is handled after the tick removed it, no longer counts.
A held match whose line is no longer in the transcript is cleared and rings nothing.
Left out: pages and functions with their code and errors, a waifu's own time zone.

### LifeMemory

A *fact* is a message she has read; some are about the person who may be forgotten, some of those
carry the person's name, some may be deleted on Discord. `log`, `next` and `old` are the logs of
the current, the coming and the earlier epochs, `state` is `state.json`, `queue` the person's entry in
`pending-scrubs.json`. `job` holds the life lock and is at one of its awaits.

| code | actions |
|---|---|
| a turn, the notes she keeps, a message deleted | `TakeTurn`, `Read`, `NoteDown`, `ReadNote`, `EndTurn`, `Deleted` |
| `compactEpoch`, `startEpoch` | `CompactNow`, `Prepare`, `Condensed`, `CondenseFails`, `CondenseAborted`, `EpochLog`, `EpochState`, `EpochPrune` |
| `midTurnCompaction`, `selfSummary`, `restTurn` | `MidTurnCompaction`, `Rests` |
| `queuePendingScrub`, `runForget`, `maintain` | `Ask`, `TakeWaiting`, `Maintain` |
| `scrubPerson`, `summaryWithoutPerson` | `ScrubReads`, `ScrubWithoutModel`, `Scrubbed`, `ScrubFails`, `EpochLeft`, `TakeBack`, `ScrubAborted`, `ScrubNotes`, `Verify`, `StartEpochNow`, `DropLogs`, `Clear` |
| `resetLife` | `AskReset`, `Reset` |
| environment | `ModelChanges`, `BackoffEnds`, `Interrupt`, `Throws`, `Crash` |

What a compaction read of her state is `job.seen`: her summary, her log, the turns it may keep (all but
those of rests), what the summary's request leaves out because it is too large (`cut`), and the list of
deletions. In the middle of a turn the turn itself is never among the turns kept. Whether a
summary fits is a free choice, as is the six-hour window of repeated requests (`limited`).
Ghosts name what the properties excuse: `excused` (what a weaker request ended with its own run, and what
her turns carried between notes and memory past a step that was left), `unpruned` (logs whose deletion
failed), `slipped` (deletions an epoch dropped from the list without leaving them out), `rested` (what
rest turns read), `revived` (a scrub came between a reset and its epoch), `torn` (a failed scrub was not taken back).
The scrub of the queue of wakes is in `WakeLife` and `WakeQueue`. `resetLife` reads her model before
it waits for the lock; the model reads it at the lock. Left out: summaries switched off, epochs retired by a
change of tools, the very first epoch, images, the limit of compactions in one cycle (and the turn a second
one in the middle of a turn drops), a log deleted in part. A further turn of one cycle is here a turn that takes the lock anew. Of
logs of earlier epochs and of notes only what is about the person is kept track of.

### SendRecovery

A script calls `tools.send_message` one call after the other; `Plan` gives each call its lines, and
a line's number stands for its message and its Discord id (0 is a message she sent just before).
`text` and `place` are what the lines say and where the calls send, `discord` what Discord has taken.
`intents` is `intents.jsonl`: the plans of calls, the digests of messages tried, the done lines of
messages (`booked`) and of calls. `tool` is where the tool call stands, from its own intent to the
log; `call`, `at` and `step` are the call under way, its next line and how far that line's send is.
`told` is what the result says of each line: a receipt's, or what repair makes of the intents and of
the messages it finds. Ghosts name what went wrong: Discord's call failed after it took the
message (`lost`), a done line could not be written (`unbooked`), the grace of a stopped script ended
with its call still running (`adrift`).

| code | actions |
|---|---|
| `sendMessageCall`, `runSend` | `BeginCall`, `CallRefused`, `Try`, `TryFails`, `DiscordTakes`, `DiscordFails`, `Book`, `Stop`, `EndCall`, `CallThrows` |
| the script, its tool call and the round | `Begin`, `Abort`, `ScriptEnds`, `GraceEnds`, `ToolDone`, `Log` |
| `recoverSendCalls`, `recoverScript` | `Crash`, `Repair` |

Left out: what may be said and where (a refused call), reactions, waits and typing except as the
moments at which a call stops or throws, an intent of the tool call itself that cannot be written (the
turn throws), more than 500 messages since, intents of older versions, the other tools.

### OperationLedger

`pc[r]` is where the hooks of request `r` stand (reserve, audit, handle, audit the outcome,
complete), `abort[r]` where its abort hook stands; each step is one write under its lock and
may fail. `Normalized` is the ledger as the next reader sees it (expired receipts gone, prepared
receipts nobody works on unknown). A request takes less time than a receipt is kept (guard of `Tick`).
A refused execution (409) is one step, its ledger write and its audit together, as nothing between them reads
either. Left out: the separate audit of requests rejected before a receipt, the handler itself, and the audit
store's own eviction (`auditStore.ts:74-82`, `112-117`): it keeps records 90 days, a receipt lasts 30, so only its caps
of number and bytes could drop the record of a receipt that is still kept.

### HelperSupervisor

A launch is a number and the supervisor's generation is the launch it belongs to. `call[c]` is an
HTTP request of the service at one of its awaits; two may be under way. `mishaps` names the orders
of calls the service does not handle. The helper is external: it authenticates, fails, exits or
hangs until it is killed.

### WipcState and WipcStream

`Receive(s, f)` of `WipcState` is the state machine both ends run on every frame. In `WipcStream` the
node is the code of `helperClient.ts`: `pump` is where the outgoing body's loop stands, `tail` the
chain of promises that writes the incoming body. The helper is not in the repository: it sends
what its own copy allows. Left out: the 129th stream, framing, frames read before the `START`
is flushed. The node's own frames that its copy refuses count in `NothingRefused` as well.

## The runs

Each passing run has between a few thousand and some five million distinct states and finishes
within three minutes.

| run | instance | what it shows |
|---|---|---|
| `life_safety` | two wakes (one the owner's nudge, one of a person to forget), arriving at any time, two disturbances (a repair that throws among them), up to two rounds a turn and eight turns a cycle | no wake is lost, answered twice, left without a poke or brought back after a forget; a turn's record is exact at every await; the life implements `WakeDelivery` |
| `life_liveness` | one wake, three disturbances, fairness | an admitted wake is served and a queued forget carried out |
| `life_forgets` | one fact about the person, whose message may be deleted, and one about others; a request, a fault and, if no message is deleted, changes of the model; compactions between turns and in the middle of one, rests, resets | what a forget was asked for is done before it leaves the queue, a reset leaves nothing, a deletion that was listed when an epoch's job read her state is left out or still listed, nothing else is lost |
| `queue` | four messages of two rooms, limit 2, one spent day, one crash | no message vanishes or waits twice, also when entries are joined; the "+N more" line loses no count |
| `intake` | two messages; two of a pause, a restart, a race or a failing call (a page that cannot be read among them); fairness | live delivery and catch-up never route a message twice; the mark covers only what was routed, the pause start stays until its gap is taken, every message is heard |
| `wakeups` | a reminder with a repeating time, an ending watch, a repeating one or both against two messages; crashes between two files, edits, stale copies, pauses, failed ticks; fairness | what is recorded is out, nothing rings twice, a due reminder is heard; a once watch fires for one message, whose wake is not lost, a repeating one keeps its spacing |
| `sends` | two calls with three messages, two texts, two places; two of a Discord error, a failed write and a throw; an abort, a crash | what she is told was not sent is not on Discord, what she is told was sent is |
| `lock_starters` | four processes, all at a time if they like, dying anywhere | one host, whose lock stays at the path; nothing a crash leaves keeps the next starter out without cause |
| `update_while_idle` | two roles, one update; a fault, a lost answer, a slow exit, a dead worker (its `npm` may live on) and an owner's stop, one each; fairness | nobody runs another version than the one installed, only idle roles are stopped, stopped roles come back |
| `remote_helper` | two service calls at a time, faults of helper and launch; fairness | one helper, none when remote access is off, one while it is on; an open circuit only tries slowly |
| `helper_stream` | one stream of either kind, two chunks a body against a credit of one; fairness | neither end refuses a frame, credit is conserved, a body that ends is whole, nobody waits forever |
| `operations` | three requests over two keys and two bodies; two failed writes, a crash, a client that leaves, receipts that expire | one effect for a receipt, the answer of the same request, ledger and audit agree |

A property of a run is in some modules the conjunction of the named parts below (and of the type
invariant where the module has one); each part has its own comment in the module and can be put in a
configuration by itself.

| property | parts |
|---|---|
| `ForgetIsRespected` | `ForgottenStaysGone`, `BootForgetPrecedesTurns` |
| `LockIsInPlace` | `HostKeepsItsLock` |
| `WokenOnce` | `NoSecondWake` |
| `QueueIsOrderly` | `WaitsOnce`, `OverflowIsOnePerPlace` |
| `RolesRunSafely` | `RunsWhatIsInstalled`, `StopsOnlyIdleRoles` |
| `HelperIsOwned`, `RecoversAtItsPace` | `OneHelper`, `OffRunsNothing`; `NeverStranded`, `OpenCircuitStaysSlow` |
| `RingsOnce`, `WatchesFire` | `RecordedIsOut`, `RemovedIsRecorded`, `HeardOnce`; `OnceFiresOnce`, `MatchIsOut`, `EndOrMatch`, `RepeatSpaced` |
| `NothingIsLost`, `ExchangeEnds` | `CreditConserved`, `NothingMissing`; `CallerHears`, `BodyEnds`, `PumpGoesOn`, `SlotIsFreed` |
| `ResentIsTheSame`, `RecordsAgree`, `ReceiptsAreKept` | `OneEffectPerReceipt`, `AnswerIsOfTheSameRequest`; `AnsweredIsRecorded`, `SettledIsAudited`, `PreparedIsInFlight`; `SettledStaysSettled`, `OnlyExpiredIsForgotten` |
| `ForgottenIsGone` | `AskedIsDone`, `ResetLeavesNothing` |
| `ToldAsItIs` | `SentIsNotDenied` |

**Why the bounds are enough.** In `WakeLife` a behaviour needs two wakes to be interesting (one
a turn holds, one that arrives meanwhile: a fold, a requeue in front, a forget of one of the
two), and a third adds only symmetric cases. Two disturbances give every pair: a crash after an
abort, a pause inside a forget, an error after a cooldown. Eight turns is the code's own
limit (`runCycle`), and two rounds reach the cap and the fold after tools. The proofs remove these
bounds for safety. In `WakeQueue` three messages show a batch that grows while it is built
and four show a join behind a join at a limit of 2 (200 in the code; the code depends on it
only by comparison). A second message in `Intake` is what an early message can be
overtaken by. For the lock, a judged record, the breaker and the starter whose fresh lock is
moved need two alive at a time and one that died; a third that finds the path free is the disagreement, a
fourth shows nothing new. For the
updates two roles are the two kinds the program has; `MaxLaunches` 4 is a start, a restart,
a failed restart and the owner's. `Wakeups` has one wakeup of each kind because they meet only in
the file; two messages are what a watch can confuse, and the start with both watches has no upset (with
one TLC needs more than the five minutes of a run; the proof has no such bound). `LifeMemory` has a fact of each kind it treats
differently, and its constraint `TwoUpsets` lets the model change twice (go and come back, what a
reset that waits needs), once beside a fault, or a message be deleted beside one (`LifeMemory_live` and the configurations of the disagreements use other
combinations) and one turn a new epoch keeps, so a second is summarised. In `SendRecovery` a message can be
mistaken for one of the same call, of the other call or of just before, in the same place or another:
that takes two calls, one of two lines, and the message 0; two faults are a done line that
fails and a Discord error behind it. For a stream a credit of one
and two chunks make the second chunk wait; in a ledger with room for one receipt the second key
meets the limit and the third request is a retry.

**No constant keeps an order of the code out.** The schedules in which a property does not hold are in the
instances, and a history variable that the property names says that one of them came; the same property
without that premise is a row of the table of disagreements.

**Fairness.** Weak fairness, and only of what the process does by itself.
`WakeLife!Fairness`: a promise that is ready is run (`Cycle`, `Forget`, `Repair`), timers fire, a
model call ends (each has a timeout, so a cycle always has a next step), the scheduler's tick
comes and a process that went down is booted again. Nothing says that the owner resumes:
`WakesServed` is conditional on `<>[]~paused`. `Intake!Fairness`: deliveries and handlers go on,
bursts fire (their timers are bounded), the host boots again and the owner ends a pause; the
last two are stated because `EveryMessageIsHeard` is about what happens then.
`IdleUpdate!FairSpec`: the worker's own calls return or time out, a process told to stop exits,
work ends, and a registered role looks for a worker every 30 seconds; the owner need do
nothing. `AttendedSpec` adds an owner who starts roles again. `HelperSupervisor!Fairness`: a spawn, an
authentication (each has a timeout), the notice of an exit, a drain and a set timer come, and an
awaiting request goes on; no owner acts. `Wakeups!FairSpec`: the tick comes every few seconds, a turn
takes the queue, the batch is released and a process that went down is started.
`WipcStream!StreamFairness`: the event loop runs what is ready, the app and the helper answer, read and grant,
a consumer that stays reads on; nobody need cancel. `LifeMemory!Fairness`: who holds the life lock goes on
(every call of a model has a timeout), who waits is let in, and the night comes again and again
(strong fairness of `Maintain`, which waits in the lock's queue while turns pass).

**Premises inside properties.** The properties of `WakeLife` about her files, and the refinement, hold until a
turn may be left open in her state (`leftOpen`: a cycle began before boot repair was done, whose record repair
clears, repair threw, or the write of `runCycle`'s catch failed); `ForgetIsRespected` excuses a cycle that asked
for the lock before boot queued the scrub (`overtook`); `QueuedWakesArePoked` also a life whose last turn threw and
one a resume met while the aborted turn was ending. `StoppedRoleIsNotForgotten` excuses a role taken for one
that runs (`mistaken`), `RunsWhatIsInstalled` the version on a package left `torn`; `StoppedRolesComeBack` is excused
after a dead worker, a slow exit or a lost answer, and when the owner stops the last other role. With a single
registered role a failed restart has nobody to launch the next worker: the runs have two. `MarkCoversRouted`,
`GapIsRemembered` and `EveryMessageIsHeard` excuse a schedule with a race or a failing call (`raced`);
`NoMessageVanishes` a message that joined an entry a turn had read (`late`), and `WaitsOnce` what follows
once a wake given back has joined another's entry (`joined`); `OneHost` and `HostKeepsItsLock` what a starter
left that died with a torn record or a lock aside (`mislaid`), and a path taken while a living process's lock is aside
(`usurped`); `RefusedForAReason` a starter whose
`MaxAttempts` attempts each met a lock others created and left meanwhile; `HeardOnce`, `EndOrMatch` and
`RepeatSpaced` what `again` and `crossed` name (for a held match also a write of hers while the tick
routes it), and `HeardOnce` a held match whose message a crash cut off (`cutOff`); `EnabledComesUp` the orders in `mishaps`; `SlotIsFreed`
a cancellation that met a finished response (`crossed`) or came before an answer that was then dropped
(`dropped`); `PreparedIsInFlight` a receipt whose last write
failed; `AskedIsDone` what is in `excused` and `unpruned`, `MemoryIsKept` a step in `torn`, what was `cut` and what a rest
turn read, `DeletedIsLeftOut` and `ResetLeavesNothing` the schedules in `slipped` and
`revived`; `SentIsNotDenied` those in `lost`, `unbooked` and `adrift`, and `ClaimedIsSent` a message
that says the same in the same place. Each excuse but the last is a history variable set by the
action that meets the schedule, and each is a row of the disagreements or a limit the code states.

Each property has a mutant: a plausible slip in a mapped definition, written before it in
the module with a comment that starts with "Mutant", under which TLC finds the property violated.

## The proofs

Each module of proofs holds the theorems of one component, for every value of its constants. TLC
checked each inductive invariant on the run's instance before it was proved.

### WakeLife

`WakeLife_proofs` proves, for **any** set of wakes arriving at any time, any `MaxTurns`, `MaxRounds` and
`MaxFaults`, and under `LifeAssumption` (the constants' types) alone:

| theorem | of `Spec` |
|---|---|
| `TypeCorrect` | `[]TypeOK` |
| `NoWakeIsLost` | `[]WakesAccounted` |
| `NoSecondAnswer` | `[]NeverAnsweredTwice` |
| `EveryWakeIsHeard` | `[]NothingEndsUnheard` |
| `TurnIsRecorded` | `[]OpenTurnIsRecorded` |
| `ForgetRespected` | `[]ForgetIsRespected` |
| `QueuedIsPoked` | `[]QueuedWakesArePoked`, for `MaxTurns > 2` |
| `Implementation` | `Delivery!Spec`: every step is a step of `WakeDelivery` or a stutter |

**The argument.** None of the properties is inductive: that a turn's wakes are accounted for
depends on whether the record on disk, the copy in memory and the queue agree, which depends
on the control point. `IInv` has two halves. What the process holds, and who has the life lock, is as it should
be in every schedule: `BootIsInOrder`, `LockIsExclusive` (a cycle and a forget never hold it together),
`RunIsHeld` (a turn's wakes are in memory only while it is open or compacts, and what was read for a take is
still queued when the take comes: only the lock's holder removes entries), `ToolsHeard` (a turn that called
tools has shown its wakes) and `BootScrubLeads` (once boot has queued a scrub it owes, no cycle passes it; before that one
may, which is `overtook`). What the files hold, `FilesInv`, stands until a turn is left open: `RecordIsTurn` (the record is exactly the
turn's wakes while it is open, and there is none afterwards), `RepairKnows` (what repair read is what the record
holds), `OnePlace` (a wake is in the queue, in the batch or with the turn), `OnlyAdmitted`,
`AnsweredIsOver`, and the properties themselves. One lemma per part and group of actions shows it preserved;
`Invariance` puts them together; the theorems follow from it. `Implementation` maps the queue and
batch to `waiting`, the record (and a compacting turn's memory) to `held`; each group of actions is
shown to be one of `Admit`, `Take`, `GiveBack`, `Settle`, `Lose`, `Forget` or a stutter.

`QueuedIsPoked` adds `PokeInv`, which has to say why a cycle that nothing will poke again leaves an empty
queue behind. `NothingLeftBehind`: either another cycle is coming (`AnotherCycle`), or one of the property's
exceptions stands (`Excused`), or every wake in the queue is for a turn of this cycle (`TurnPromises`,
`EndPromises`). The last counts turns: only a rest (the first turn) and one overflow's compaction leave
wakes in the queue for a later turn, so the turn that takes them is at most the third (`EarlyTurn`). Hence the assumption
`MaxTurns > 2`; the code has 8, and with two TLC finds a rest and an overflowed turn after which the requeued
wakes wait for nothing. `AbortIsExcused` says that an aborted turn was aborted by a pause or a forget, so that what its
interrupt puts back is poked for by the resume, by the forget, or is one of the exceptions.

### WakeQueue

`NothingVanishes` (`[]NoMessageVanishes`), `Orderliness` (`[]QueueIsOrderly`) and `NoQuietLineIsLost`
(`[]QuietLinesConserved`), for any messages, places and limit, any number of days and crashes, from
`QueueAssumption` alone. The code finds a wake again by its id, whatever the entry holds by then, so the
invariant says what an id stands for: an entry holds at least the messages its id was made of (`AllSound`), an
id is queued once (`IdsAreDistinct`), what a turn read is queued until it takes it, with no message more but the
late ones (`PeekStands`), and a queued entry that a turn has as well holds all the turn has of it
(`TurnCopies`): so removing the one, or not putting back the other, loses nothing. `TurnIsTaken`
and `TurnIsApart` (a turn's wakes wait nowhere but in the entry of their own id) are why giving back adds nothing
twice; the second holds as long as no crash follows a wake that joined another's entry, the premise of
`WaitsOnce`. The list operators are folds, of which the prover knows nothing: `Thins`, `Grows`, `Gathers` and
`Returns` say what leaving out, adding one, adding many and giving back do to a queue, and the lemmas
`Thinning`, `AddGrows`, `Gathering` and `Returning` prove it for every queue, by induction over the length.

### InstanceLock

In `Installation_proofs`, beside those of `IdleUpdate`, which is why this module's specification is named
`LockSpec`, its steps `LockNext` and its type invariant `LockTypeOK`:

| theorem | of `LockSpec` |
|---|---|
| `LockTypes` | `[]LockTypeOK` |
| `OneHostPerDataRoot` | `[]OneHost` |
| `LockStaysInPlace` | `[]LockIsInPlace` |
| `RefusalHasAReason` | `RefusedForAReason` |

For any processes, however many run at a time, and any number of attempts. `OneHost` without the excuse `usurped` is
false as soon as a third starter can find the path free (`InstanceLock_thirdStarter`).

`OneHost` is not inductive, as a starter that is about to create its lock is no host yet. `LockBaseInv` says what
holds whatever was left or given away: who has created no file is named nowhere, a file in a breaker's hands is a
file, a torn record was left by a dead process, and what a breaker judged is a dead one's.
`OneOwner` (no two living processes have a file), `FileInPlace` (the file of a process that lives is at the path or
about to be put back) and `PathIsFree` (while it is away nobody has created another) hold until `mislaid` or
`usurped`; each needs the other two.

### IdleUpdate

In `Installation_proofs`: `RunSafely` (`[]RolesRunSafely`) and `NoRoleIsForgotten` (`[]StoppedRoleIsNotForgotten`), for any finite
set of roles and any bounds, whatever dies, fails or goes unheard. `BaseInv` ties the journal's phase, the package and the worker's step together
(`JournalFollows`, `BreakIsKnown`); `NobodyRuns` says that from the moment a worker has seen every named role gone until it
restarts them nothing runs, which is why `RunsWhatIsInstalled` survives a step that replaces the
package. For the second theorem `TransactionIsNamed` says that the journal names what the transaction stops, and
`OwedIsNamed` that what was stopped is in the journal and, while a worker restarts, among what it will start
or has started; it stands until a recovery takes a role that shuts down for one that runs.

### HelperSupervisor

In `RemoteHelper_proofs`: `OwnedHelper` (`[]HelperIsOwned`) and `RecoversAtPace` (`[]RecoversAtItsPace`), for any finite set of calls,
any failure limit, any number of operations and faults. `OpenCircuitStaysSlow` is inductive; the others
need what `launch`, `client`, `owner` and `attempt` have to do with each other: `ReadyIsSettled` (a ready
supervisor tries nothing, its client is the launch it keeps), `UpIsKept` (a helper that is up is the
client's or the attempt's, and the attempt's launch is the one a stop would take) and `ShowsItsWork` (the
state shown has the attempt, timer or drain behind it). They hold while no stop ended after a later start
(`endedLate`), as do the properties.

### WipcStream

In `RemoteHelper_proofs`, beside those of `HelperSupervisor`, which is why this module's specification is named
`StreamSpec`, its steps `StreamNext` and its type invariant `StreamTypeOK`: `NeverRefuses`
(`[]NothingRefused`) and `NeverLoses` (`[]NothingIsLost`, which is `StreamTypeOK`, `CreditConserved` and
`NothingMissing`), from `EndsFit` (`[]StreamInv`). They hold for any positive credit and buffer and any length of the
bodies, for a stream of either end, from `CreditAssumption` and `StreamAssumption` alone.

That no frame is refused says nothing of what is on the way, so the invariant has to: a frame an end may
write must still be legal when the other end reads it, after whatever crosses it. `Link` relates the initiator's
copy, the responder's and the two wires: what may follow what on a wire (`RequestFrames`,
`ResponseFrames`: no chunk behind an end, no cancellation behind another), where the start is (`Opening`), how far
each direction is at both ends and what of it is not yet read (`RequestOrder`, `ResponseOrder`), and what the
credit is (`RequestBalance`, `ResponseBalance`): the sender's credit, its chunks and the grants on the way never
exceed the receiver's credit, and equal it while the sender takes grants. It is one relation for streams of both kinds: who is the
node and who the helper is said once, in `Linked`. The lemmas `Send…` and `Read…` show, frame by frame, that the writing of one and the
reading of the first keep `Link` (what a first frame leaves of the sums and of the order is said once, in
`FirstOfRequest`, `FirstOfResponse` and `OrderBehind`); `ResponderReads` and `InitiatorReads` conclude that the first frame of a wire is never refused.

`Sane` adds what the node does with the body: what an end took and has not given credit for is what its
copy lacks (`HelperDrained`, `NodeDrained`); the end of a body or the stream's removal is the last link
of the chain and stands for a peer whose body is over (`TailOrder`, `BodyOrder`); every chunk sent is on the wire,
in the chain, in the buffer or read (`Whole`). Those are equalities while the body is open and bounds once it is
destroyed, as a destroyed body gives no credit back. `Pumped` says where the pump may
stand: it writes a request only while that is open, or its source is closed and it will be told. It is apart because the pump's
step is set after the frames are: within a handler `Sane` holds between its parts, `Pumped` at its end. TLC checked
`StreamInv` on the constants of `WipcStream_stream` before the proof. The attempt to prove it met one slip of the model:
an end of a request that a cancelled pump does not send was tested for refusal all the same.

### OperationLedger

`ResentIsSafe` (`[]ResentIsTheSame`), `RecordsNeverDisagree` (`[]RecordsAgree`) and `ReceiptsStay`
(`ReceiptsAreKept`), for any requests, keys, bodies, capacity and lifetimes of receipts, faults and crashes.
The invariant follows a receipt through its request: no trace before it comes (`NoTraceYet`), one owner
(`ReceiptOfItsRequest`, `WorksUnder`), held and unexpired while it is in flight (`OwnReceiptStays`),
prepared and active until its end is written (`OwnReceiptPrepared`), and ended by its handler or by its abort
hook but not by both (`OneEnd`): without the last a mark could overwrite a completion. `AuditLeads` says the
audit is always written before the ledger. `SpentUnderReceipt` carries the one effect: while the receipt of a
handled request is there, nobody else reserves its key. The two action properties follow from the same
invariant: no step rewrites a settled receipt.

### SendRecovery

`SendIsNotDenied` (`[]ToldAsItIs`) and `ClaimIsFounded` (`[]ClaimedIsSent`), for any script (`PlanAssumption`:
its calls' lines are distinct and in order), any texts and places, faults and crashes. What
repair says depends on which lines have a done line, so the invariant relates the journal and Discord:
`CallRuns` and `CallBooks` (what the call under way has sent, tried and booked), `Journal` (planned
before tried, tried before sent, booked after), `InItsOrder` (nothing is sent before the lines before it
are answered), `EndedLists` (a finished call's list is all it sent but what was lost) and `Accounted`
(every message of hers is booked, failed to be, is in flight or was the last of a call adrift). `InItsOrder`
is what makes "the first line without a done line" the only one that may be in doubt; that such a
first line exists is `SmallestOf`, which the module proves for any set of naturals.

### Wakeups

`WakeupRingsOnce` (`[]RingsOnce`) and `WatchFiresInTurn` (`[]WatchesFire`), in the same module, for any
messages, times, period, spacing, cap and number of upsets. `WakeInv` accounts for each wake that is out by
what was recorded or is about to be. For timed wakes that is `TimedAccount`: each is recorded, or was routed by
the tick that will record it (`RoutedNow`), or by one that ended early (`again`), and nothing the tick has still
to route is out; `RemovalAccount` says that a tick removes only what it records, also when she moves the
reminder between its steps. `HeldAccount` does the same for held matches, which no record protects: a match
is held, or has rung, only once its message was handled, and one that rang is held no more or about to be
cleared. `OnceAccount` needs that a message's matches are its own (`OwnWakes`) and that nobody's match is
out before the watch is remembered as fired. `RepeatAccount` says that the rings are the fires of the side
file, but for the one the tick is about to count, and that a held match it has still to ring is at its
spacing: that fails once a message is handled in between, which is why `crossed` is in the property. TLC checked
`WakeInv` on the constants of `Wakeups_all` and on both watches with an upset before the proof; the
second is where it met the held match that rings twice.

### Intake

`MarkCovers` (`[]MarkCoversRouted`), `GapRemembered` (`[]GapIsRemembered`) and `NobodyWakesTwice`
(`[]WokenOnce`), from `IntakeAssumption` alone: any number of messages, pauses, restarts, faults and
upsets. The invariant has two parts, as the properties have. `Standing` holds in every schedule:
a taken message is with its handler or in exactly one burst (`OnePlace`), each hold is there for
one of the two and what still waits for a decision is held (`HoldsStand`), a page is taken oldest
first (`PagesInOrder`), and what was decided waits for nothing but its burst to settle
(`DecidedIsOver`), which is why no message is routed twice. `Calm` holds until the first race or
fault, and is why the mark is right. No single conjunct is inductive: the mark may pass `m` only
because every older message is heard or held (`HeldInOrder`); that lasts only because whatever
is still to be held is newer than all that was (`ComingIsNewer`); a pause breaks it unless nothing
is under way then (`CatchUpIsAlone`), and the page after the pause restores it only if no message is
missing from it (`NothingIsMissed`, `SinceIsHeard`, `GapInPage`). A run of its definitions as
invariants over the constants of `Intake_room.cfg` preceded the proof. The lemmas
`Advancing` and `AdvanceInOrder` say what `AdvanceMark` does to the order, once for every
action that lets go of a hold.

### LifeMemory

`ForgetLeavesNothing` (`[]ForgottenIsGone`), `MemoryKept` (`MemoryIsKept`), `DeletionIsLeftOut`
(`[]DeletedIsLeftOut`) and `ResetIsClean` (`[]ResetLeavesNothing`), for any facts, forgets, failures and
changes of model, from `MemoryAssumption` (the constants' types) alone; what the code does not do is in the properties' excuses.

A job reads, waits for a model and writes, so none of the four is inductive. `Small` says what of a job's
reading still stands when it writes (`ReadStands`: she reads nothing new meanwhile, while deletions and
requests may come), what the texts it starts an epoch from may hold (`EpochStands`) and which steps its run
has left (`RunStands`). On it stand two invariants, as the properties pull in two directions. `MemoryInv` says
that enough is kept: `EpochIsWhole` (a new epoch starts from all she remembers but what was deleted, is
about the person, did not fit the summary's request or, where her turns are only carried over, was read by a rest turn) and
`LogIsSummed` (a log whose epoch is to be dropped is in her summary), and that nothing
returns (`ResetStands`, `DeletedStands`). `ScrubInv` says that enough is gone: `RunHasDone` (what each step
of a run did stays done while the run goes on, in her memory and in every log that could be deleted),
`StepsAreDone` (every step no longer in the queue's entry has been
done for all that is due) and `QueueStands` (only the run of the last request can end it, or a conversation's when
nothing more is due: `RunsQueue`). That an epoch
carries over just the lines that were not deleted is `KeptIs`: `KeptOf` is a fold, and `KeepStages` gives the function
of its stages.

### What is only model-checked

Liveness (`WakesServed`, `ForgetCompletes`, `EveryMessageIsHeard`, `StoppedRolesComeBack`,
`EnabledComesUp`, `DueIsHeard`, `ExchangeEnds`) and anything about ENABLED are beyond this prover, as are
recursive operators and the induction theorems of its library, which take an operator as a parameter. Induction
stated with a set is not: `SetInduction` of `WakeQueue_proofs` follows from the smallest element of a set
of naturals, and the stages of a fold are a function whose values up to `n` are built by it. Every
safety property that a run checks is stated by a theorem.

## Disagreements

Where the code departs from what its documentation, a comment or a test says. The named
configuration, with the `MC` module of the same prefix or, where there is none, the module itself,
makes TLC print the trace.

| configuration, property | code | said | what happens |
|---|---|---|---|
| `WakeLife_departures`, `CrashLosesNoWake` | `lifeLoop.ts:1209` | `docs/behaviour/life-and-turns.md:17-18`: a crash never loses or doubles a wake | a mid-turn compaction clears the open turn first and requeues its wakes last; a crash while the summary is written loses them |
| `WakeLife_departures`, `ResumeRestartsQueuedLives` | `livingCast.ts:534` | `livingCast.ts:444` | a resume looks at the queue before the aborted turn has put its wakes back |
| `WakeLife_departures`, `EveryTurnIsRecorded` | `repair.ts:411-415` | `lifeLoop.ts:1057-1060` | a turn a Discord event starts while boot repair runs has its record cleared |
| `WakeLife_departures`, `BootForgetPrecedesTurns` | `livingCast.ts:284`, `302` | `livingCast.ts:292-293`: the life lock is queued here, ahead of anything | boot arms an overdue follow-up first and queues the scrub only after more awaits; the follow-up's cycle takes the lock before it |
| `WakeLife_followUp`, `FailedTurnKeepsItsFollowUp` | `lifeLoop.ts:1145` | `lifeLoop.ts:1121-1123` | a rest turn that fails is taken for the follow-up of an earlier failed turn |
| `WakeLife_followUp`, `FollowUpIsArmed` | `lifeLoop.ts:1159` | `docs/behaviour/life-and-turns.md:63-66` | the follow-up's timer fires while she is paused; a resume does not arm it again |
| `InstanceLock_thirdStarter`, `OneHostAlways` | `instanceLock.ts:253` | `instanceLock.ts:11`: one ordinary host per data root | a breaker holds a live host's lock aside, a third starter creates its own, and the link back fails |
| `InstanceLock_tornRecord`, `FreshLockIsNotDeleted` | `instanceLock.ts:251` | `instanceLock.ts:239` | two unreadable records compare equal, so a lock just created is taken for the torn one and deleted |
| `Intake_races`, `MarkIsRouted` | `intake.ts:575`, `569`, `326`; `livingCast.ts:497`, `463`, `508` | `intake.ts:166-170`; `livingCast.ts:457-461`, `469-472` | a burst that fires into a pause or fails to be routed is let go and the next mark passes it; so does a later message that overtakes an earlier one's look-up, or the first live message at boot; a page that cannot be read is not read again |
| `WakeQueue_queue` with the premise `m \notin late` of `NoMessageVanishes` removed | `wakeQueue.ts:60-67` | `wakeQueue.ts:289` | at the limit a wake joins an entry a turn has read; the take by id removes it unshown |
| `WakeQueue_queue` with the premise `~joined` of `WaitsOnce` removed | `wakeQueue.ts:92-103` | `wakeQueue.ts:288-289` | a repair that is itself cut short after a requeue joined entries puts their messages back twice |
| `Wakeups_heldForgotten`, `HeldMatchIsKept` | `wakeups/file.ts:481` | `wakeups/file.ts:467`: kept for unchanged wakeups | a write of any wakeup rebuilds the side file without the match a watch's spacing holds back |
| `Wakeups_all` with one upset for the start `{"o", "r"}` and the premise `Match("o", m) \in cutOff` of `HeardOnce` removed | `wakeups/run.ts:318-331`, `intake.ts:401-424` | `wakeups/schedule.ts:96`: deterministic id: once | a message fires the once watch and is held for the repeating one; the tick rings it, the process stops before the match is routed, the catch-up handles the message again and it is held and rung again |
| `IdleUpdate_departures`, `JournalIsResolved` | `backend/updates/worker.ts:70` | `worker.ts:67,205`; `docs/behaviour/owner-controls.md:94-96` | a recovery that finds a role busy gives up; nobody can launch the next worker |
| `IdleUpdate_departures`, `NobodyRunsBroken` | `control.ts:254-256` | `worker.ts:67`: an unverified package is restored before any launch | a role the owner starts compares only the version in `package.json` and runs on a package a dead worker, or its `npm`, left half replaced |
| `IdleUpdate_departures`, `StoppedIsNeverForgotten` | `control.ts:272`, `runner.ts:149`, `worker.ts:86` | `docs/behaviour/owner-controls.md:83-85` | the answer of an accepted stop is lost, the role is not noted, and recovery takes it, still shutting down, for one that runs; it is not started again |
| `HelperSupervisor_host` with `EnabledAlwaysComesUp` for `EnabledComesUp` | `remoteAccessService.ts:1457` | `helperTypes.ts:70-71` | a failed activation stops the supervisor while another request enables remote access: enabled, no helper, no retry |
| `WipcStream_earlyResponse`, `EarlyResponseKept` | `helperClient.ts:811` | `tests/helperClient.test.ts:1120` | a response that ends before the upload makes the pump throw, and the pump cancels the whole exchange; what of the response was not read is lost |
| `WipcStream_crossedCancel`, `UnlessDropped` | `helperClient.ts:1248` | `contracts/remote/v1/bridge-decision.md:80` | a cancellation that meets a finished response leaves the stream in its slot |
| `WipcStream_droppedAnswer`, `UnlessCrossed` | `helperClient.ts:1137-1140` | `contracts/remote/v1/bridge-decision.md:80` | a stream cancelled before the app's answer is handed to it only cancels that answer: the helper is told nothing, and the stream keeps its slot |
| `OperationLedger_staysPrepared`, `NeverStaysPrepared` | `operationStore.ts:416`, `mutations.ts:88-92` | `contracts/remote/v1/bridge-decision.md:72-73` | the write that marks an aborted operation fails: it stays `prepared` until the process restarts |
| `OperationLedger_accepted`, `AcceptedIsAddressable` | `mutations.ts:292` | `docs/api.md:50` | an audit that fails makes the receipt vanish after a concurrent retry was told its operation's id |
| `LifeMemory_weaker`, `AskedIsAlwaysDone` | `livingCast.ts:712-713` | `orchestration/dm/forgotten.ts:221`, `tests/dmForget.test.ts:193`: never weakens | a conversation's forget that runs while a stronger one is queued clears it |
| `LifeMemory_exact`, `AskedIsAlwaysDone` | `livingCast.ts:712-713` | `orchestration/dm/forgotten.ts:221` | while a scrub's left-over step waits, her turns carry the person from notes to memory or back; the step that is left does not look there |
| `LifeMemory_exact`, `LogsAreDeleted` | `compaction.ts:279`, `forget.ts:623` | `forget.ts:615` (every log goes) | the deletion of the old logs fails, is swallowed, and the scrub counts as done |
| `LifeMemory_exact`, `RestTurnsAreCarried` | `compaction.ts:180-181`, `425-445` | `docs/assistant-kb/life.md:27-28`: all her turns carry over | a change of her configuration carries her turns over without those of a rest: what a rest turn read is lost with no summary made |
| `LifeMemory_exact`, `EveryDeletionIsLeftOut` | `compaction.ts:266`, `forget.ts:318`, `lifeLoop.ts:479`, `759` | `shared/schemas/life.ts:161`: listed for omission at the next compaction | every epoch clears the list: one recorded while the summary is written, and one before a scrub's epoch or the summary she writes herself, is left out of nothing |
| `LifeMemory_exact`, `ResetIsFinal` | `forget.ts:302-318` | `livingCast.ts:794-795` | a scrub between a reset without a model and the next turn summarises the old log again |
| `LifeMemory_torn`, `MemoryIsAlwaysKept` | `compaction.ts:519`, `forget.ts:327` | `forget.ts:326`: a failed call leaves her summary as it was | a crash between the write of a failed scrub and its taking back leaves an epoch to start that nobody summarised: what others said is lost with the log |
| `SendRecovery_exact`, `SendThatBeganIsNeverDenied` | `messages.ts:1185`, `repair.ts:300-304` | `docs/behaviour/messages-and-refs.md:196-197`: a send that began is never reported as not sent | Discord's call fails after the message was taken; or a done line could not be written and the process died: repair looks for the first such line only and tells those after it as not sent |
| `SendRecovery_exact`, `EveryClaimIsTrue` | `repair.ts:316` | `repair.ts:300` | repair looks for the message by what it says: one that says the same, of another call or from just before, is taken for it |
| `SendRecovery_sends` with the disjunct `CallOf(l) \in adrift /\ intents.done` of `SentIsNotDenied` removed | `repair.ts:222` | `docs/behaviour/messages-and-refs.md:196-197` | the grace of a stopped script ends with a call still on the way, the message arrives, and the process dies before the result is kept: repair takes the script's done line for the call's and tells what is not booked as not sent |

A configuration that names several properties reports all of them with `-continue`; otherwise TLC stops at the first.
`LifeMemory_live` is not a disagreement: it checks `ForgetIsDone` (a forget leaves the queue if a model is
there to stay) on an instance with one fact.

## What is not modelled

`PROJECT.json` lists every component with its status. Not modelled, with the reason: the detector
and the providers of models (their answers are free choices of `Intake` and `WakeLife`); the
Discord adapter (the environment of `Intake`); rendering, notifications, search, transcripts,
schemas, the API's routes, the CLI's commands and the frontend (conversions and presentation);
usage accounting; one-time migrations; pairing, the revocation of a device and the keys of the remote
identity (their state is the helper's, which is not in the repository); the wire contracts and the Go
conformance program (test material). Not modelled *yet*: the plan.

## Plan

Done, in this order: `WakeDelivery`, `WakeLife` with its proofs (the core), `InstanceLock`,
`Intake`, `WakeQueue`, `IdleUpdate`; then `HelperSupervisor`, `Wakeups`, `WipcState` and
`WipcStream`, `OperationLedger`, `LifeMemory`, `SendRecovery`.

To come:

1. `ChangeSet`: the change-set journal of her home and what boot makes of it.
2. `TurnSlots` (`life/sync.ts`): the semaphore and the key lock as a module, with proofs of
   mutual exclusion and of the number of slots; `WakeLife` then composes with it for two lives.
3. `WakeRouter`: the loop guard, limits per user and per DM and the limit's notice, two routes
   interleaving; abstract specification: at most N per window.
4. `Intake` for DM places and the pause of a server; `TypingHold` for `intakeHold.ts`.

Theorems to come: those of the modules above. Of the present modules every invariant and action property is proved.

## Running the checks

    tlc -workers 2 -config WakeLife_safety.cfg MCWakeLife.tla
    tlapm WakeLife_proofs.tla      # and each other module of proofs

Each run of `PROJECT.json` names its module and configuration. Configurations that no run lists
reproduce the rows of the table of disagreements, with the `MC` module of the same prefix or, where there is none, the module itself.
