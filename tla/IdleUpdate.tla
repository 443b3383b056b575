------------------------------ MODULE IdleUpdate ------------------------------
(***************************************************************************)
(* Updates while idle (src/backend/updates): a worker process that stops   *)
(* every registered role (a host, a remote gateway), replaces the package  *)
(* they share and starts them again.  Its journal is durable; a worker     *)
(* that dies leaves it to the next one, which a registered role launches.  *)
(*                                                                         *)
(* A role's admission gate (activity.ts) decides in one step whether work  *)
(* starts or an update holds it; the seal of a prepared role runs out by   *)
(* itself.  Abstracted: staging, npm's registry checks and back-off, the   *)
(* quiet window (a request may only be idle or not), a disabled or locked  *)
(* role (a refusal may come at any time), the lock files (a dead worker's  *)
(* locks are free), data roots (a role is one process at a time, by the    *)
(* host lock of InstanceLock), a pid used again.                           *)
(***************************************************************************)
EXTENDS Naturals, FiniteSets

CONSTANTS
    Role,         \* the roles that use the installation
    MaxLaunches,  \* bound: processes of a role
    MaxUpdates,   \* bound: transactions
    MaxFaults,    \* bound: failures of an install or of a restart
    MaxSlow,      \* bound: processes that take more than a minute to exit
    MaxCrashes,   \* bound: deaths of a worker
    MaxLost,      \* bound: answers of a role that do not reach the worker
    MaxOwner      \* bound: roles the owner stops, or that die

ASSUME UpdateAssumption ==
    /\ IsFiniteSet(Role) /\ Role # {}
    /\ MaxLaunches \in Nat \ {0}
    /\ {MaxUpdates, MaxFaults, MaxSlow, MaxCrashes, MaxLost, MaxOwner} \subseteq Nat

VARIABLES
    \* roles
    proc,      \* "down", "starting", "up", "stopping" (told to by the worker)
    launches,  \* the number of its process: its pid
    version,   \* the version a process read when it started
    lease,     \* registered in runtimes/: its process, or 0
    working,   \* a request or a job runs
    sealed,    \* prepared: work is refused
    \* the installation
    package,   \* "old", "new" or "broken": being replaced or left half replaced,
               \* its package.json gone or with either version
    orphan,    \* the npm of a worker that died is still at it
    phase,     \* journal.json's phase, or "none"
    named,     \* the process of each role in the journal, or 0
    \* the worker
    at,        \* where it is
    tx,        \* the processes of its transaction, or 0
    prepared,  \* roles that accepted its prepare
    stopped,   \* roles that accepted its stop: to be restarted
    failed,    \* a restart failed
    updates, faults, slow, crashes, lost, interventions,
    \* history
    owed,      \* roles it stopped that no process has taken over
    torn,      \* a replacement was left in the middle, by a worker that died or
               \* a restore that failed, and none was completed since
    mistaken   \* a recovery took a role that still shuts down for one that runs

roles == <<proc, launches, version, lease, working, sealed>>
install == <<package, orphan, phase, named>>
worker == <<at, tx, prepared, stopped, failed>>
bounds == <<updates, faults, slow, crashes, lost, interventions>>
history == <<owed, torn, mistaken>>
vars == <<roles, install, worker, bounds, history>>

None == [r \in Role |-> 0]
Named(f) == {r \in Role : f[r] # 0}
Alive(r, n) == proc[r] # "down" /\ launches[r] = n
Registered == {r \in Role : lease[r] # 0 /\ Alive(r, lease[r])}
InTransaction == at \in {"prepare", "stop", "install", "rollback", "record", "reinstall"}
Fault == faults < MaxFaults /\ faults' = faults + 1 /\ slow' = slow
Slow == slow < MaxSlow /\ slow' = slow + 1 /\ faults' = faults
Lost == lost < MaxLost /\ lost' = lost + 1

Init ==
    /\ proc = [r \in Role |-> "up"] /\ launches = [r \in Role |-> 1]
    /\ version = [r \in Role |-> "old"] /\ lease = [r \in Role |-> 1]
    /\ working = [r \in Role |-> FALSE] /\ sealed = [r \in Role |-> FALSE]
    /\ package = "old" /\ orphan = FALSE /\ phase = "none" /\ named = None
    /\ at = "none" /\ tx = None /\ prepared = {} /\ stopped = {} /\ failed = FALSE
    /\ updates = 0 /\ faults = 0 /\ slow = 0 /\ crashes = 0 /\ lost = 0 /\ interventions = 0
    /\ owed = {} /\ torn = FALSE /\ mistaken = FALSE

-----------------------------------------------------------------------------
(* Roles *)

\* A process of the role starts; of a package being replaced it reads either version.
Launches(r) ==
    /\ proc[r] = "down" /\ launches[r] < MaxLaunches
    /\ proc' = [proc EXCEPT ![r] = "starting"]
    /\ launches' = [launches EXCEPT ![r] = @ + 1]
    /\ \E v \in IF package = "broken" THEN {"old", "new"} ELSE {package} :
           version' = [version EXCEPT ![r] = v]

OwnerStarts(r) ==
    /\ Launches(r)
    /\ UNCHANGED <<lease, working, sealed, install, worker, bounds, history>>

\* Mutant: the version is not compared.
RegisterAny(r) ==
    /\ proc[r] = "starting" /\ ~InTransaction
    /\ proc' = [proc EXCEPT ![r] = "up"]
    /\ lease' = [lease EXCEPT ![r] = launches[r]]
    /\ owed' = owed \ {r}
    /\ UNCHANGED <<launches, version, working, sealed, install, worker, bounds, torn, mistaken>>

\* startUpdateControl: under the transaction lock, if package.json still has its
\* version; that of a package left half replaced may have any.
Register(r) ==
    /\ proc[r] = "starting" /\ ~InTransaction /\ package \in {version[r], "broken"}
    /\ proc' = [proc EXCEPT ![r] = "up"]
    /\ lease' = [lease EXCEPT ![r] = launches[r]]
    /\ owed' = owed \ {r}
    /\ UNCHANGED <<launches, version, working, sealed, install, worker, bounds, torn, mistaken>>

\* The worker's restart() of r throws; a recovery stops at the first.
RestartThrows(r) ==
    /\ failed' = TRUE
    /\ stopped' = IF prepared = {} THEN {} ELSE stopped \ {r}

\* A starting process fails, under the eyes of the worker that launched it or not.
StartFails(r) ==
    IF at = "restart" /\ proc[r] = "starting" /\ r \in Named(tx) \ stopped
    THEN RestartThrows(r) ELSE UNCHANGED <<stopped, failed>>

\* installation_changed: the start fails.
RegisterFails(r) ==
    /\ proc[r] = "starting" /\ ~InTransaction /\ package # version[r]
    /\ proc' = [proc EXCEPT ![r] = "down"]
    /\ StartFails(r)
    /\ UNCHANGED <<launches, version, lease, working, sealed, install, at, tx, prepared, bounds, history>>

\* UpdateActivity.begin and the release it returns.
BeginWork(r) ==
    /\ proc[r] = "up" /\ ~sealed[r] /\ ~working[r]
    /\ working' = [working EXCEPT ![r] = TRUE]
    /\ UNCHANGED <<proc, launches, version, lease, sealed, install, worker, bounds, history>>

EndWork(r) ==
    /\ working[r]
    /\ working' = [working EXCEPT ![r] = FALSE]
    /\ UNCHANGED <<proc, launches, version, lease, sealed, install, worker, bounds, history>>

\* sealedUntil passes.
SealExpires(r) ==
    /\ sealed[r] /\ proc[r] = "up"
    /\ sealed' = [sealed EXCEPT ![r] = FALSE]
    /\ UNCHANGED <<proc, launches, version, lease, working, install, worker, bounds, history>>

\* A stopping role unregisters first and exits later.
Unregister(r) ==
    /\ proc[r] = "stopping" /\ lease[r] # 0
    /\ lease' = [lease EXCEPT ![r] = 0]
    /\ UNCHANGED <<proc, launches, version, working, sealed, install, worker, bounds, history>>

Gone(r) ==
    /\ proc' = [proc EXCEPT ![r] = "down"]
    /\ working' = [working EXCEPT ![r] = FALSE]
    /\ sealed' = [sealed EXCEPT ![r] = FALSE]

Exit(r) ==
    /\ proc[r] = "stopping" /\ lease[r] = 0
    /\ Gone(r)
    /\ UNCHANGED <<launches, version, lease, install, worker, bounds, history>>

\* The owner stops a role, or it dies: with or without its lease.
OwnerStops(r) ==
    /\ proc[r] \in {"starting", "up"} /\ interventions < MaxOwner
    /\ interventions' = interventions + 1
    /\ Gone(r)
    /\ lease' \in {lease, [lease EXCEPT ![r] = 0]}
    /\ owed' = owed \ {r}
    /\ StartFails(r)
    /\ UNCHANGED <<launches, version, install, at, tx, prepared, updates, faults, slow, crashes, lost, torn, mistaken>>

\* registerAutomaticUpdates' check: a role's timer runs until it unregisters.
LaunchWorker(r) ==
    /\ at = "none" /\ r \in Registered
    /\ at' = IF phase = "none" THEN "poll" ELSE "recover"
    /\ UNCHANGED <<roles, install, tx, prepared, stopped, failed, bounds, history>>

-----------------------------------------------------------------------------
(* applyIdleUpdate *)

\* The lock, the leases, and no live process of the installation without one.
Begin ==
    /\ at = "poll" /\ package \in {"old", "broken"} /\ updates < MaxUpdates
    /\ Registered # {} /\ \A r \in Registered : version[r] = "old"
    /\ \A r \in Role \ Registered : proc[r] = "down"
    /\ at' = "prepare" /\ updates' = updates + 1
    /\ tx' = [r \in Role |-> IF r \in Registered THEN launches[r] ELSE 0]
    /\ prepared' = {} /\ stopped' = {} /\ failed' = FALSE
    /\ UNCHANGED <<roles, install, faults, slow, crashes, lost, interventions, history>>

NoRoleLeft ==
    /\ at = "poll" /\ Registered = {} /\ at' = "none"
    /\ UNCHANGED <<roles, install, tx, prepared, stopped, failed, bounds, history>>

\* UpdateActivity.prepare, for one transaction at a time
Seals(r) ==
    /\ at = "prepare" /\ tx[r] # 0 /\ r \notin prepared
    /\ Alive(r, tx[r]) /\ proc[r] = "up" /\ ~working[r] /\ ~sealed[r]
    /\ sealed' = [sealed EXCEPT ![r] = TRUE]

Prepare(r) ==
    /\ Seals(r)
    /\ prepared' = prepared \union {r}
    /\ UNCHANGED <<proc, launches, version, lease, working, install, at, tx, stopped, failed, bounds, history>>

\* Its answer is lost: the transaction ends, and its seal runs out by itself.
PrepareUnheard(r) ==
    /\ Seals(r) /\ Lost
    /\ at' = "poll"
    /\ UNCHANGED <<proc, launches, version, lease, working, install, tx, prepared, stopped, failed,
                   updates, faults, slow, crashes, interventions, history>>

\* The cancels of a transaction that ends, to every prepared role not stopped;
\* one that does not arrive leaves a seal to run out.
Cancel(kept) == \E told \in SUBSET (prepared \ kept) :
    sealed' = [r \in Role |-> sealed[r] /\ r \notin told]

\* A role that is busy, disabled, locked or gone: nothing was stopped.
PrepareRefused ==
    /\ at = "prepare" /\ Named(tx) # prepared
    /\ Cancel({}) /\ at' = "poll"
    /\ UNCHANGED <<proc, launches, version, lease, working, install, tx, prepared, stopped, failed, bounds, history>>

WriteJournal ==
    /\ at = "prepare" /\ Named(tx) = prepared
    /\ phase' = "stopping" /\ named' = tx /\ at' = "stop"
    /\ UNCHANGED <<roles, package, orphan, tx, prepared, stopped, failed, bounds, history>>

\* Mutant: the stop is accepted although the seal ran out.
AcceptsUnsealed(r) ==
    /\ at = "stop" /\ r \in prepared \ stopped
    /\ Alive(r, tx[r]) /\ proc[r] = "up"
    /\ proc' = [proc EXCEPT ![r] = "stopping"]
    /\ owed' = owed \union {r}

\* UpdateActivity.commit, then SIGTERM.
AcceptsStop(r) ==
    /\ at = "stop" /\ r \in prepared \ stopped
    /\ Alive(r, tx[r]) /\ proc[r] = "up" /\ sealed[r] /\ ~working[r]
    /\ proc' = [proc EXCEPT ![r] = "stopping"]
    /\ owed' = owed \union {r}

StopRole(r) ==
    /\ AcceptsStop(r)
    /\ stopped' = stopped \union {r}
    /\ UNCHANGED <<launches, version, lease, working, sealed, install, at, tx, prepared, failed, bounds, torn, mistaken>>

\* The stop is accepted and its answer lost (control.ts:272): the worker throws
\* before it notes the role, cancels, and restarts the others.
StopUnheard(r) ==
    /\ AcceptsStop(r) /\ Lost
    /\ Cancel(stopped) /\ at' = "restart" /\ failed' = TRUE
    /\ UNCHANGED <<launches, version, lease, working, install, tx, prepared, stopped,
                   updates, faults, slow, crashes, interventions, torn, mistaken>>

\* Mutant: what was stopped already is left stopped.
StopRefusedAbandons ==
    /\ at = "stop" /\ prepared # stopped
    /\ Cancel(stopped) /\ at' = "none" /\ phase' = "none" /\ named' = None
    /\ UNCHANGED <<proc, launches, version, lease, working, package, orphan, tx, prepared, stopped, failed, bounds, history>>

\* commit_rejected: the others are cancelled, what was stopped is restarted.
StopRefused ==
    /\ at = "stop" /\ prepared # stopped
    /\ Cancel(stopped) /\ at' = "restart" /\ failed' = TRUE
    /\ UNCHANGED <<proc, launches, version, lease, working, install, tx, prepared, stopped, bounds, history>>

\* Mutant: the package is replaced once every role was told to stop.
AllExitedNever == at = "stop" /\ prepared = stopped

\* Every process of the transaction is gone.
AllExited ==
    at = "stop" /\ prepared = stopped /\ \A r \in Named(tx) : ~Alive(r, tx[r])

StartInstall ==
    /\ AllExited
    /\ phase' = "installing" /\ at' = "install"
    /\ UNCHANGED <<roles, package, orphan, named, tx, prepared, stopped, failed, bounds, history>>

\* shutdown_timeout: one did not exit within a minute.
ShutdownTimeout ==
    /\ at = "stop" /\ prepared = stopped /\ Slow
    /\ \E r \in Named(tx) : Alive(r, tx[r])
    /\ at' = "restart" /\ failed' = TRUE
    /\ UNCHANGED <<roles, install, tx, prepared, stopped, updates, crashes, lost, interventions, history>>

\* npm replaces files, the worker's or one a dead worker left: until it is done
\* the package is broken.
Replace ==
    /\ at \in {"install", "rollback", "reinstall"} \/ orphan
    /\ package # "broken" /\ package' = "broken"
    /\ UNCHANGED <<roles, orphan, phase, named, worker, bounds, history>>

\* The npm of a dead worker ends, well or not.
OrphanEnds ==
    /\ orphan /\ orphan' = FALSE
    /\ package = "broken" /\ package' \in {"old", "new", "broken"}
    /\ UNCHANGED <<roles, phase, named, worker, bounds, history>>

\* A replacement is complete: while no other npm runs, the package is whole.
Whole == torn' = (torn /\ orphan)

Installed ==
    /\ at \in {"install", "rollback"} /\ package = "broken"
    /\ package' = IF at = "install" THEN "new" ELSE "old"
    /\ Whole /\ at' = "record"
    /\ UNCHANGED <<roles, orphan, phase, named, tx, prepared, stopped, failed, bounds, owed, mistaken>>

\* The install or its verification fails; a failed restore starts nobody.
InstallFails ==
    /\ at \in {"install", "rollback", "reinstall"} /\ package = "broken" /\ Fault
    /\ at' = IF at = "install" THEN "rollback" ELSE "none"
    /\ torn' = (torn \/ at # "install")
    /\ UNCHANGED <<roles, install, tx, prepared, stopped, failed, updates, crashes, lost, interventions, owed, mistaken>>

\* Mutant: the journal is given the result's name, which its schema does not know.
RecordResult ==
    /\ at = "record"
    /\ phase' = IF package = "new" THEN "updated" ELSE "rolled_back"
    /\ at' = "restart"
    /\ UNCHANGED <<roles, package, orphan, named, tx, prepared, stopped, failed, bounds, history>>

Record ==
    /\ at = "record"
    /\ phase' = IF package = "new" THEN "installed" ELSE "rolled_back"
    /\ at' = "restart"
    /\ UNCHANGED <<roles, package, orphan, named, tx, prepared, stopped, failed, bounds, history>>

-----------------------------------------------------------------------------
(* Restarts, after applyIdleUpdate or a recovery *)

\* applyIdleUpdate restarts what it stopped once its process is gone; a recovery
\* (nothing prepared) every role of the journal with no live process.
Restart(r) ==
    /\ at = "restart" /\ r \in stopped
    /\ \/ Launches(r)
       \/ proc[r] = "up" /\ ~Alive(r, tx[r]) /\ UNCHANGED <<proc, launches, version>>
       \/ proc[r] \in {"up", "stopping"} /\ prepared = {} /\ UNCHANGED <<proc, launches, version>>
    /\ stopped' = stopped \ {r}
    /\ mistaken' = (mistaken \/ proc[r] = "stopping")
    /\ UNCHANGED <<lease, working, sealed, install, at, tx, prepared, failed, bounds, owed, torn>>

\* It does not start, starts but is not ready in time, or the old process does
\* not exit.
RestartFails(r) ==
    /\ at = "restart" /\ r \in stopped
    /\ \/ proc[r] = "down" /\ Fault /\ UNCHANGED <<proc, launches, version>>
       \/ Launches(r) /\ Fault
       \/ prepared # {} /\ Alive(r, tx[r]) /\ Slow /\ UNCHANGED <<proc, launches, version>>
    /\ RestartThrows(r)
    /\ UNCHANGED <<lease, working, sealed, install, at, tx, prepared, updates, crashes, lost, interventions, history>>

\* restart() returns when the role runs.
AllStarted == at = "restart" /\ stopped = {} /\ \A r \in Named(tx) : proc[r] # "starting"

\* Mutant: the journal goes whatever became of the restarts.
EndAnyway ==
    /\ AllStarted /\ at' = "none"
    /\ phase' = "none" /\ named' = None
    /\ UNCHANGED <<roles, package, orphan, tx, prepared, stopped, failed, bounds, history>>

\* The journal goes when every restart went well; else the next worker recovers.
End ==
    /\ AllStarted /\ at' = "none"
    /\ IF failed THEN UNCHANGED <<phase, named>> ELSE phase' = "none" /\ named' = None
    /\ UNCHANGED <<roles, package, orphan, tx, prepared, stopped, failed, bounds, history>>

-----------------------------------------------------------------------------
(* recover *)

Resume ==
    /\ at' = "restart" /\ failed' = FALSE
    /\ tx' = named /\ prepared' = {} /\ stopped' = Named(named)

\* verifyStagedUpdate looks at package.json and a few files.
Recover ==
    /\ at = "recover" /\ phase # "installing"
    /\ Resume
    /\ UNCHANGED <<roles, install, bounds, history>>

\* recovery_busy: a package being replaced is restored only when no role runs;
\* or one that should be whole does not verify.
RecoveryBusy ==
    /\ at = "recover"
    /\ IF phase = "installing"
       THEN Registered # {} \/ \E r \in Named(named) : Alive(r, named[r])
       ELSE package = "broken"
    /\ at' = "none"
    /\ UNCHANGED <<roles, install, tx, prepared, stopped, failed, bounds, history>>

Reinstall ==
    /\ at = "recover" /\ phase = "installing"
    /\ Registered = {} /\ \A r \in Named(named) : ~Alive(r, named[r])
    /\ at' = "reinstall"
    /\ UNCHANGED <<roles, install, tx, prepared, stopped, failed, bounds, history>>

Reinstalled ==
    /\ at = "reinstall" /\ package = "broken"
    /\ package' = "old" /\ phase' = "rolled_back"
    /\ Whole /\ Resume
    /\ UNCHANGED <<roles, orphan, named, bounds, owed, mistaken>>

\* The worker dies, wherever it is; the npm it ran may go on without it.
WorkerDies ==
    /\ at # "none" /\ crashes < MaxCrashes
    /\ crashes' = crashes + 1 /\ at' = "none"
    /\ IF at \in {"install", "rollback", "reinstall"}
       THEN torn' = TRUE /\ orphan' \in {orphan, TRUE}
       ELSE UNCHANGED <<torn, orphan>>
    /\ UNCHANGED <<roles, package, phase, named, tx, prepared, stopped, failed,
                   updates, faults, slow, lost, interventions, owed, mistaken>>

\* The owner installs the package by hand, as owner-controls.md says.
OwnerReinstalls ==
    /\ package = "broken" /\ at = "none"
    /\ \A r \in Role : proc[r] = "down"
    /\ package' \in {"old", "new"} /\ Whole
    /\ UNCHANGED <<roles, orphan, phase, named, worker, bounds, owed, mistaken>>

RoleStep(r) ==
    \/ OwnerStarts(r) \/ Register(r) \/ RegisterFails(r) \/ BeginWork(r) \/ EndWork(r)
    \/ SealExpires(r) \/ Unregister(r) \/ Exit(r) \/ OwnerStops(r) \/ LaunchWorker(r)

WorkerStep ==
    \/ Begin \/ NoRoleLeft \/ PrepareRefused \/ WriteJournal \/ StopRefused \/ StartInstall
    \/ ShutdownTimeout \/ Replace \/ Installed \/ InstallFails \/ Record \/ End
    \/ Recover \/ RecoveryBusy \/ Reinstall \/ Reinstalled
    \/ \E r \in Role :
          Prepare(r) \/ PrepareUnheard(r) \/ StopRole(r) \/ StopUnheard(r) \/ Restart(r) \/ RestartFails(r)

Next == WorkerStep \/ WorkerDies \/ OrphanEnds \/ OwnerReinstalls \/ \E r \in Role : RoleStep(r)

Spec == Init /\ [][Next]_vars

(* The worker's own calls return or time out, a stopping role exits, a     *)
(* starting one gets the lock, work ends, each role looks for a worker     *)
(* every 30 s; the owner need do nothing, and a failure need not happen.   *)
FairSpec ==
    /\ Spec /\ WF_vars(WorkerStep)
    /\ \A r \in Role :
        /\ WF_vars(Register(r)) /\ WF_vars(RegisterFails(r)) /\ WF_vars(EndWork(r))
        /\ WF_vars(Unregister(r)) /\ WF_vars(Exit(r)) /\ WF_vars(LaunchWorker(r))

(* As FairSpec, with an owner who starts the roles again after a crash and *)
(* installs a broken package by hand.                                      *)
AttendedSpec ==
    /\ FairSpec /\ WF_vars(OrphanEnds) /\ WF_vars(OwnerReinstalls) /\ \A r \in Role : WF_vars(OwnerStarts(r))

-----------------------------------------------------------------------------
(* Every variable stays in its type: journal.json has one of its phases,   *)
(* and a transaction names processes that were started.                    *)
TypeOK ==
    /\ proc \in [Role -> {"down", "starting", "up", "stopping"}]
    /\ launches \in [Role -> 1..MaxLaunches] /\ lease \in [Role -> 0..MaxLaunches]
    /\ version \in [Role -> {"old", "new"}]
    /\ working \in [Role -> BOOLEAN] /\ sealed \in [Role -> BOOLEAN]
    /\ package \in {"old", "new", "broken"} /\ orphan \in BOOLEAN
    /\ phase \in {"none", "stopping", "installing", "installed", "rolled_back"}
    /\ {named, tx} \subseteq [Role -> 0..MaxLaunches]
    /\ at \in {"none", "poll", "prepare", "stop", "install", "rollback", "record",
              "restart", "recover", "reinstall"}
    /\ prepared \subseteq Role /\ stopped \subseteq Role /\ owed \subseteq Role
    /\ failed \in BOOLEAN /\ torn \in BOOLEAN /\ mistaken \in BOOLEAN

(* No registered role runs while a worker replaces the files under it, and *)
(* none runs another version than the one installed, whoever starts, stops *)
(* or dies (runner.ts:113, control.ts:252-257); the second unless a worker *)
(* died or gave up in the middle of a replacement that none has completed  *)
(* since.                                                                  *)
RunsWhatIsInstalled ==
    \A r \in Role : proc[r] \in {"up", "stopping"} =>
        /\ at \notin {"install", "rollback", "record", "reinstall"}
        /\ ~torn => version[r] = package

(* "A crash during replacement leaves an unverified package. Restore       *)
(* before any launch" (worker.ts:67): no role runs on a package that is    *)
(* half replaced.  It does: a start compares only the version in           *)
(* package.json (control.ts:254-256).                                      *)
NobodyRunsBroken == package = "broken" => \A r \in Role : proc[r] # "up"

(* A role the worker stops has no request or job under way, though its     *)
(* seal may have run out and work begun between prepare and stop           *)
(* (activity.ts:3: no idle-check/start race).                              *)
StopsOnlyIdleRoles ==
    \A r \in Role : proc[r] = "stopping" => ~working[r]

(* While a role the worker stopped is not back, the worker is at it or a   *)
(* journal names it: the update "restarts the same roles"                  *)
(* (owner-controls.md:83-85) and a journal is a "recovery requirement"     *)
(* (worker.ts:205), wherever a worker dies and whichever answer is lost;   *)
(* unless a recovery takes a role that still shuts down for one that runs  *)
(* (worker.ts:86).                                                         *)
StoppedRoleIsNotForgotten ==
    owed # {} /\ at = "none" /\ ~mistaken =>
        phase # "none" /\ owed \subseteq Named(named)

(* The same without that exception, while no worker dies and every stopped *)
(* process exits within a minute.  A stop whose answer is lost is enough.  *)
StoppedIsNeverForgotten ==
    owed # {} /\ at = "none" /\ crashes = 0 /\ slow = 0 => owed \subseteq Named(named)

Disturbed == crashes + slow + lost + interventions > 0

(* Every role the worker stopped runs again, also after a refused stop, a  *)
(* failed install or a restart that fails once, unless the worker dies, an *)
(* answer is lost, an exit takes too long or the last other role that could*)
(* launch a worker is stopped (runner.ts:174-186, worker.ts:80-89).        *)
StoppedRolesComeBack ==
    \A r \in Role : r \in owed ~> (r \notin owed \/ Disturbed)

(* A journal is resolved in the end: the next worker restores the package  *)
(* or finds it good, restarts the roles and removes it.  Under AttendedSpec*)
(* a worker that dies while it installs leaves one no worker can resolve.  *)
JournalIsResolved == phase # "none" ~> phase = "none"

\* An update never meets a working role: a role is only stopped while it is
\* idle, and one that runs runs what is installed.
RolesRunSafely == TypeOK /\ RunsWhatIsInstalled /\ StopsOnlyIdleRoles
=============================================================================
