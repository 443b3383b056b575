------------------------ MODULE Installation_proofs ------------------------
(***************************************************************************)
(* Proofs about what the processes of an installation share: the update    *)
(* journal of an installed version (IdleUpdate), for any roles, launches,  *)
(* updates and faults, and the host lock of a data root (InstanceLock),    *)
(* for any set of processes, however many run at a time, and any number of *)
(* attempts.  The two components share no variable.                        *)
(***************************************************************************)
EXTENDS IdleUpdate, InstanceLock, FiniteSetTheorems, TLAPS

(***************************************************************************)
(* Updates while idle                                                      *)
(***************************************************************************)

Runs(r) == proc[r] \in {"up", "stopping"}

\* A running role is registered until it unregisters to exit.
UpIsRegistered == \A r \in Role : proc[r] = "up" => lease[r] = launches[r]

\* Where the worker is, and what the journal says then.
JournalFollows ==
    /\ at \in {"poll", "prepare"} => phase = "none"
    /\ at = "stop" => phase = "stopping"
    /\ at \in {"install", "rollback", "record", "reinstall"} => phase = "installing"

\* A package is only broken while a worker replaces it, or was left torn.
BreakIsKnown ==
    /\ package = "broken" /\ ~torn => at \in {"install", "rollback", "reinstall"}
    /\ orphan => torn

\* Until it installs, a transaction names every process that runs; from then
\* on none runs, and a journal that says so is left by no stopping role.
NobodyRuns ==
    /\ at \in {"prepare", "stop"} => \A r \in Role : Runs(r) => tx[r] # 0 /\ launches[r] = tx[r]
    /\ at \in {"install", "rollback", "record", "reinstall"} => \A r \in Role : ~Runs(r)
    /\ phase = "installing" => \A r \in Role : proc[r] # "stopping"

\* A role the worker stopped is not up before it registered again.
OwedIsNotUp == \A r \in owed : proc[r] # "up"

BaseInv == /\ TypeOK /\ UpIsRegistered /\ JournalFollows /\ BreakIsKnown /\ NobodyRuns
           /\ RunsWhatIsInstalled /\ StopsOnlyIdleRoles /\ OwedIsNotUp

\* The journal names what the transaction stops.
TransactionIsNamed ==
    /\ at \in {"stop", "install", "rollback", "record", "restart"} => tx = named
    /\ at = "prepare" => stopped = {}
    /\ at = "stop" => stopped \subseteq prepared /\ prepared \subseteq Named(tx)

\* What it stopped is restarted, starting, or left to the next worker.
OwedIsNamed ==
    ~mistaken =>
        /\ owed # {} => phase # "none" /\ owed \subseteq Named(named)
        /\ at \in {"stop", "install", "rollback", "record"} => owed \subseteq stopped
        /\ at = "restart" /\ ~failed => \A r \in owed : r \in stopped \/ proc[r] = "starting"

IInv == BaseInv /\ TransactionIsNamed /\ OwedIsNamed

-----------------------------------------------------------------------------
(* The invariant is inductive *)

\* The roles start idle and registered, with no update under way.
LEMMA InitInv ==
  ASSUME Init
  PROVE  IInv
<1> USE UpdateAssumption DEF UpdateAssumption, Init
<1>1. TypeOK
  <2>1. None \in [Role -> 0..MaxLaunches] /\ 1 \in 1..MaxLaunches /\ 1 \in 0..MaxLaunches
    BY DEF None
  <2>2. FALSE \in BOOLEAN
    OBVIOUS
  <2>3. failed \in BOOLEAN /\ orphan \in BOOLEAN /\ torn \in BOOLEAN /\ mistaken \in BOOLEAN
    BY <2>2, Zenon DEF Init
  <2> QED BY <2>1, <2>3 DEF TypeOK
<1>2. UpIsRegistered /\ JournalFollows /\ NobodyRuns /\ RunsWhatIsInstalled /\ StopsOnlyIdleRoles
  BY DEF UpIsRegistered, JournalFollows, NobodyRuns, RunsWhatIsInstalled, StopsOnlyIdleRoles
<1>3. BreakIsKnown /\ OwedIsNotUp /\ TransactionIsNamed /\ OwedIsNamed
  BY DEF BreakIsKnown, OwedIsNotUp, TransactionIsNamed, OwedIsNamed
<1> QED BY <1>1, <1>2, <1>3 DEF IInv, BaseInv

\* Types.
LEMMA TypeStep ==
  ASSUME IInv, Next
  PROVE  TypeOK'
<1> USE UpdateAssumption
    DEF UpdateAssumption, IInv, BaseInv, roles, install, worker, bounds, history, Named, Alive, Registered,
        InTransaction, Runs, None, TypeOK, Lost
<1>1. ASSUME NEW r \in Role, OwnerStarts(r)
      PROVE  TypeOK'
  BY <1>1 DEF OwnerStarts, Launches
<1>2. ASSUME NEW r \in Role, Register(r)
      PROVE  TypeOK'
  BY <1>2 DEF Register
<1>3. ASSUME NEW r \in Role, RegisterFails(r)
      PROVE  TypeOK'
  BY <1>3 DEF RegisterFails, StartFails, RestartThrows
<1>4. ASSUME NEW r \in Role, BeginWork(r)
      PROVE  TypeOK'
  BY <1>4 DEF BeginWork
<1>5. ASSUME NEW r \in Role, EndWork(r)
      PROVE  TypeOK'
  BY <1>5 DEF EndWork
<1>6. ASSUME NEW r \in Role, SealExpires(r)
      PROVE  TypeOK'
  BY <1>6 DEF SealExpires
<1>7. ASSUME NEW r \in Role, Unregister(r)
      PROVE  TypeOK'
  BY <1>7 DEF Unregister
<1>8. ASSUME NEW r \in Role, Exit(r)
      PROVE  TypeOK'
  BY <1>8 DEF Exit, Gone
<1>9. ASSUME NEW r \in Role, OwnerStops(r)
      PROVE  TypeOK'
  <2>1. failed' \in BOOLEAN /\ stopped' \subseteq Role
    BY <1>9 DEF OwnerStops, StartFails, RestartThrows
  <2>2. proc' \in [Role -> {"down", "starting", "up", "stopping"}]
        /\ working' \in [Role -> BOOLEAN] /\ sealed' \in [Role -> BOOLEAN]
        /\ lease' \in [Role -> 0..MaxLaunches] /\ owed' \subseteq Role
    BY <1>9 DEF OwnerStops, Gone
  <2> QED BY <1>9, <2>1, <2>2 DEF OwnerStops
<1>10. ASSUME NEW r \in Role, LaunchWorker(r)
      PROVE  TypeOK'
  BY <1>10 DEF LaunchWorker
<1>11. CASE Begin
  <2>1. tx' \in [Role -> 0..MaxLaunches]
    BY <1>11 DEF Begin
  <2> QED BY <1>11, <2>1 DEF Begin
<1>12. CASE NoRoleLeft
  BY <1>12 DEF NoRoleLeft
<1>13. CASE PrepareRefused
  BY <1>13 DEF PrepareRefused, Cancel
<1>14. CASE WriteJournal
  BY <1>14 DEF WriteJournal
<1>15. CASE StopRefused
  BY <1>15 DEF StopRefused, Cancel
<1>16. CASE StartInstall
  BY <1>16 DEF StartInstall, AllExited
<1>17. CASE ShutdownTimeout
  BY <1>17 DEF ShutdownTimeout, Slow
<1>18. CASE Replace
  BY <1>18 DEF Replace
<1>19. CASE Installed
  BY <1>19 DEF Installed, Whole
<1>20. CASE InstallFails
  BY <1>20 DEF InstallFails, Fault
<1>21. CASE Record
  BY <1>21 DEF Record
<1>22. CASE End
  BY <1>22 DEF End, AllStarted
<1>23. CASE Recover
  BY <1>23 DEF Recover, Resume
<1>24. CASE RecoveryBusy
  BY <1>24 DEF RecoveryBusy
<1>25. CASE Reinstall
  BY <1>25 DEF Reinstall
<1>26. CASE Reinstalled
  BY <1>26 DEF Reinstalled, Resume, Whole
<1>27. ASSUME NEW r \in Role, Prepare(r)
      PROVE  TypeOK'
  BY <1>27 DEF Prepare, Seals
<1>28. ASSUME NEW r \in Role, StopRole(r)
      PROVE  TypeOK'
  BY <1>28 DEF StopRole, AcceptsStop
<1>29. ASSUME NEW r \in Role, Restart(r)
      PROVE  TypeOK'
  BY <1>29 DEF Restart, Launches
<1>30. ASSUME NEW r \in Role, RestartFails(r)
      PROVE  TypeOK'
  BY <1>30 DEF RestartFails, Fault, Slow, Launches, RestartThrows
<1>31. CASE WorkerDies
  BY <1>31 DEF WorkerDies
<1>32. CASE OwnerReinstalls
  BY <1>32 DEF OwnerReinstalls, Whole
<1>33. ASSUME NEW r \in Role, PrepareUnheard(r)
      PROVE  TypeOK'
  BY <1>33 DEF PrepareUnheard, Seals, Lost
<1>34. ASSUME NEW r \in Role, StopUnheard(r)
      PROVE  TypeOK'
  BY <1>34 DEF StopUnheard, AcceptsStop, Cancel, Lost
<1>35. CASE OrphanEnds
  BY <1>35 DEF OrphanEnds
<1> QED BY <1>1, <1>2, <1>3, <1>4, <1>5, <1>6, <1>7, <1>8, <1>9, <1>10, <1>11, <1>12, <1>13,
          <1>14, <1>15, <1>16, <1>17, <1>18, <1>19, <1>20, <1>21, <1>22, <1>23, <1>24, <1>25,
          <1>26, <1>27, <1>28, <1>29, <1>30, <1>31, <1>32,
          <1>33, <1>34, <1>35 DEF Next, WorkerStep, RoleStep

\* Who runs, what the journal says and what is installed.
LEMMA BaseStep ==
  ASSUME IInv, Next
  PROVE  UpIsRegistered' /\ JournalFollows' /\ BreakIsKnown' /\ NobodyRuns' /\ RunsWhatIsInstalled'
<1> USE UpdateAssumption
    DEF UpdateAssumption, IInv, BaseInv, roles, install, worker, bounds, history, Named, Alive, Registered,
        InTransaction, Runs, None, TypeOK,
        UpIsRegistered, JournalFollows, BreakIsKnown, NobodyRuns, RunsWhatIsInstalled
<1>1. ASSUME NEW r \in Role, OwnerStarts(r)
      PROVE  UpIsRegistered' /\ JournalFollows' /\ BreakIsKnown' /\ NobodyRuns' /\ RunsWhatIsInstalled'
  BY <1>1 DEF OwnerStarts, Launches
<1>2. ASSUME NEW r \in Role, Register(r)
      PROVE  UpIsRegistered' /\ JournalFollows' /\ BreakIsKnown' /\ NobodyRuns' /\ RunsWhatIsInstalled'
  BY <1>2 DEF Register
<1>3. ASSUME NEW r \in Role, RegisterFails(r)
      PROVE  UpIsRegistered' /\ JournalFollows' /\ BreakIsKnown' /\ NobodyRuns' /\ RunsWhatIsInstalled'
  BY <1>3 DEF RegisterFails, StartFails, RestartThrows
<1>4. ASSUME NEW r \in Role, BeginWork(r)
      PROVE  UpIsRegistered' /\ JournalFollows' /\ BreakIsKnown' /\ NobodyRuns' /\ RunsWhatIsInstalled'
  BY <1>4 DEF BeginWork
<1>5. ASSUME NEW r \in Role, EndWork(r)
      PROVE  UpIsRegistered' /\ JournalFollows' /\ BreakIsKnown' /\ NobodyRuns' /\ RunsWhatIsInstalled'
  BY <1>5 DEF EndWork
<1>6. ASSUME NEW r \in Role, SealExpires(r)
      PROVE  UpIsRegistered' /\ JournalFollows' /\ BreakIsKnown' /\ NobodyRuns' /\ RunsWhatIsInstalled'
  BY <1>6 DEF SealExpires
<1>7. ASSUME NEW r \in Role, Unregister(r)
      PROVE  UpIsRegistered' /\ JournalFollows' /\ BreakIsKnown' /\ NobodyRuns' /\ RunsWhatIsInstalled'
  BY <1>7 DEF Unregister
<1>8. ASSUME NEW r \in Role, Exit(r)
      PROVE  UpIsRegistered' /\ JournalFollows' /\ BreakIsKnown' /\ NobodyRuns' /\ RunsWhatIsInstalled'
  BY <1>8 DEF Exit, Gone
<1>9. ASSUME NEW r \in Role, OwnerStops(r)
      PROVE  UpIsRegistered' /\ JournalFollows' /\ BreakIsKnown' /\ NobodyRuns' /\ RunsWhatIsInstalled'
  BY <1>9 DEF OwnerStops, Gone, StartFails, RestartThrows
<1>10. ASSUME NEW r \in Role, LaunchWorker(r)
      PROVE  UpIsRegistered' /\ JournalFollows' /\ BreakIsKnown' /\ NobodyRuns' /\ RunsWhatIsInstalled'
  BY <1>10 DEF LaunchWorker
<1>11. CASE Begin
  BY <1>11 DEF Begin
<1>12. CASE NoRoleLeft
  BY <1>12 DEF NoRoleLeft
<1>13. CASE PrepareRefused
  BY <1>13 DEF PrepareRefused, Cancel
<1>14. CASE WriteJournal
  BY <1>14 DEF WriteJournal
<1>15. CASE StopRefused
  BY <1>15 DEF StopRefused, Cancel
<1>16. CASE StartInstall
  BY <1>16 DEF StartInstall, AllExited
<1>17. CASE ShutdownTimeout
  BY <1>17 DEF ShutdownTimeout, Slow
<1>18. CASE Replace
  BY <1>18 DEF Replace
<1>19. CASE Installed
  BY <1>19 DEF Installed, Whole
<1>20. CASE InstallFails
  BY <1>20 DEF InstallFails, Fault
<1>21. CASE Record
  BY <1>21 DEF Record
<1>22. CASE End
  BY <1>22 DEF End, AllStarted
<1>23. CASE Recover
  BY <1>23 DEF Recover, Resume
<1>24. CASE RecoveryBusy
  BY <1>24 DEF RecoveryBusy
<1>25. CASE Reinstall
  BY <1>25 DEF Reinstall
<1>26. CASE Reinstalled
  BY <1>26 DEF Reinstalled, Resume, Whole
<1>27. ASSUME NEW r \in Role, Prepare(r)
      PROVE  UpIsRegistered' /\ JournalFollows' /\ BreakIsKnown' /\ NobodyRuns' /\ RunsWhatIsInstalled'
  BY <1>27 DEF Prepare, Seals
<1>28. ASSUME NEW r \in Role, StopRole(r)
      PROVE  UpIsRegistered' /\ JournalFollows' /\ BreakIsKnown' /\ NobodyRuns' /\ RunsWhatIsInstalled'
  BY <1>28 DEF StopRole, AcceptsStop
<1>29. ASSUME NEW r \in Role, Restart(r)
      PROVE  UpIsRegistered' /\ JournalFollows' /\ BreakIsKnown' /\ NobodyRuns' /\ RunsWhatIsInstalled'
  BY <1>29 DEF Restart, Launches
<1>30. ASSUME NEW r \in Role, RestartFails(r)
      PROVE  UpIsRegistered' /\ JournalFollows' /\ BreakIsKnown' /\ NobodyRuns' /\ RunsWhatIsInstalled'
  BY <1>30 DEF RestartFails, Fault, Slow, Launches, RestartThrows
<1>31. CASE WorkerDies
  BY <1>31 DEF WorkerDies
<1>32. CASE OwnerReinstalls
  BY <1>32 DEF OwnerReinstalls, Whole
<1>33. ASSUME NEW r \in Role, PrepareUnheard(r)
      PROVE  UpIsRegistered' /\ JournalFollows' /\ BreakIsKnown' /\ NobodyRuns' /\ RunsWhatIsInstalled'
  BY <1>33 DEF PrepareUnheard, Seals, Lost
<1>34. ASSUME NEW r \in Role, StopUnheard(r)
      PROVE  UpIsRegistered' /\ JournalFollows' /\ BreakIsKnown' /\ NobodyRuns' /\ RunsWhatIsInstalled'
  BY <1>34 DEF StopUnheard, AcceptsStop, Cancel, Lost
<1>35. CASE OrphanEnds
  BY <1>35 DEF OrphanEnds
<1> QED BY <1>1, <1>2, <1>3, <1>4, <1>5, <1>6, <1>7, <1>8, <1>9, <1>10, <1>11, <1>12, <1>13,
          <1>14, <1>15, <1>16, <1>17, <1>18, <1>19, <1>20, <1>21, <1>22, <1>23, <1>24, <1>25,
          <1>26, <1>27, <1>28, <1>29, <1>30, <1>31, <1>32,
          <1>33, <1>34, <1>35 DEF Next, WorkerStep, RoleStep

\* What a stop finds, and what is owed.
LEMMA IdleStep ==
  ASSUME IInv, Next
  PROVE  StopsOnlyIdleRoles' /\ OwedIsNotUp'
<1> USE UpdateAssumption
    DEF UpdateAssumption, IInv, BaseInv, roles, install, worker, bounds, history, Named, Alive, Registered,
        InTransaction, Runs, None, TypeOK,
        StopsOnlyIdleRoles, OwedIsNotUp
<1>1. ASSUME NEW r \in Role, OwnerStarts(r)
      PROVE  StopsOnlyIdleRoles' /\ OwedIsNotUp'
  BY <1>1 DEF OwnerStarts, Launches
<1>2. ASSUME NEW r \in Role, Register(r)
      PROVE  StopsOnlyIdleRoles' /\ OwedIsNotUp'
  BY <1>2 DEF Register
<1>3. ASSUME NEW r \in Role, RegisterFails(r)
      PROVE  StopsOnlyIdleRoles' /\ OwedIsNotUp'
  BY <1>3 DEF RegisterFails, StartFails, RestartThrows
<1>4. ASSUME NEW r \in Role, BeginWork(r)
      PROVE  StopsOnlyIdleRoles' /\ OwedIsNotUp'
  BY <1>4 DEF BeginWork
<1>5. ASSUME NEW r \in Role, EndWork(r)
      PROVE  StopsOnlyIdleRoles' /\ OwedIsNotUp'
  BY <1>5 DEF EndWork
<1>6. ASSUME NEW r \in Role, SealExpires(r)
      PROVE  StopsOnlyIdleRoles' /\ OwedIsNotUp'
  BY <1>6 DEF SealExpires
<1>7. ASSUME NEW r \in Role, Unregister(r)
      PROVE  StopsOnlyIdleRoles' /\ OwedIsNotUp'
  BY <1>7 DEF Unregister
<1>8. ASSUME NEW r \in Role, Exit(r)
      PROVE  StopsOnlyIdleRoles' /\ OwedIsNotUp'
  BY <1>8 DEF Exit, Gone
<1>9. ASSUME NEW r \in Role, OwnerStops(r)
      PROVE  StopsOnlyIdleRoles' /\ OwedIsNotUp'
  BY <1>9 DEF OwnerStops, Gone, StartFails, RestartThrows
<1>10. ASSUME NEW r \in Role, LaunchWorker(r)
      PROVE  StopsOnlyIdleRoles' /\ OwedIsNotUp'
  BY <1>10 DEF LaunchWorker
<1>11. CASE Begin
  BY <1>11 DEF Begin
<1>12. CASE NoRoleLeft
  BY <1>12 DEF NoRoleLeft
<1>13. CASE PrepareRefused
  BY <1>13 DEF PrepareRefused, Cancel
<1>14. CASE WriteJournal
  BY <1>14 DEF WriteJournal
<1>15. CASE StopRefused
  BY <1>15 DEF StopRefused, Cancel
<1>16. CASE StartInstall
  BY <1>16 DEF StartInstall, AllExited
<1>17. CASE ShutdownTimeout
  BY <1>17 DEF ShutdownTimeout, Slow
<1>18. CASE Replace
  BY <1>18 DEF Replace
<1>19. CASE Installed
  BY <1>19 DEF Installed, Whole
<1>20. CASE InstallFails
  BY <1>20 DEF InstallFails, Fault
<1>21. CASE Record
  BY <1>21 DEF Record
<1>22. CASE End
  BY <1>22 DEF End, AllStarted
<1>23. CASE Recover
  BY <1>23 DEF Recover, Resume
<1>24. CASE RecoveryBusy
  BY <1>24 DEF RecoveryBusy
<1>25. CASE Reinstall
  BY <1>25 DEF Reinstall
<1>26. CASE Reinstalled
  BY <1>26 DEF Reinstalled, Resume, Whole
<1>27. ASSUME NEW r \in Role, Prepare(r)
      PROVE  StopsOnlyIdleRoles' /\ OwedIsNotUp'
  BY <1>27 DEF Prepare, Seals
<1>28. ASSUME NEW r \in Role, StopRole(r)
      PROVE  StopsOnlyIdleRoles' /\ OwedIsNotUp'
  BY <1>28 DEF StopRole, AcceptsStop
<1>29. ASSUME NEW r \in Role, Restart(r)
      PROVE  StopsOnlyIdleRoles' /\ OwedIsNotUp'
  BY <1>29 DEF Restart, Launches
<1>30. ASSUME NEW r \in Role, RestartFails(r)
      PROVE  StopsOnlyIdleRoles' /\ OwedIsNotUp'
  BY <1>30 DEF RestartFails, Fault, Slow, Launches, RestartThrows
<1>31. CASE WorkerDies
  BY <1>31 DEF WorkerDies
<1>32. CASE OwnerReinstalls
  BY <1>32 DEF OwnerReinstalls, Whole
<1>33. ASSUME NEW r \in Role, PrepareUnheard(r)
      PROVE  StopsOnlyIdleRoles' /\ OwedIsNotUp'
  BY <1>33 DEF PrepareUnheard, Seals, Lost
<1>34. ASSUME NEW r \in Role, StopUnheard(r)
      PROVE  StopsOnlyIdleRoles' /\ OwedIsNotUp'
  BY <1>34 DEF StopUnheard, AcceptsStop, Cancel, Lost
<1>35. CASE OrphanEnds
  BY <1>35 DEF OrphanEnds
<1> QED BY <1>1, <1>2, <1>3, <1>4, <1>5, <1>6, <1>7, <1>8, <1>9, <1>10, <1>11, <1>12, <1>13,
          <1>14, <1>15, <1>16, <1>17, <1>18, <1>19, <1>20, <1>21, <1>22, <1>23, <1>24, <1>25,
          <1>26, <1>27, <1>28, <1>29, <1>30, <1>31, <1>32,
          <1>33, <1>34, <1>35 DEF Next, WorkerStep, RoleStep

\* What was stopped is waited for, and named until it is back.
LEMMA OwedStep ==
  ASSUME IInv, Next
  PROVE  TransactionIsNamed' /\ OwedIsNamed'
<1> USE UpdateAssumption
    DEF UpdateAssumption, IInv, BaseInv, roles, install, worker, bounds, history, Named, Alive, Registered,
        InTransaction, Runs, None, TypeOK,
        TransactionIsNamed, OwedIsNamed, JournalFollows, NobodyRuns, OwedIsNotUp
<1>1. ASSUME NEW r \in Role, OwnerStarts(r)
      PROVE  TransactionIsNamed' /\ OwedIsNamed'
  BY <1>1 DEF OwnerStarts, Launches
<1>2. ASSUME NEW r \in Role, Register(r)
      PROVE  TransactionIsNamed' /\ OwedIsNamed'
  BY <1>2 DEF Register
<1>3. ASSUME NEW r \in Role, RegisterFails(r)
      PROVE  TransactionIsNamed' /\ OwedIsNamed'
  BY <1>3 DEF RegisterFails, StartFails, RestartThrows
<1>4. ASSUME NEW r \in Role, BeginWork(r)
      PROVE  TransactionIsNamed' /\ OwedIsNamed'
  BY <1>4 DEF BeginWork
<1>5. ASSUME NEW r \in Role, EndWork(r)
      PROVE  TransactionIsNamed' /\ OwedIsNamed'
  BY <1>5 DEF EndWork
<1>6. ASSUME NEW r \in Role, SealExpires(r)
      PROVE  TransactionIsNamed' /\ OwedIsNamed'
  BY <1>6 DEF SealExpires
<1>7. ASSUME NEW r \in Role, Unregister(r)
      PROVE  TransactionIsNamed' /\ OwedIsNamed'
  BY <1>7 DEF Unregister
<1>8. ASSUME NEW r \in Role, Exit(r)
      PROVE  TransactionIsNamed' /\ OwedIsNamed'
  BY <1>8 DEF Exit, Gone
<1>9. ASSUME NEW r \in Role, OwnerStops(r)
      PROVE  TransactionIsNamed' /\ OwedIsNamed'
  BY <1>9 DEF OwnerStops, Gone, StartFails, RestartThrows
<1>10. ASSUME NEW r \in Role, LaunchWorker(r)
      PROVE  TransactionIsNamed' /\ OwedIsNamed'
  BY <1>10 DEF LaunchWorker
<1>11. CASE Begin
  BY <1>11 DEF Begin
<1>12. CASE NoRoleLeft
  BY <1>12 DEF NoRoleLeft
<1>13. CASE PrepareRefused
  BY <1>13 DEF PrepareRefused, Cancel
<1>14. CASE WriteJournal
  BY <1>14 DEF WriteJournal
<1>15. CASE StopRefused
  BY <1>15 DEF StopRefused, Cancel
<1>16. CASE StartInstall
  BY <1>16 DEF StartInstall, AllExited
<1>17. CASE ShutdownTimeout
  BY <1>17 DEF ShutdownTimeout, Slow
<1>18. CASE Replace
  BY <1>18 DEF Replace
<1>19. CASE Installed
  BY <1>19 DEF Installed, Whole
<1>20. CASE InstallFails
  BY <1>20 DEF InstallFails, Fault
<1>21. CASE Record
  BY <1>21 DEF Record
<1>22. CASE End
  BY <1>22 DEF End, AllStarted
<1>23. CASE Recover
  BY <1>23 DEF Recover, Resume
<1>24. CASE RecoveryBusy
  BY <1>24 DEF RecoveryBusy
<1>25. CASE Reinstall
  BY <1>25 DEF Reinstall
<1>26. CASE Reinstalled
  BY <1>26 DEF Reinstalled, Resume, Whole
<1>27. ASSUME NEW r \in Role, Prepare(r)
      PROVE  TransactionIsNamed' /\ OwedIsNamed'
  BY <1>27 DEF Prepare, Seals
<1>28. ASSUME NEW r \in Role, StopRole(r)
      PROVE  TransactionIsNamed' /\ OwedIsNamed'
  BY <1>28 DEF StopRole, AcceptsStop
<1>29. ASSUME NEW r \in Role, Restart(r)
      PROVE  TransactionIsNamed' /\ OwedIsNamed'
  BY <1>29 DEF Restart, Launches
<1>30. ASSUME NEW r \in Role, RestartFails(r)
      PROVE  TransactionIsNamed' /\ OwedIsNamed'
  BY <1>30 DEF RestartFails, Fault, Slow, Launches, RestartThrows
<1>31. CASE WorkerDies
  BY <1>31 DEF WorkerDies
<1>32. CASE OwnerReinstalls
  BY <1>32 DEF OwnerReinstalls, Whole
<1>33. ASSUME NEW r \in Role, PrepareUnheard(r)
      PROVE  TransactionIsNamed' /\ OwedIsNamed'
  BY <1>33 DEF PrepareUnheard, Seals, Lost
<1>34. ASSUME NEW r \in Role, StopUnheard(r)
      PROVE  TransactionIsNamed' /\ OwedIsNamed'
  BY <1>34 DEF StopUnheard, AcceptsStop, Cancel, Lost
<1>35. CASE OrphanEnds
  BY <1>35 DEF OrphanEnds
<1> QED BY <1>1, <1>2, <1>3, <1>4, <1>5, <1>6, <1>7, <1>8, <1>9, <1>10, <1>11, <1>12, <1>13,
          <1>14, <1>15, <1>16, <1>17, <1>18, <1>19, <1>20, <1>21, <1>22, <1>23, <1>24, <1>25,
          <1>26, <1>27, <1>28, <1>29, <1>30, <1>31, <1>32,
          <1>33, <1>34, <1>35 DEF Next, WorkerStep, RoleStep

\* The invariant holds in every state.
LEMMA Invariance == Spec => []IInv
<1>1. IInv /\ UNCHANGED vars => IInv'
  BY DEF IInv, BaseInv, TypeOK, UpIsRegistered, JournalFollows, NobodyRuns, RunsWhatIsInstalled,
         StopsOnlyIdleRoles, OwedIsNotUp, BreakIsKnown, TransactionIsNamed, OwedIsNamed,
         Runs, Named, vars, roles, install, worker, bounds, history
<1>2. IInv /\ Next => IInv'
  BY TypeStep, BaseStep, IdleStep, OwedStep DEF IInv, BaseInv
<1> QED BY InitInv, <1>1, <1>2, PTL DEF Spec

-----------------------------------------------------------------------------
(* What the invariant gives *)

\* No registered role runs while the files under it are replaced, each runs
\* the version that is installed, and the worker stops only idle roles:
\* whoever starts, stops or dies, and wherever the worker dies.
THEOREM RunSafely == Spec => []RolesRunSafely
<1>1. IInv => RolesRunSafely
  BY DEF IInv, BaseInv, RolesRunSafely
<1> QED BY <1>1, Invariance, PTL

\* A role the worker stopped is named by a journal for as long as it is not
\* back, wherever a worker dies and whichever answer is lost, unless a recovery
\* took one that still shuts down for one that runs.
THEOREM NoRoleIsForgotten == Spec => []StoppedRoleIsNotForgotten
<1>1. IInv => StoppedRoleIsNotForgotten
  BY DEF IInv, OwedIsNamed, StoppedRoleIsNotForgotten
<1> QED BY <1>1, Invariance, PTL

(***************************************************************************)
(* The host lock                                                           *)
(***************************************************************************)

\* Where a process has not created a file of its own.
Starting == {"unborn", "create", "read", "probe", "move", "inspect", "restore", "discard",
             "refused"}
\* Where it has a file, and where it has another's in its hands.
Owning == {"write", "holding", "verify", "unlink"}
Breaking == {"inspect", "restore", "discard"}

\* A process that has created no file is named nowhere.
NoFileYet ==
  \A p \in Proc : doing[p] \in Starting =>
    /\ p \notin written /\ lockFile # p
    /\ \A q \in Proc : aside[q] # p /\ seen[q] # p

\* The record of a file is written by its creator before it is the host.
RecordOfHost ==
  \A p \in Proc :
    /\ p \in written => doing[p] \in {"holding", "verify", "unlink", "gone"}
    /\ doing[p] \in {"holding", "verify", "unlink"} => p \in written

\* An attempt is left as long as it has not been refused.
AttemptLeft ==
  \A p \in Proc : doing[p] \in Starting \ {"refused"} => tries[p] < MaxAttempts

\* A file in a breaker's hands, and nowhere else unless one died with it.
InHand ==
  \A q \in Proc :
    /\ doing[q] \in Breaking => aside[q] # NoFile
    /\ aside[q] # NoFile => doing[q] \in Breaking \/ mislaid

\* A torn record is one a dead process left.
TornIsMislaid ==
  /\ \A p \in Proc : p \notin written /\ Dead(p) /\ (lockFile = p \/ \E q \in Proc : aside[q] = p)
       => mislaid
  /\ aged # {} => mislaid

\* What a starter judges is a record, and what it moves for is a dead one's.
JudgedIsGone ==
  \A q \in Proc :
    /\ doing[q] = "probe" => seen[q] \in written
    /\ doing[q] \in {"move"} \union Breaking /\ ~mislaid =>
         seen[q] \in written /\ doing[seen[q]] = "gone"

\* What a dead process left, and what was given away while a breaker held it.
Excused == mislaid \/ usurped

\* No two processes that live have a file.
OneOwner == ~Excused => \A p, q \in Proc : doing[p] \in Owning /\ doing[q] \in Owning => p = q

\* It is at the path, or about to be put back there.
FileInPlace ==
  ~Excused => \A p \in Proc : doing[p] \in Owning =>
    \/ lockFile = p
    \/ \E q \in Live : aside[q] = p /\ doing[q] \in {"inspect", "restore"}

\* While it is in a breaker's hands, the path is free for it.
PathIsFree ==
  ~Excused => \A p, q \in Proc :
    doing[p] \in Owning /\ aside[q] = p /\ doing[q] \in {"inspect", "restore"} => lockFile = NoFile

\* What holds whatever was left or given away.
LockBaseInv ==
  /\ LockTypeOK /\ NoFileYet /\ RecordOfHost /\ AttemptLeft /\ InHand /\ TornIsMislaid
  /\ JudgedIsGone

LockInv == LockBaseInv /\ OneOwner /\ FileInPlace /\ PathIsFree

-----------------------------------------------------------------------------
(* The invariant is inductive *)

\* Where each action leads, for one process.
LockStep(p) ==
  \/ \E j \in {"start", "clear"} : Arrive(p, j)
  \/ Create(p) \/ CreateFails(p) \/ Write(p)
  \/ ReadMissing(p) \/ ReadFresh(p) \/ ReadTorn(p) \/ ReadRecord(p)
  \/ Probe(p) \/ Move(p) \/ Inspect(p) \/ Restore(p) \/ Discard(p)
  \/ Stop(p) \/ Verify(p) \/ Unlink(p)
  \/ Crash(p) \/ Age(p)

LEMMA LockInitial ==
  ASSUME LockAssumption, LockInit
  PROVE  LockInv
<1>1. LockTypeOK
  <2>1. mislaid \in BOOLEAN /\ usurped \in BOOLEAN
    BY Zenon DEF LockInit
  <2> QED BY <2>1 DEF LockAssumption, LockInit, LockTypeOK, Running, Dead
<1>2. NoFileYet /\ RecordOfHost /\ AttemptLeft
  BY DEF LockAssumption, LockInit, NoFileYet, RecordOfHost, AttemptLeft, Starting
<1>3. InHand /\ TornIsMislaid /\ JudgedIsGone
  BY DEF LockInit, InHand, TornIsMislaid, JudgedIsGone, Breaking, Dead
<1>4. OneOwner /\ FileInPlace /\ PathIsFree
  BY DEF LockInit, OneOwner, FileInPlace, PathIsFree, Owning
<1> QED BY <1>1, <1>2, <1>3, <1>4 DEF LockInv, LockBaseInv

LEMMA LockBaseStep ==
  ASSUME LockAssumption, LockBaseInv, NEW p \in Proc, LockStep(p)
  PROVE  LockBaseInv'
<1> USE DEF LockAssumption, LockBaseInv, LockTypeOK, NoFileYet, RecordOfHost, AttemptLeft, InHand,
            TornIsMislaid,
         JudgedIsGone, Running, Starting, Breaking, Dead, Goto, Again
<1>1. ASSUME NEW j \in {"start", "clear"}, Arrive(p, j) PROVE LockBaseInv'
  BY <1>1 DEF Arrive
<1>2. CASE Create(p)
  <2>1. usurped' \in BOOLEAN
    BY <1>2, Zenon DEF Create
  <2> QED BY <1>2, <2>1 DEF Create
<1>3. CASE CreateFails(p)
  BY <1>3 DEF CreateFails
<1>4. CASE Write(p)
  BY <1>4 DEF Write
<1>5. CASE ReadMissing(p)
  BY <1>5 DEF ReadMissing
<1>6. CASE ReadFresh(p)
  BY <1>6 DEF ReadFresh
<1>7. CASE ReadTorn(p)
  BY <1>7 DEF ReadTorn
<1>8. CASE ReadRecord(p)
  BY <1>8 DEF ReadRecord
<1>9. CASE Probe(p)
  BY <1>9 DEF Probe, Stale
<1>10. CASE Move(p)
  BY <1>10 DEF Move
<1>11. CASE Inspect(p)
  BY <1>11 DEF Inspect, MovedAnother
<1>12. CASE Restore(p)
  <2>1. usurped' \in BOOLEAN
    BY <1>12, Zenon DEF Restore
  <2> QED BY <1>12, <2>1 DEF Restore
<1>13. CASE Discard(p)
  BY <1>13 DEF Discard
<1>14. CASE Stop(p)
  BY <1>14 DEF Stop
<1>15. CASE Verify(p)
  BY <1>15 DEF Verify
<1>16. CASE Unlink(p)
  BY <1>16 DEF Unlink
<1>17. CASE Crash(p)
  <2>1. mislaid' \in BOOLEAN
    BY <1>17, Zenon DEF Crash
  <2>2. mislaid => mislaid'
    BY <1>17, Zenon DEF Crash
  <2>3. ~mislaid' => doing[p] # "write" /\ aside[p] = NoFile
    BY <1>17, Zenon DEF Crash
  <2> QED BY <1>17, <2>1, <2>2, <2>3 DEF Crash
<1>18. CASE Age(p)
  BY <1>18 DEF Age
<1> QED BY <1>1, <1>2, <1>3, <1>4, <1>5, <1>6, <1>7, <1>8, <1>9, <1>10, <1>11, <1>12, <1>13,
           <1>14, <1>15, <1>16, <1>17, <1>18 DEF LockStep

\* A create finds the path free, so no process that lives has a file.
LEMMA LockOwnerStep ==
  ASSUME LockAssumption, LockInv, NEW p \in Proc, LockStep(p)
  PROVE  OneOwner'
<1> USE DEF LockAssumption, Live, Running, Goto, Again, LockInv, LockBaseInv, LockTypeOK, NoFileYet,
            RecordOfHost, InHand, TornIsMislaid, JudgedIsGone, Dead, Starting, Owning, Breaking,
            Excused, OneOwner, FileInPlace, PathIsFree
<1>1. ASSUME NEW j \in {"start", "clear"}, Arrive(p, j) PROVE OneOwner'
  BY <1>1 DEF Arrive
<1>2. CASE Create(p)
  <2>1. ~usurped' => ~usurped /\ ~Displaces(p)
    BY <1>2, Zenon DEF Create
  <2>2. usurped' \in BOOLEAN
    BY <1>2, Zenon DEF Create
  <2> QED BY <1>2, <2>1, <2>2 DEF Create, Displaces
<1>3. CASE CreateFails(p)
  BY <1>3 DEF CreateFails
<1>4. CASE Write(p)
  BY <1>4 DEF Write
<1>5. CASE ReadMissing(p)
  BY <1>5 DEF ReadMissing
<1>6. CASE ReadFresh(p)
  BY <1>6 DEF ReadFresh
<1>7. CASE ReadTorn(p)
  BY <1>7 DEF ReadTorn
<1>8. CASE ReadRecord(p)
  BY <1>8 DEF ReadRecord
<1>9. CASE Probe(p)
  BY <1>9 DEF Probe
<1>10. CASE Move(p)
  BY <1>10 DEF Move
<1>11. CASE Inspect(p)
  BY <1>11 DEF Inspect, MovedAnother
<1>12. CASE Restore(p)
  <2>1. ~usurped' => ~usurped /\ ~(lockFile = NoFile /\ Displaces(p))
    BY <1>12, Zenon DEF Restore
  <2>2. usurped' \in BOOLEAN
    BY <1>12, Zenon DEF Restore
  <2> QED BY <1>12, <2>1, <2>2 DEF Restore, Displaces
<1>13. CASE Discard(p)
  BY <1>13 DEF Discard
<1>14. CASE Stop(p)
  BY <1>14 DEF Stop
<1>15. CASE Verify(p)
  BY <1>15 DEF Verify
<1>16. CASE Unlink(p)
  BY <1>16 DEF Unlink
<1>17. CASE Crash(p)
  <2>1. mislaid' = FALSE => mislaid = FALSE /\ doing[p] # "write" /\ aside[p] = NoFile
    BY <1>17 DEF Crash
  <2>2. mislaid' \in BOOLEAN
    BY <1>17, Zenon DEF Crash
  <2> QED BY <1>17, <2>1, <2>2 DEF Crash
<1>18. CASE Age(p)
  BY <1>18 DEF Age
<1> QED BY <1>1, <1>2, <1>3, <1>4, <1>5, <1>6, <1>7, <1>8, <1>9, <1>10, <1>11, <1>12, <1>13,
           <1>14, <1>15, <1>16, <1>17, <1>18 DEF LockStep

\* Only a breaker moves the file away, and puts it back.
LEMMA LockPlaceStep ==
  ASSUME LockAssumption, LockInv, NEW p \in Proc, LockStep(p)
  PROVE  FileInPlace' /\ PathIsFree'
<1> USE DEF LockAssumption, Live, Running, Goto, Again, LockInv, LockBaseInv, LockTypeOK, NoFileYet,
            RecordOfHost, InHand, TornIsMislaid, JudgedIsGone, Dead, Starting, Owning, Breaking,
            Excused, OneOwner, FileInPlace, PathIsFree
<1>1. ASSUME NEW j \in {"start", "clear"}, Arrive(p, j) PROVE FileInPlace' /\ PathIsFree'
  BY <1>1 DEF Arrive
<1>2. CASE Create(p)
  <2>1. ~usurped' => ~usurped /\ ~Displaces(p)
    BY <1>2, Zenon DEF Create
  <2>2. usurped' \in BOOLEAN
    BY <1>2, Zenon DEF Create
  <2> QED BY <1>2, <2>1, <2>2 DEF Create, Displaces
<1>3. CASE CreateFails(p)
  BY <1>3 DEF CreateFails
<1>4. CASE Write(p)
  BY <1>4 DEF Write
<1>5. CASE ReadMissing(p)
  BY <1>5 DEF ReadMissing
<1>6. CASE ReadFresh(p)
  BY <1>6 DEF ReadFresh
<1>7. CASE ReadTorn(p)
  BY <1>7 DEF ReadTorn
<1>8. CASE ReadRecord(p)
  BY <1>8 DEF ReadRecord
<1>9. CASE Probe(p)
  BY <1>9 DEF Probe
<1>10. CASE Move(p)
  BY <1>10 DEF Move
<1>11. CASE Inspect(p)
  BY <1>11 DEF Inspect, MovedAnother
<1>12. CASE Restore(p)
  <2>1. ~usurped' => ~usurped /\ ~(lockFile = NoFile /\ Displaces(p))
    BY <1>12, Zenon DEF Restore
  <2>2. usurped' \in BOOLEAN
    BY <1>12, Zenon DEF Restore
  <2> QED BY <1>12, <2>1, <2>2 DEF Restore, Displaces
<1>13. CASE Discard(p)
  BY <1>13 DEF Discard
<1>14. CASE Stop(p)
  BY <1>14 DEF Stop
<1>15. CASE Verify(p)
  BY <1>15 DEF Verify
<1>16. CASE Unlink(p)
  BY <1>16 DEF Unlink
<1>17. CASE Crash(p)
  <2>1. mislaid' = FALSE => mislaid = FALSE /\ doing[p] # "write" /\ aside[p] = NoFile
    BY <1>17 DEF Crash
  <2>2. mislaid' \in BOOLEAN
    BY <1>17, Zenon DEF Crash
  <2> QED BY <1>17, <2>1, <2>2 DEF Crash
<1>18. CASE Age(p)
  BY <1>18 DEF Age
<1> QED BY <1>1, <1>2, <1>3, <1>4, <1>5, <1>6, <1>7, <1>8, <1>9, <1>10, <1>11, <1>12, <1>13,
           <1>14, <1>15, <1>16, <1>17, <1>18 DEF LockStep

-----------------------------------------------------------------------------
(* The theorems *)

LEMMA LockBaseInductive ==
  ASSUME LockBaseInv, [LockNext]_lockVars
  PROVE  LockBaseInv'
<1>1. ASSUME NEW p \in Proc, LockStep(p) PROVE LockBaseInv'
  BY <1>1, LockBaseStep, LockAssumption
<1>2. CASE UNCHANGED lockVars
  BY <1>2 DEF lockVars, LockBaseInv, LockTypeOK, NoFileYet, RecordOfHost, AttemptLeft, InHand,
              TornIsMislaid, JudgedIsGone, Dead
<1> QED BY <1>1, <1>2 DEF LockNext, LockStep

LEMMA LockInvariance == LockSpec => []LockInv
<1>1. LockInit => LockInv
  BY LockInitial, LockAssumption
<1>2. LockInv /\ [LockNext]_lockVars => LockInv'
  <2> SUFFICES ASSUME LockInv, [LockNext]_lockVars PROVE LockInv'
    OBVIOUS
  <2>1. LockBaseInv'
    BY LockBaseInductive DEF LockInv
  <2>2. ASSUME NEW p \in Proc, LockStep(p) PROVE OneOwner' /\ FileInPlace' /\ PathIsFree'
    BY <2>2, LockOwnerStep, LockPlaceStep, LockAssumption
  <2>3. CASE UNCHANGED lockVars
    <3>1. Live' = Live
      BY <2>3 DEF lockVars, Live
    <3> QED BY <2>1, <2>3, <3>1 DEF lockVars, LockInv, OneOwner, FileInPlace, PathIsFree, Excused
  <2> QED BY <2>1, <2>2, <2>3 DEF LockInv, LockNext, LockStep
<1> QED BY <1>1, <1>2, PTL DEF LockSpec

\* Every variable has its type, and a torn lock at the path is one a dead
\* process left.
THEOREM LockTypes == LockSpec => []LockTypeOK
<1>1. LockInv => LockTypeOK
  BY DEF LockInv, LockBaseInv
<1> QED BY <1>1, LockInvariance, PTL

\* One host per data root (instanceLock.ts:11), whatever starters, clearing
\* commands and crashes come and however many processes run at a time, as long
\* as none dies with a torn record or a lock aside and the path is not given
\* away while a breaker holds a live process's lock.
THEOREM OneHostPerDataRoot == LockSpec => []OneHost
<1>1. LockInv => OneHost
  <2> SUFFICES ASSUME LockInv, ~mislaid, ~usurped PROVE Cardinality(Hosts) <= 1
    BY DEF OneHost
  <2>1. \A p, q \in Hosts : p = q
    BY DEF LockInv, OneOwner, Excused, Hosts, Owning
  <2>2. CASE Hosts = {}
    BY <2>2, FS_EmptySet
  <2>3. CASE Hosts # {}
    <3>1. PICK p : p \in Hosts
      BY <2>3
    <3>2. Hosts = {p}
      BY <2>1, <3>1
    <3>3. Cardinality({p}) = 1
      BY FS_Singleton
    <3> QED BY <3>2, <3>3
  <2> QED BY <2>2, <2>3
<1> QED BY <1>1, LockInvariance, PTL

\* The lock of a host, or of a starter writing its record, is at the path or
\* about to be put back there, with the same two exceptions.
THEOREM LockStaysInPlace == LockSpec => []LockIsInPlace
<1>1. LockInv => LockIsInPlace
  BY DEF LockInv, LockBaseInv, LockIsInPlace, HostKeepsItsLock, FileInPlace, Owning, Excused
<1> QED BY <1>1, LockInvariance, PTL

\* A starter is refused for one of the reasons of RefusedForAReason, however
\* many processes run at a time and whatever the dead have left.
THEOREM RefusalHasAReason == LockSpec => RefusedForAReason
<1> DEFINE Fair(p) ==
      (doing[p] # "refused" /\ doing'[p] = "refused") =>
         \/ Live \ {p} # {}
         \/ lockFile \in Proc \ (written \union aged)
         \/ pid[seen[p]] = "unknown"
         \/ tries'[p] = MaxAttempts
<1>1. ASSUME LockBaseInv, [LockNext]_lockVars, NEW q \in Proc PROVE Fair(q)
  <2> USE <1>1, LockAssumption DEF LockBaseInv, LockTypeOK, Live, Running, Goto, Again, Dead,
                    RecordOfHost, NoFileYet,
              Starting, AttemptLeft, JudgedIsGone
  <2>1. ASSUME NEW p \in Proc, NEW j \in {"start", "clear"}, Arrive(p, j) PROVE Fair(q)
    BY <2>1 DEF Arrive
  <2>2. ASSUME NEW p \in Proc, Create(p) PROVE Fair(q)
    BY <2>2 DEF Create
  <2>3. ASSUME NEW p \in Proc, CreateFails(p) PROVE Fair(q)
    BY <2>3 DEF CreateFails
  <2>4. ASSUME NEW p \in Proc, Write(p) PROVE Fair(q)
    BY <2>4 DEF Write
  <2>5. ASSUME NEW p \in Proc, ReadMissing(p) PROVE Fair(q)
    BY <2>5 DEF ReadMissing
  <2>6. ASSUME NEW p \in Proc, ReadFresh(p) PROVE Fair(q)
    BY <2>6 DEF ReadFresh
  <2>7. ASSUME NEW p \in Proc, ReadTorn(p) PROVE Fair(q)
    BY <2>7 DEF ReadTorn
  <2>8. ASSUME NEW p \in Proc, ReadRecord(p) PROVE Fair(q)
    BY <2>8 DEF ReadRecord
  <2>9. ASSUME NEW p \in Proc, Probe(p) PROVE Fair(q)
    BY <2>9 DEF Probe, Stale
  <2>10. ASSUME NEW p \in Proc, Move(p) PROVE Fair(q)
    BY <2>10 DEF Move
  <2>11. ASSUME NEW p \in Proc, Inspect(p) PROVE Fair(q)
    BY <2>11 DEF Inspect
  <2>12. ASSUME NEW p \in Proc, Restore(p) PROVE Fair(q)
    BY <2>12 DEF Restore
  <2>13. ASSUME NEW p \in Proc, Discard(p) PROVE Fair(q)
    BY <2>13 DEF Discard
  <2>14. ASSUME NEW p \in Proc, Stop(p) PROVE Fair(q)
    BY <2>14 DEF Stop
  <2>15. ASSUME NEW p \in Proc, Verify(p) PROVE Fair(q)
    BY <2>15 DEF Verify
  <2>16. ASSUME NEW p \in Proc, Unlink(p) PROVE Fair(q)
    BY <2>16 DEF Unlink
  <2>17. ASSUME NEW p \in Proc, Crash(p) PROVE Fair(q)
    BY <2>17 DEF Crash
  <2>18. ASSUME NEW p \in Proc, Age(p) PROVE Fair(q)
    BY <2>18 DEF Age
  <2>19. CASE UNCHANGED lockVars
    BY <2>19 DEF lockVars
  <2> HIDE DEF Fair
  <2> QED BY <1>1, <2>1, <2>2, <2>3, <2>4, <2>5, <2>6, <2>7, <2>8, <2>9, <2>10, <2>11, <2>12,
             <2>13, <2>14, <2>15, <2>16, <2>17, <2>18, <2>19 DEF LockNext
<1>2. LockBaseInv /\ [LockNext]_lockVars => \A p \in Proc : Fair(p)
  BY <1>1
<1>3. LockInv => LockBaseInv
  BY DEF LockInv
<1> QED BY <1>2, <1>3, LockInvariance, PTL DEF LockSpec, RefusedForAReason
=============================================================================
