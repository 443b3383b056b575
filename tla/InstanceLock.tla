---- MODULE InstanceLock ----
(***************************************************************************)
(* The host lock of a data root (src/storage/instanceLock.ts): one file,   *)
(* app/host.lock, created exclusively by the process that becomes the host *)
(* and broken by a starter that finds its holder dead.                     *)
(*                                                                         *)
(* A file is named by the process that created it (a process creates at    *)
(* most one: after a create it is the holder or it is gone).  lockFile is  *)
(* the file the path names; a starter that breaks a lock renames whatever  *)
(* the path names to a name of its own, looks at it, links it back if it   *)
(* is not the lock it judged stale, and deletes its own name.  Every file  *)
(* operation is one step and the steps of processes interleave.            *)
(*                                                                         *)
(* Abstracted: ps, start times and the 2 s slack (pid says who has a dead  *)
(* process's pid: nobody, another process known by its start time, or one  *)
(* whose start time cannot be read); the age of an unreadable file         *)
(* ("aged": past the 10 s grace, which only the file of a process that     *)
(* died before it wrote its record reaches); the I/O errors other than     *)
(* ENOENT and EEXIST.                                                      *)
(***************************************************************************)
EXTENDS Naturals, FiniteSets

CONSTANTS
  Proc,          \* processes that start a host or clear a stale lock
  NoFile,        \* no file, and the null nonce of an unreadable one
  MaxAttempts    \* acquireHostInstanceLock tries this often (5 in the code)

ASSUME LockAssumption ==
  /\ NoFile \notin Proc
  /\ MaxAttempts \in Nat \ {0}

VARIABLES
  doing,     \* what each process does next
  job,       \* "start" (acquireHostInstanceLock) or "clear" (clearStale...)
  tries,     \* attempts a starter has used
  seen,      \* the nonce it read and judged; NoFile for an unreadable lock
  aside,     \* the file it renamed away from the path
  lockFile,  \* the file at the path
  written,   \* files whose record is written
  aged,      \* unreadable files past the grace
  pid,       \* who has a dead process's pid: "free", "other", "unknown"
  \* history
  mislaid,   \* a process died between its create and its record, or with a
             \* lock renamed aside that it had not yet thrown away
  usurped    \* the path was given away while a breaker held the lock of a
             \* process that lives

lockVars == <<doing, job, tries, seen, aside, lockFile, written, aged, pid, mislaid, usurped>>

Running == {"create", "write", "read", "probe", "move", "inspect", "restore",
            "discard", "holding", "verify", "unlink"}
Live == {p \in Proc : doing[p] \in Running}
Dead(p) == doing[p] \in {"refused", "gone"}

LockInit ==
  /\ doing = [p \in Proc |-> "unborn"]
  /\ job = [p \in Proc |-> "start"]
  /\ tries = [p \in Proc |-> 0]
  /\ seen = [p \in Proc |-> NoFile]
  /\ aside = [p \in Proc |-> NoFile]
  /\ lockFile = NoFile
  /\ written = {}
  /\ aged = {}
  /\ pid = [p \in Proc |-> "free"]
  /\ mislaid = FALSE /\ usurped = FALSE

Goto(p, next) == doing' = [doing EXCEPT ![p] = next]

(* A `waifus start` (or a settings write with the host stopped), or a      *)
(* command that clears a stale lock, begins.                               *)
Arrive(p, j) ==
  /\ doing[p] = "unborn"
  /\ job' = [job EXCEPT ![p] = j]
  /\ Goto(p, IF j = "start" THEN "create" ELSE "read")
  /\ UNCHANGED <<tries, seen, aside, lockFile, written, aged, pid, mislaid, usurped>>

(* A starter's next attempt, or the refusal after the last one; a command  *)
(* that only clears is done.                                               *)
Again(p) ==
  IF job[p] = "clear" THEN Goto(p, "gone") /\ UNCHANGED tries
  ELSE /\ tries' = [tries EXCEPT ![p] = @ + 1]
       /\ Goto(p, IF tries[p] + 1 < MaxAttempts THEN "create" ELSE "refused")

(* A breaker other than p has moved the lock of a process that lives aside *)
(* by mistake, and is about to put it back.                                *)
Displaces(p) == \E q \in Live \ {p} :
  /\ doing[q] \in {"inspect", "restore"} /\ aside[q] # NoFile
  /\ doing[aside[q]] \in {"write", "holding", "verify", "unlink"}

(* Mutant: the create is not exclusive.                                    *)
CreateOver(p) ==
  /\ doing[p] = "create"
  /\ lockFile' = p
  /\ usurped' = (usurped \/ Displaces(p))
  /\ Goto(p, "write")
  /\ UNCHANGED <<job, tries, seen, aside, written, aged, pid, mislaid>>

(* open(lockPath, "wx"): the path names no file and now names this one.    *)
Create(p) ==
  /\ doing[p] = "create"
  /\ lockFile = NoFile
  /\ lockFile' = p
  /\ usurped' = (usurped \/ Displaces(p))
  /\ Goto(p, "write")
  /\ UNCHANGED <<job, tries, seen, aside, written, aged, pid, mislaid>>

(* EEXIST.                                                                 *)
CreateFails(p) ==
  /\ doing[p] = "create"
  /\ lockFile # NoFile
  /\ Goto(p, "read")
  /\ UNCHANGED <<job, tries, seen, aside, lockFile, written, aged, pid, mislaid, usurped>>

(* Mutant: the record is written by the path, not through the open file.   *)
WriteByPath(p) ==
  /\ doing[p] = "write"
  /\ written' = written \union {lockFile}
  /\ Goto(p, "holding")
  /\ UNCHANGED <<job, tries, seen, aside, lockFile, aged, pid, mislaid, usurped>>

(* The record is written to the file, wherever its name is by then, and    *)
(* the process is the host.                                                *)
Write(p) ==
  /\ doing[p] = "write"
  /\ written' = written \union {p}
  /\ Goto(p, "holding")
  /\ UNCHANGED <<job, tries, seen, aside, lockFile, aged, pid, mislaid, usurped>>

ReadMissing(p) ==
  /\ doing[p] = "read"
  /\ lockFile = NoFile
  /\ Again(p)
  /\ UNCHANGED <<job, seen, aside, lockFile, written, aged, pid, mislaid, usurped>>

(* Younger than the grace: a holder between its create and its write.      *)
ReadFresh(p) ==
  /\ doing[p] = "read"
  /\ lockFile \in Proc \ (written \union aged)
  /\ Goto(p, "refused")
  /\ UNCHANGED <<job, tries, seen, aside, lockFile, written, aged, pid, mislaid, usurped>>

ReadTorn(p) ==
  /\ doing[p] = "read"
  /\ lockFile \in aged \ written
  /\ seen' = [seen EXCEPT ![p] = NoFile]
  /\ Goto(p, "move")
  /\ UNCHANGED <<job, tries, aside, lockFile, written, aged, pid, mislaid, usurped>>

ReadRecord(p) ==
  /\ doing[p] = "read"
  /\ lockFile \in written
  /\ seen' = [seen EXCEPT ![p] = lockFile]
  /\ Goto(p, "probe")
  /\ UNCHANGED <<job, tries, aside, lockFile, written, aged, pid, mislaid, usurped>>

(* Mutant: a pid in use is taken for the holder whatever its start time.   *)
PidIsFree(p) == Dead(p) /\ pid[p] = "free"

(* holderLiveness: gone, and its pid is free or known to be another's.     *)
Stale(p) == Dead(p) /\ pid[p] # "unknown"

Probe(p) ==
  /\ doing[p] = "probe"
  /\ Goto(p, IF Stale(seen[p]) THEN "move" ELSE "refused")
  /\ UNCHANGED <<job, tries, seen, aside, lockFile, written, aged, pid, mislaid, usurped>>

(* breakStaleLock: rename(lockPath, aside).                                *)
Move(p) ==
  /\ doing[p] = "move"
  /\ \/ /\ lockFile = NoFile
        /\ Again(p)
        /\ UNCHANGED <<aside, lockFile>>
     \/ /\ lockFile # NoFile
        /\ aside' = [aside EXCEPT ![p] = lockFile]
        /\ lockFile' = NoFile
        /\ Goto(p, "inspect")
        /\ UNCHANGED tries
  /\ UNCHANGED <<job, seen, written, aged, pid, mislaid, usurped>>

(* Mutant: what was moved is not looked at.                                *)
NothingToRestore(p) == FALSE

(* The nonce of what was moved is not the one judged stale; an unreadable  *)
(* file has the null nonce.                                                *)
MovedAnother(p) == seen[p] # IF aside[p] \in written THEN aside[p] ELSE NoFile

Inspect(p) ==
  /\ doing[p] = "inspect"
  /\ Goto(p, IF MovedAnother(p) THEN "restore" ELSE "discard")
  /\ UNCHANGED <<job, tries, seen, aside, lockFile, written, aged, pid, mislaid, usurped>>

(* link(aside, lockPath), which fails over a newer lock.                   *)
Restore(p) ==
  /\ doing[p] = "restore"
  /\ lockFile' = IF lockFile = NoFile THEN aside[p] ELSE lockFile
  /\ usurped' = (usurped \/ (lockFile = NoFile /\ Displaces(p)))
  /\ Goto(p, "discard")
  /\ UNCHANGED <<job, tries, seen, aside, written, aged, pid, mislaid>>

Discard(p) ==
  /\ doing[p] = "discard"
  /\ aside' = [aside EXCEPT ![p] = NoFile]
  /\ Again(p)
  /\ UNCHANGED <<job, seen, lockFile, written, aged, pid, mislaid, usurped>>

(* The host stops: releaseHostInstanceLock reads the path and removes it   *)
(* when the record there is its own.                                       *)
Stop(p) ==
  /\ doing[p] = "holding"
  /\ Goto(p, "verify")
  /\ UNCHANGED <<job, tries, seen, aside, lockFile, written, aged, pid, mislaid, usurped>>

Verify(p) ==
  /\ doing[p] = "verify"
  /\ Goto(p, IF lockFile = p THEN "unlink" ELSE "gone")
  /\ UNCHANGED <<job, tries, seen, aside, lockFile, written, aged, pid, mislaid, usurped>>

Unlink(p) ==
  /\ doing[p] = "unlink"
  /\ lockFile' = NoFile
  /\ Goto(p, "gone")
  /\ UNCHANGED <<job, tries, seen, aside, written, aged, pid, mislaid, usurped>>

(* A process may die between any two of its file operations.               *)
Crash(p) ==
  /\ doing[p] \in Running
  /\ Goto(p, "gone")
  /\ mislaid' = (mislaid \/ doing[p] = "write" \/ aside[p] # NoFile)
  /\ \E who \in {"free", "other", "unknown"} : pid' = [pid EXCEPT ![p] = who]
  /\ UNCHANGED <<job, tries, seen, aside, lockFile, written, aged, usurped>>

(* Ten seconds pass over a file whose creator died before its record.      *)
Age(p) ==
  /\ doing[p] = "gone" /\ p = lockFile
  /\ p \notin written \union aged
  /\ aged' = aged \union {p}
  /\ UNCHANGED <<doing, job, tries, seen, aside, lockFile, written, pid, mislaid, usurped>>

LockNext == \E p \in Proc :
  \/ \E j \in {"start", "clear"} : Arrive(p, j)
  \/ Create(p) \/ CreateFails(p) \/ Write(p)
  \/ ReadMissing(p) \/ ReadFresh(p) \/ ReadTorn(p) \/ ReadRecord(p)
  \/ Probe(p) \/ Move(p) \/ Inspect(p) \/ Restore(p) \/ Discard(p)
  \/ Stop(p) \/ Verify(p) \/ Unlink(p)
  \/ Crash(p) \/ Age(p)

LockSpec == LockInit /\ [][LockNext]_lockVars

-----------------------------------------------------------------------------

(* Every variable has its type.                                            *)
LockTypeOK ==
  /\ doing \in [Proc -> Running \union {"unborn", "refused", "gone"}]
  /\ job \in [Proc -> {"start", "clear"}]
  /\ tries \in [Proc -> 0..MaxAttempts]
  /\ seen \in [Proc -> Proc \union {NoFile}]
  /\ aside \in [Proc -> Proc \union {NoFile}]
  /\ lockFile \in Proc \union {NoFile}
  /\ written \subseteq Proc /\ aged \subseteq Proc
  /\ pid \in [Proc -> {"free", "other", "unknown"}]
  /\ mislaid \in BOOLEAN /\ usurped \in BOOLEAN
  /\ \A p \in Proc : lockFile = p /\ Dead(p) /\ p \notin written => mislaid

Hosts == {p \in Proc : doing[p] = "holding"}

(* At most one process is the host of the data root, whatever starters,    *)
(* clearing commands and crashes come between and however many of them run *)
(* at a time, unless a dead one left a torn record or a lock aside, or the *)
(* path was given away while a breaker held a live process's lock          *)
(* (instanceLock.ts:242-258).                                              *)
OneHost == ~mislaid /\ ~usurped => Cardinality(Hosts) <= 1

(* "One ordinary host per data root" (instanceLock.ts:11), also when the   *)
(* path is given away meanwhile: a third starter breaks it.                *)
OneHostAlways == ~mislaid => Cardinality(Hosts) <= 1

(* The lock of a host, and of one that is writing its record, is at the    *)
(* path, or in the hands of a breaker that moved it aside by mistake and   *)
(* is about to put it back (instanceLock.ts:239): a later starter finds    *)
(* it, with the same two exceptions.                                       *)
HostKeepsItsLock == ~mislaid /\ ~usurped => \A p \in Proc :
  doing[p] \in {"write", "holding"} =>
    \/ lockFile = p
    \/ \E q \in Live : aside[q] = p /\ doing[q] \in {"inspect", "restore"}

(* A lock whose creator lives is never thrown away by a breaker that has   *)
(* nothing newer to leave at the path: "its fresh lock is linked back      *)
(* (never over a newer one) instead of being deleted out from under it"    *)
(* (instanceLock.ts:239).                                                  *)
FreshLockIsNotDeleted == \A q \in Live :
  (doing[q] = "discard" /\ aside[q] \in Live) => lockFile # NoFile

(* A dead host does not keep a new one out, whatever a crash left behind:  *)
(* a starter is refused only while another process runs, while the record  *)
(* of a create ten seconds ago may still come, when the lock's pid is in   *)
(* other hands and its start time cannot be read, or when each of its      *)
(* attempts met a lock others created and left meanwhile.                  *)
RefusedForAReason == [][\A p \in Proc :
  (doing[p] # "refused" /\ doing'[p] = "refused") =>
     \/ Live \ {p} # {}
     \/ lockFile \in Proc \ (written \union aged)
     \/ pid[seen[p]] = "unknown"
     \/ tries'[p] = MaxAttempts]_lockVars

\* The lock of a host, or of a starter writing its record, is at the path, or in
\* the hands of a breaker about to put it back: no takeover, restore or release
\* of another process (instanceLock.ts:242-263) has thrown it away.
LockIsInPlace == LockTypeOK /\ HostKeepsItsLock
====
