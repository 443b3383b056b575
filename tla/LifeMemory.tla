----------------------------- MODULE LifeMemory -----------------------------
(* What one life remembers and how it is made to forget: her epochs         *)
(* (src/src/life/compaction.ts), the scrub of one person (src/src/life/     *)
(* forget.ts) and its durable queue (src/src/orchestration/dm/forgotten.ts),*)
(* run by her turns, the owner and the night (src/src/life/livingCast.ts).  *)
(*                                                                          *)
(* A fact is a message she has read.  It stands in the log of the epoch she *)
(* reads it in, and from there passes into her summary, into the turns a    *)
(* new epoch keeps and into her notes.  One job at a time holds her life    *)
(* lock; a job is a sequence of steps with an await after each, during      *)
(* which messages are deleted, forgets are asked for, models go and come    *)
(* back, and the process may die.                                           *)
EXTENDS Naturals, Sequences, SequencesExt

CONSTANTS Facts,
          About,       \* the facts about the person who may be forgotten
          Named,       \* those of them that carry the person's id or own name
          Deletable,   \* those whose message may be deleted on Discord
          KeptTurns,   \* turns a new epoch carries over (KEPT_TURNS)
          MaxAsks, MaxFaults, MaxModelChanges    \* bounds of the model

ASSUME MemoryAssumption ==
  /\ About \subseteq Facts /\ Named \subseteq About /\ Deletable \subseteq Facts
  /\ KeptTurns \in Nat /\ MaxAsks \in Nat /\ MaxFaults \in Nat /\ MaxModelChanges \in Nat

VARIABLES
  state,   \* state.json: [summary, pending, read, deleted, backoff]
  log,     \* the log of the current epoch, one fact a turn
  next,    \* the log of the epoch after it, written and not yet current
  old,     \* the facts about the person in the logs of earlier epochs
  notes,   \* the facts about the person in her notes
  queue,   \* the person's entry in pending-scrubs.json, or NoScrub
  job,     \* what holds her life lock
  waiting, \* the forgets and resets that wait for it
  model,   \* "own": hers is offered; "other": only one a scrub may use; "none"
  asks, faults, changes,
  known,   \* facts she has read (history)
  rested,  \* facts a rest turn of this epoch read (its notice stands in the log)
  due,     \* request -> the facts known when it was last made (history)
  excused, \* request -> those of them it loses hold of: see Ask, NoteDown and ReadNote (history)
  unpruned,\* facts in logs that should have gone and could not be deleted (history)
  gone,    \* facts whose deletion was recorded (history)
  slipped, \* of those, the ones an epoch started without listing (history)
  reset,   \* facts known when her memory was last reset (history)
  revived, \* a reset still to come was summarised again (history)
  torn     \* a failed summary of a scrub was not taken back (history)

disk == <<state, log, next, old, notes, queue>>
counts == <<asks, faults, changes>>
history == <<known, rested, due, excused, unpruned, gone, slipped, reset, revived, torn>>
vars == <<disk, job, waiting, model, counts, history>>

Requests == {"conversation", "everything", "owner"}
Rank == [conversation |-> 0, everything |-> 1, owner |-> 2]
Steps == {"files", "summary", "notes"}   \* "files" stands for all that needs no model
ModelSteps == {"summary", "notes"}

NoScrub == [source |-> "conversation", steps |-> {}, at |-> 0]
Scope(source) == IF source = "conversation" THEN "conversation" ELSE "everything"
RunOf(entry) == [at |-> entry.at, scope |-> Scope(entry.source), steps |-> entry.steps]
NoRun == RunOf(NoScrub)
ResetRun == [NoRun EXCEPT !.scope = "reset"]

\* What a job has read: turns are those a new epoch may keep, cut is what the summary request leaves out.
NoSeen == [summary |-> {}, log |-> <<>>, turns |-> <<>>, cut |-> {}, deleted |-> {}, pending |-> "no"]
NoJob == [kind |-> "none", pc |-> "idle", abort |-> FALSE, run |-> NoRun, left |-> {},
          seen |-> NoSeen, text |-> {}, kept |-> <<>>, cause |-> "none"]

Remembered == state.summary \cup ToSet(log)
Logged == ToSet(log) \cup ToSet(next) \cup old

\* An earlier process may have left a scrub whose summary could not be written.
LeftOver == [source : {"conversation", "everything"}, steps : {{"summary"}}, at : {0}]

Init ==
  /\ state = [summary |-> {}, pending |-> "no", read |-> {}, deleted |-> {}, backoff |-> FALSE]
  /\ log = <<>> /\ next = <<>> /\ old = {} /\ notes = {}
  /\ queue \in {NoScrub} \cup LeftOver /\ job = NoJob /\ waiting = {}
  /\ model = "own"
  /\ asks = 0 /\ faults = 0 /\ changes = 0
  /\ known = {} /\ rested = {} /\ unpruned = {} /\ gone = {} /\ slipped = {} /\ reset = {}
  /\ due = [r \in {"conversation", "everything"} |-> {}] /\ excused = due
  /\ revived = FALSE /\ torn = FALSE

-----------------------------------------------------------------------------
(* The life lock: the mutex is first come first served, so nothing starts   *)
(* while somebody waits.                                                    *)

At(pc) == job.pc = pc
Goes(pc) == job' = [job EXCEPT !.pc = pc]
Ends == job' = NoJob
Free == job = NoJob /\ waiting = {}
Starts(kind, pc, run) == job' = [NoJob EXCEPT !.kind = kind, !.pc = pc, !.run = run]

AbortTurn == job' = IF job.kind = "turn" THEN [job EXCEPT !.abort = TRUE] ELSE job

\* Where a scrub begins: all it has to do, or the model steps it has left.
FirstStep(run) == IF "summary" \in run.steps THEN "summary" ELSE "notes"

\* Scrubs with only model steps left run before her turn.
TakeTurn ==
  /\ Free /\ model = "own"
  /\ IF queue # NoScrub /\ "files" \notin queue.steps /\ ~state.backoff
     THEN Starts("turn", FirstStep(RunOf(queue)), RunOf(queue))
     ELSE Starts("turn", "prepare", NoRun)
  /\ UNCHANGED <<disk, waiting, model, counts, history>>

CompactNow ==
  /\ Free /\ model = "own"
  /\ Starts("compact", "prepare", NoRun)
  /\ UNCHANGED <<disk, waiting, model, counts, history>>

\* The night runs whatever is queued.
Maintain ==
  /\ Free /\ queue # NoScrub
  /\ Starts("night", FirstStep(RunOf(queue)), RunOf(queue))
  /\ UNCHANGED <<disk, waiting, model, counts, history>>

TakeWaiting ==
  /\ job = NoJob
  /\ \E run \in waiting :
       /\ waiting' = waiting \ {run}
       /\ IF run = ResetRun THEN Starts("reset", "reset", NoRun)
                            ELSE Starts("forget", FirstStep(run), run)
  /\ UNCHANGED <<disk, model, counts, history>>

\* prepareForget and runForget up to the lock: a forget is queued on disk; her turn is aborted and the scrub waits for
\* her life lock, unless the person's last one is under six hours old (limited).  A conversation's run that waits on a
\* queue with more to do ends that too.
Ask(source, limited) ==
  LET merged == IF Rank[queue.source] > Rank[source] THEN queue.source ELSE source
      run == [at |-> asks + 1, scope |-> Scope(source), steps |-> Steps]
  IN /\ asks < MaxAsks
     /\ asks' = asks + 1
     /\ limited => source # "owner"
     /\ queue' = [source |-> merged, steps |-> Steps, at |-> asks + 1]
     /\ due' = [r \in DOMAIN due |->
                  IF r = "conversation" \/ source # "conversation" THEN known \cap About ELSE due[r]]
     /\ excused' = [r \in DOMAIN due |->
                      IF r = "conversation" \/ source # "conversation" THEN {}
                      ELSE IF ~limited /\ merged # source THEN due[r] ELSE excused[r]]
     /\ IF limited THEN UNCHANGED <<waiting, job>>
        ELSE waiting' = waiting \cup {run} /\ AbortTurn
     /\ UNCHANGED <<state, log, next, old, notes, model, faults, changes,
                    known, rested, unpruned, gone, slipped, reset, revived, torn>>

\* The owner resets her memory (once in the model).
AskReset ==
  /\ ResetRun \notin waiting /\ known # {} /\ reset = {}
  /\ waiting' = waiting \cup {ResetRun}
  /\ AbortTurn
  /\ UNCHANGED <<disk, model, counts, history>>

-----------------------------------------------------------------------------
(* A turn, and the compaction before it.                                    *)

\* The next epoch: what it starts from, and why.
Epoch(text, kept, cause, seen) ==
  job' = [job EXCEPT !.pc = "log", !.text = text, !.kept = kept, !.cause = cause, !.seen = seen]
Started == job' = [job EXCEPT !.pc = "prune", !.text = {}, !.kept = <<>>, !.seen = NoSeen]

\* Mutant: without the look at the deletions.
KeptRegardless(lines, keep, deleted) ==
  SubSeq(lines, IF Len(lines) > keep THEN Len(lines) - keep + 1 ELSE 1, Len(lines))

\* The last turns of a log, without what was deleted meanwhile.
KeptOf(lines, keep, deleted) ==
  FoldLeft(LAMBDA kept, f : IF f \in deleted THEN kept ELSE Append(kept, f), <<>>,
           SubSeq(lines, IF Len(lines) > keep THEN Len(lines) - keep + 1 ELSE 1, Len(lines)))

\* Her turns, those of a rest left out.
SeenNow == [summary |-> state.summary, log |-> log, turns |-> KeptOf(log, Len(log), rested), cut |-> {},
            deleted |-> state.deleted, pending |-> state.pending]
Reads(to) == job' = [job EXCEPT !.pc = to, !.seen = SeenNow]

\* What a summary of all she could see holds, the listed facts left out.
Summarised(seen, omit) == (seen.summary \cup (ToSet(seen.log) \ seen.cut)) \ omit

\* Mutant: the limits looked at before the pending epoch.
PrepareOverLimitFirst ==
  /\ At("prepare")
  /\ \/ state.pending # "no" /\ Epoch(state.summary, <<>>, state.pending, NoSeen)
     \/ job.kind = "turn" /\ state.pending = "no" /\ Goes("reading")
     \/ Reads("condensing")
  /\ UNCHANGED <<disk, waiting, model, counts, history>>

\* A pending epoch starts as it was left; else a summary of what she can see may be asked for (over a limit and no
\* backoff, on request or for a new configuration, which has no backoff), or her configuration has changed and all her
\* turns fit, and carry over.
Prepare ==
  /\ At("prepare")
  /\ IF state.pending # "no" THEN Epoch(state.summary, <<>>, state.pending, NoSeen)
     ELSE \/ job.kind = "turn" /\ Goes("reading")
          \/ Reads("condensing")
          \/ job.kind = "turn"
             /\ Epoch(state.summary, KeptOf(SeenNow.turns, Len(SeenNow.turns), state.deleted), "carried", SeenNow)
  /\ UNCHANGED <<disk, waiting, model, counts, history>>

\* Inside a turn her request outgrows her budget, or a provider or an image makes her start over: the turn is closed,
\* and none of it is kept (n facts were there before it).  Over the budget, the summary request leaves out what the
\* last result held; refused twice, no summary is asked for.
MidTurnCompaction ==
  /\ At("reading")
  /\ \E n \in 0..Len(log) :
       LET turns == KeptOf(SubSeq(log, 1, n), n, rested)
       IN \/ /\ \E fits \in 0..Len(log) :
                  job' = [job EXCEPT !.pc = "condensing",
                            !.seen = [SeenNow EXCEPT !.turns = turns, !.cut = ToSet(SubSeq(log, fits + 1, Len(log)))]]
             /\ UNCHANGED faults
          \/ /\ faults < MaxFaults
             /\ faults' = faults + 1
             /\ \E keep \in 0..KeptTurns : Epoch(state.summary, KeptOf(turns, keep, state.deleted), "truncated", SeenNow)
  /\ UNCHANGED <<disk, waiting, model, asks, changes, history>>

\* She ends the turn with a summary of her own and starts over from it; nobody gave her the list.
Rests ==
  /\ At("reading") /\ ~job.abort
  /\ Epoch(Summarised(SeenNow, {}), <<>>, "rest", SeenNow)
  /\ UNCHANGED <<disk, waiting, model, counts, history>>

Condensed ==
  /\ At("condensing")
  /\ \E keep \in 0..KeptTurns :   \* fewer when they would fill the new epoch
       Epoch(Summarised(job.seen, job.seen.deleted), KeptOf(job.seen.turns, keep, job.seen.deleted), "summary", job.seen)
  /\ UNCHANGED <<disk, waiting, model, counts, history>>

\* A failed call falls back to the last turns and the old summary.
CondenseFails ==
  /\ At("condensing") /\ faults < MaxFaults
  /\ faults' = faults + 1
  /\ state' = [state EXCEPT !.backoff = TRUE]
  /\ \E keep \in 0..KeptTurns :
       Epoch(job.seen.summary, KeptOf(job.seen.turns, keep, job.seen.deleted), "truncated", job.seen)
  /\ UNCHANGED <<log, next, old, notes, queue, waiting, model, asks, changes, history>>

CondenseAborted ==
  /\ At("condensing") /\ job.abort
  /\ Ends
  /\ UNCHANGED <<disk, waiting, model, counts, history>>

EpochLog ==
  /\ At("log")
  /\ next' = job.kept
  /\ Goes("state")
  /\ UNCHANGED <<state, log, old, notes, queue, waiting, model, counts, history>>

\* Facts whose deletion this epoch drops from its list without having left
\* them out: recorded too late, or in a summary that is taken over as it is.
Unlisted(s) ==
  s.deleted \ CASE job.cause = "summary" -> job.seen.deleted
                 [] job.cause \in {"carried", "truncated"} -> job.seen.deleted \ job.text
                 [] OTHER -> {}

EpochState ==
  /\ At("state")
  /\ state' = [state EXCEPT !.summary = job.text, !.pending = "no", !.read = ToSet(job.kept), !.deleted = {}]
  /\ old' = old \cup (ToSet(log) \cap About)
  /\ log' = next
  /\ next' = <<>>
  /\ slipped' = slipped \cup Unlisted(state)
  /\ reset' = IF job.kind = "reset" THEN known ELSE reset
  /\ rested' = {}
  /\ Started
  /\ UNCHANGED <<notes, queue, waiting, model, counts, known, due, excused, unpruned, gone, revived, torn>>

\* The epoch of a scrub goes on with it.  What a turn does after its epoch it does as a turn that begins:
\* nobody waits for her lock then, for who does has aborted it.
GoesOn == IF job.run # NoRun THEN Goes("clear") ELSE Ends

\* The logs of a forgotten past are deleted at once, unless that fails; others stay their week.
EpochPrune ==
  /\ At("prune")
  /\ \/ job.cause = "forget" /\ old' = {} /\ unpruned' = {} /\ UNCHANGED faults
     \/ /\ job.cause = "forget" /\ faults < MaxFaults
        /\ faults' = faults + 1
        /\ unpruned' = unpruned \cup old
        /\ UNCHANGED old
     \/ job.cause # "forget" /\ UNCHANGED <<old, unpruned, faults>>
  /\ GoesOn
  /\ UNCHANGED <<state, log, next, notes, queue, waiting, model, asks, changes,
                 known, rested, due, excused, gone, slipped, reset, revived, torn>>

\* The turn may be a rest turn.
Read(f) ==
  /\ At("reading") /\ ~job.abort
  /\ f \notin known
  /\ known' = known \cup {f}
  /\ log' = Append(log, f)
  /\ rested' \in {rested, rested \cup {f}}
  /\ state' = [state EXCEPT !.read = @ \cup {f}]
  /\ UNCHANGED <<next, old, notes, queue, job, waiting, model, counts, due, excused, unpruned, gone, slipped, reset, revived, torn>>

\* Only model steps of a scrub are left, and this is none of them.
LeftWithout(step) == queue # NoScrub /\ {"files", step} \cap queue.steps = {}

\* A turn may pass the person between her memory and her notes, past a scrub that no longer looks there.
NoteDown(f) ==
  /\ At("reading") /\ ~job.abort
  /\ f \in (Remembered \cap About) \ notes
  /\ notes' = notes \cup {f}
  /\ excused' = IF LeftWithout("notes") THEN [excused EXCEPT !["everything"] = @ \cup ({f} \cap due["everything"])] ELSE excused
  /\ UNCHANGED <<state, log, next, old, queue, job, waiting, model, counts,
                 known, rested, due, unpruned, gone, slipped, reset, revived, torn>>

ReadNote(f) ==
  /\ At("reading") /\ ~job.abort
  /\ f \in notes \ Remembered
  /\ log' = Append(log, f)
  /\ rested' \in {rested, rested \cup {f}}
  /\ reset' = reset \ {f} /\ gone' = gone \ {f}   \* she knows it from her notes again
  /\ due' = IF queue = NoScrub THEN [due EXCEPT !["conversation"] = @ \ {f}] ELSE due
  /\ excused' = IF LeftWithout("summary") THEN [r \in DOMAIN due |-> excused[r] \cup ({f} \cap due[r])] ELSE excused
  /\ UNCHANGED <<state, next, old, notes, queue, job, waiting, model, counts, known, unpruned, slipped, revived, torn>>

EndTurn ==
  /\ At("reading")
  /\ Ends
  /\ UNCHANGED <<disk, waiting, model, counts, history>>

-----------------------------------------------------------------------------
(* A scrub.                                                                 *)

\* The epoch waits for the notes session, unless only a conversation goes.
AfterSummary(left) ==
  IF job.run.scope = "conversation" THEN (IF left = {} THEN "epoch" ELSE "clear")
  ELSE IF "notes" \in job.run.steps THEN "notes"
  ELSE IF left = {} THEN "verify" ELSE "clear"

\* Mutant: the whole scrub left over.
AllWaits ==
  job' = [job EXCEPT !.left = {"summary", "files"}, !.seen = NoSeen, !.pc = AfterSummary({"summary"})]

SummaryWaits ==
  job' = [job EXCEPT !.left = {"summary"}, !.seen = NoSeen, !.pc = AfterSummary({"summary"})]

ScrubReads ==
  /\ At("summary") /\ model # "none"
  /\ Reads("writing")
  /\ UNCHANGED <<disk, waiting, model, counts, history>>

ScrubWithoutModel ==
  /\ At("summary") /\ model = "none"
  /\ SummaryWaits
  /\ UNCHANGED <<disk, waiting, model, counts, history>>

\* Her summary without the person; the epoch is left to start.
Scrubbed ==
  /\ At("writing")
  /\ state' = [state EXCEPT !.summary = Summarised(job.seen, About), !.pending = "forget"]
  /\ revived' = (revived \/ torn \/ job.seen.pending = "reset")
  /\ job' = [job EXCEPT !.pc = AfterSummary({}), !.seen = NoSeen]
  /\ UNCHANGED <<log, next, old, notes, queue, waiting, model, counts, known, rested, due, excused, unpruned, gone, slipped, reset, torn>>

\* A failed call sets the backoff, ...
ScrubFails ==
  /\ At("writing") /\ faults < MaxFaults
  /\ faults' = faults + 1
  /\ state' = [state EXCEPT !.backoff = TRUE]
  /\ Goes("failing")
  /\ UNCHANGED <<log, next, old, notes, queue, waiting, model, asks, changes, history>>

\* ... is then written as if it had left an epoch to start ...
EpochLeft ==
  /\ At("failing")
  /\ state' = [state EXCEPT !.pending = "forget"]
  /\ Goes("revert")
  /\ UNCHANGED <<log, next, old, notes, queue, waiting, model, counts, history>>

\* Mutant: the summary alone taken back.
TakeBackSummary ==
  /\ At("revert")
  /\ state' = [state EXCEPT !.summary = job.seen.summary]
  /\ SummaryWaits
  /\ UNCHANGED <<log, next, old, notes, queue, waiting, model, counts, history>>

\* ... and then taken back.
TakeBack ==
  /\ At("revert")
  /\ state' = [state EXCEPT !.summary = job.seen.summary, !.pending = job.seen.pending]
  /\ SummaryWaits
  /\ UNCHANGED <<log, next, old, notes, queue, waiting, model, counts, history>>

\* Only the night passes on its signal, and only to the steps of a scrub left over.
ScrubAborted ==
  /\ At("writing") /\ job.abort /\ job.kind = "night" /\ "files" \notin job.run.steps
  /\ SummaryWaits
  /\ UNCHANGED <<disk, waiting, model, counts, history>>

SummaryDone(left) == "summary" \in job.run.steps \ left

\* The notes session, and the check of her files, which goes by names alone.
ScrubNotes ==
  /\ At("notes")
  /\ \/ /\ model # "none"
        /\ notes' = notes \ About
        /\ Goes("verify")
        /\ UNCHANGED faults
     \/ /\ model = "none" \/ faults < MaxFaults
        /\ faults' = IF model = "none" THEN faults ELSE faults + 1
        /\ job' = [job EXCEPT !.left = @ \cup {"notes"},
                     !.pc = IF "files" \in job.run.steps \/ SummaryDone(job.left) THEN "verify" ELSE "clear"]
        /\ UNCHANGED notes
  /\ UNCHANGED <<state, log, next, old, queue, waiting, model, asks, changes, history>>

Verify ==
  /\ At("verify")
  /\ notes' = notes \ Named
  /\ Goes(IF SummaryDone(job.left) THEN "epoch" ELSE "clear")
  /\ UNCHANGED <<state, log, next, old, queue, waiting, model, counts, history>>

\* Without her own model there is no prompt for an epoch: it stays to start.
StartEpochNow ==
  /\ At("epoch")
  /\ IF model = "own" THEN Epoch(state.summary, <<>>, "forget", NoSeen) /\ UNCHANGED state
     ELSE state' = [state EXCEPT !.pending = "forget"] /\ Goes("drop")
  /\ UNCHANGED <<log, next, old, notes, queue, waiting, model, counts, history>>

DropLogs ==
  /\ At("drop")
  /\ \/ log' = <<>> /\ next' = <<>> /\ old' = {} /\ unpruned' = {} /\ UNCHANGED faults
     \/ /\ faults < MaxFaults
        /\ faults' = faults + 1
        /\ unpruned' = unpruned \cup (Logged \cap About)
        /\ UNCHANGED <<log, next, old>>
  /\ Goes("clear")
  /\ UNCHANGED <<state, notes, queue, waiting, model, asks, changes,
                 known, rested, due, excused, gone, slipped, reset, revived, torn>>

\* Mutant: the scrub dropped once it ran, whatever it has left.
ClearAnyway ==
  /\ At("clear")
  /\ queue' = IF queue.at # job.run.at THEN queue ELSE NoScrub
  /\ IF job.kind = "turn" THEN job' = [NoJob EXCEPT !.kind = "turn", !.pc = "prepare", !.abort = job.abort] ELSE Ends
  /\ UNCHANGED <<state, log, next, old, notes, waiting, model, counts, history>>

\* What ran leaves the queue, or stays for the steps it has left; an entry
\* queued again meanwhile is not the one that ran.
Clear ==
  /\ At("clear")
  /\ queue' = IF queue.at # job.run.at THEN queue
              ELSE IF job.left = {} THEN NoScrub ELSE [queue EXCEPT !.steps = job.left]
  /\ IF job.kind = "turn" THEN job' = [NoJob EXCEPT !.kind = "turn", !.pc = "prepare", !.abort = job.abort] ELSE Ends
  /\ UNCHANGED <<state, log, next, old, notes, waiting, model, counts, history>>

-----------------------------------------------------------------------------
(* A reset, a deletion, and what the world does.                            *)

Reset ==
  /\ At("reset")
  /\ IF model = "own" THEN Epoch({}, <<>>, "reset", NoSeen) /\ UNCHANGED <<state, reset>>
     ELSE /\ state' = [state EXCEPT !.summary = {}, !.pending = "reset"]
          /\ reset' = known
          /\ Ends
  /\ UNCHANGED <<log, next, old, notes, queue, waiting, model, counts, known, rested, due, excused, unpruned, gone, slipped, revived, torn>>

\* An epoch's log and state are written under the lock of the state file.
Deleted(f) ==
  /\ f \in (Deletable \cap state.read) \ state.deleted
  /\ ~At("state")
  /\ state' = [state EXCEPT !.deleted = @ \cup {f}]
  /\ gone' = gone \cup {f}
  /\ UNCHANGED <<log, next, old, notes, queue, job, waiting, model, counts, known, rested, due, excused, unpruned, slipped, reset, revived, torn>>

BackoffEnds ==
  /\ state.backoff
  /\ state' = [state EXCEPT !.backoff = FALSE]
  /\ UNCHANGED <<log, next, old, notes, queue, job, waiting, model, counts, history>>

ModelChanges(m) ==
  /\ m # model /\ changes < MaxModelChanges
  /\ changes' = changes + 1
  /\ model' = m
  /\ UNCHANGED <<disk, job, waiting, asks, faults, history>>

\* A pause or a reload aborts what listens to it.
Interrupt ==
  /\ job.kind \in {"turn", "compact", "night"} /\ ~job.abort /\ faults < MaxFaults
  /\ faults' = faults + 1
  /\ job' = [job EXCEPT !.abort = TRUE]
  /\ UNCHANGED <<disk, waiting, model, asks, changes, history>>

\* A step throws: the queue keeps the scrub; a turn that ran it first goes on
\* without it, and every other job lets the lock go.
Throws ==
  /\ job # NoJob /\ faults < MaxFaults
  /\ faults' = faults + 1
  /\ torn' = (torn \/ At("revert"))
  /\ IF job.kind = "turn" /\ job.run # NoRun
     THEN job' = [NoJob EXCEPT !.kind = "turn", !.pc = "prepare", !.abort = job.abort] ELSE Ends
  /\ UNCHANGED <<disk, waiting, model, asks, changes, known, rested, due, excused, unpruned, gone, slipped, reset, revived>>

\* At boot the owner's scrubs are first in line for her life lock.
Crash ==
  /\ faults < MaxFaults
  /\ faults' = faults + 1
  /\ torn' = (torn \/ At("revert"))
  /\ waiting' = {}
  /\ IF queue.source = "owner" THEN Starts("forget", FirstStep(RunOf(queue)), RunOf(queue)) ELSE Ends
  /\ UNCHANGED <<disk, model, asks, changes, known, rested, due, excused, unpruned, gone, slipped, reset, revived>>

-----------------------------------------------------------------------------
JobStep ==
  \/ Prepare \/ Condensed \/ CondenseFails \/ CondenseAborted
  \/ MidTurnCompaction \/ Rests \/ EpochLog \/ EpochState \/ EpochPrune \/ EndTurn
  \/ ScrubReads \/ ScrubWithoutModel \/ Scrubbed \/ ScrubFails \/ EpochLeft \/ TakeBack \/ ScrubAborted
  \/ ScrubNotes \/ Verify \/ StartEpochNow \/ DropLogs \/ Clear \/ Reset

Next ==
  \/ JobStep
  \/ TakeTurn \/ CompactNow \/ Maintain \/ TakeWaiting
  \/ \E source \in Requests, limited \in BOOLEAN : Ask(source, limited)
  \/ AskReset \/ BackoffEnds \/ Interrupt \/ Throws \/ Crash
  \/ \E f \in Facts : Read(f) \/ NoteDown(f) \/ ReadNote(f) \/ Deleted(f)
  \/ \E m \in {"own", "other", "none"} : ModelChanges(m)

Spec == Init /\ [][Next]_vars

\* Whoever holds the lock goes on; who waits for it, the night among them, is
\* let in at its turn.
Fairness == WF_vars(JobStep) /\ WF_vars(TakeWaiting) /\ SF_vars(Maintain)

FairSpec == Spec /\ Fairness

-----------------------------------------------------------------------------
TypeOK ==
  /\ state \in [summary : SUBSET Facts, pending : {"no", "forget", "reset"},
                read : SUBSET Facts, deleted : SUBSET Facts, backoff : BOOLEAN]
  /\ log \in Seq(Facts) /\ next \in Seq(Facts) /\ old \subseteq About /\ notes \subseteq About
  /\ queue \in [source : Requests, steps : SUBSET Steps, at : 0..MaxAsks]
  /\ job.run.scope \in {"conversation", "everything"} /\ job.left \subseteq ModelSteps
  /\ model \in {"own", "other", "none"}

\* After a reset nothing read before it comes back into her summary, nor is it in
\* her log once the fresh epoch has started; it does not hold of a deferred one.
ResetIsFinal ==
  /\ reset \cap state.summary = {}
  /\ state.pending = "no" => reset \cap ToSet(log) = {}

\* A forget that has left the queue has been carried out: nothing known when
\* it was asked for stands in her summary or in any log that could be deleted,
\* and for more than a conversation nothing in her notes (forget.ts, step 5; the
\* queue drops a scrub only when it ran).  Excused is what a conversation's run
\* ended with it, and what her turns passed where its last steps do not look.
Due(r) == due[r] \ excused[r]
AskedIsDone ==
  queue = NoScrub =>
    /\ Due("conversation") \cap (state.summary \cup (Logged \ unpruned)) = {}
    /\ Due("everything") \cap notes = {}

\* The same of every fact, and of every log; neither holds.
AskedIsAlwaysDone ==
  queue = NoScrub =>
    /\ due["conversation"] \cap (state.summary \cup (Logged \ unpruned)) = {}
    /\ due["everything"] \cap notes = {}
LogsAreDeleted == queue = NoScrub => Due("conversation") \cap Logged = {}

\* What somebody else said is only lost to her by a reset, by its deletion, by
\* a summary that failed, as a result too large for the summary request or as
\* what a rest turn read when all her other turns carry over: never by a forget
\* or by an interruption, unless a step dies before the write of a failed scrub
\* is taken back (compaction.ts, withoutLastResults, keptTurnLines, deferEpoch;
\* forget.ts: a failed call leaves her summary and epoch as they were).
KeptUnless(excuse, dropped) ==
  \A f \in Remembered \ Remembered' :
    \/ f \in About \cup gone \/ job.kind = "reset" \/ job.cause \in {"truncated", "reset"}
    \/ job.cause = "summary" /\ f \in job.seen.cut
    \/ job.cause = "carried" /\ f \in dropped
    \/ excuse
MemoryIsKept == [][KeptUnless(torn, rested)]_vars

\* The same without the torn write, and without what a rest turn read; neither holds.
MemoryIsAlwaysKept == [][KeptUnless(FALSE, rested)]_vars
RestTurnsAreCarried == [][KeptUnless(torn, {})]_vars

\* A deletion that was on the list when a compaction read her state is left out
\* of the summary and the turns it starts her next epoch from, or is still on
\* the list (life.ts, deletedReadIds).  Slipped are those recorded after that
\* read, and those before an epoch that takes a summary as it is: a pending
\* one, and the one she writes herself.
DeletedIsLeftOut == (gone \ slipped) \cap Remembered \subseteq state.deleted

\* The same of every deletion; it does not hold.
EveryDeletionIsLeftOut == gone \cap Remembered \subseteq state.deleted

\* After a reset nothing read before it is in her summary, nor in her log once
\* the fresh epoch has started (livingCast.ts, resetLife), unless a scrub came
\* between a reset that has to wait for a model and its epoch.
ResetLeavesNothing == revived \/ ResetIsFinal

\* A forget leaves the queue in the end if a model is there to stay: the night
\* runs what a failure, a crash or a missing model left (livingCast.ts, maintain).
ForgetIsDone ==
  <>[](model # "none") => []((queue # NoScrub) => <>(queue = NoScrub))

\* A scrub or a reset that has left the queue has left nothing of what it was
\* for: neither in her summary nor in a log nor, for a whole forget, in her notes.
ForgottenIsGone == TypeOK /\ AskedIsDone /\ ResetLeavesNothing
=============================================================================
