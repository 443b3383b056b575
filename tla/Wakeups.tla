------------------------------- MODULE Wakeups -------------------------------
(***************************************************************************)
(* Her wakeups (src/src/life/wakeups): reminders at a time, repeating      *)
(* ones, watches on messages, kept in a file of hers that she, the owner,  *)
(* the scheduler's tick (src/src/life/scheduler.ts) and every incoming     *)
(* message rewrite, with a side file of the app beside it (what fired).    *)
(* Each rewrite holds her home lock; between two of them anything happens: *)
(* an edit, a message, a pause, a turn that takes the queue, a crash.      *)
(*                                                                         *)
(* One reminder (a), one repeating time (e), one watch that fires once (o) *)
(* and one repeating watch (r), over the clock 0 .. MaxTime; messages all  *)
(* come from one room and match both watches. A wake is a tuple            *)
(* <<kind, wakeup, n>>: n is the due time of a timed wake or of an end,    *)
(* the message of a watch. The queue itself is in WakeQueue: here it is    *)
(* the set of the wakes in it, which is all the router's dedupe looks at.  *)
(***************************************************************************)
EXTENDS Naturals, Sequences, FiniteSets

CONSTANTS Msgs,       \* messages of the room
          Starts,     \* what her file may start with
          MaxTime,    \* bound: the clock
          DueAt,      \* when the reminder is set for, and where she may move it
          Period,     \* the repeating time comes every Period
          EndOnce,    \* when the once watch ends
          Spacing,    \* WATCH_MIN_SPACING_MS
          MaxFires,   \* life.maxWatchFiresPerDay
          MaxUpsets   \* bound, for each start: crashes, failed ticks, pauses, edits,
                      \* budget changes

Ids == {"a", "e", "o", "r"}

ASSUME WakeupsAssumption ==
  /\ Starts \subseteq SUBSET Ids
  /\ MaxTime \in Nat /\ EndOnce \in Nat \ {0}
  /\ DueAt \subseteq Nat \ {0} /\ DueAt # {}
  /\ Period \in Nat \ {0} /\ Spacing \in Nat /\ MaxFires \in Nat
  /\ Starts \subseteq DOMAIN MaxUpsets /\ \A s \in Starts : MaxUpsets[s] \in Nat

VARIABLES
  now, up, paused,
  over,     \* her daily budget is spent
  spoke,    \* recentSends: when she last wrote in the room, 0 for never
  file,     \* wakeups in ~/life/wakeups.json
  clean,    \* it reads whole
  due,      \* the `when` of the reminder
  fired,    \* side file: wake ids routed, once watches that matched
  since,    \* side file: where the repeating time counts from
  fires,    \* side file: when the repeating watch fired
  held,     \* side file: the match its spacing holds back, if any
  queue, deferred,
  tick,     \* the scheduler's tick: where it is and what it read
  msg,      \* per message: where its handling is and what it read
  upsets,
  \* what happened so far
  known,    \* the wakeups she set
  heard,    \* wakes a turn of hers took
  twice,    \* and took again
  dropped,  \* wakes the router refused
  cutOff,   \* matches whose wake a crash took
  again,    \* wakes routed but not recorded when the tick ended early
  letGo,    \* due wakes she moved or removed herself
  rung,     \* when the repeating watch rang
  tooSoon,  \* it rang before its spacing was over
  crossed   \* a message (or a write of hers) came while a tick held what it
            \* changes: "end" of the once watch, "held" match of the repeating one

world == <<now, up, paused, over, spoke>>
side == <<fired, since, fires, held>>
disk == <<file, clean, due, side>>
inbox == <<queue, deferred>>
happened == <<known, heard, twice, dropped, cutOff, again, letGo, rung, tooSoon,
            crossed>>
wakeVars == <<world, disk, inbox, tick, msg, upsets, happened>>

Times == 0 .. MaxTime
At(t) == <<"at", "a", t>>
EveryAt(t) == <<"every", "e", t>>
End == <<"end", "o", EndOnce>>
OnceKey == <<"once", "o", EndOnce>>
Match(w, m) == <<"match", w, m>>
Held(m) == <<"held", "r", m>>
TimedWakes == {At(t) : t \in DueAt} \union {EveryAt(t) : t \in Times} \union {End}
MatchWakes == {Match(w, m) : w \in {"o", "r"}, m \in Msgs}
HeldWakes == {Held(m) : m \in Msgs}
Wakes == TimedWakes \union MatchWakes \union HeldWakes

NoTick == [pc |-> "idle", left |-> {}, marks |-> {}, gone |-> {}, due |-> 0,
           count |-> 0, held |-> {}, rang |-> FALSE, at |-> 0]
Unposted == [pc |-> "none", posted |-> 0, at |-> 0, sent |-> 0, saw |-> {},
             wakes |-> {}]

WakeupsTypeOK ==
  /\ now \in Times /\ up \in BOOLEAN /\ paused \in BOOLEAN
  /\ over \in BOOLEAN /\ clean \in BOOLEAN /\ spoke \in Times
  /\ file \subseteq known /\ known \in Starts /\ due \in DueAt
  /\ fired \subseteq TimedWakes \union {OnceKey}
  /\ since \in Times /\ fires \in Seq(Times) /\ held \subseteq Msgs
  /\ queue \subseteq Wakes /\ deferred \subseteq Wakes
  /\ tick \in [pc : {"idle", "route", "mark", "rewrite", "held", "release"},
               left : SUBSET TimedWakes, marks : SUBSET TimedWakes,
               gone : SUBSET Ids, due : DueAt \union {0}, count : Times,
               held : SUBSET Msgs, rang : BOOLEAN, at : Times]
  /\ msg \in [Msgs -> [pc : {"none", "posted", "looked", "matched", "done"},
                       posted : Times, at : Times, sent : Times,
                       saw : SUBSET {"o", "r"}, wakes : SUBSET MatchWakes]]
  /\ upsets \in 0 .. MaxUpsets[known]
  /\ heard \subseteq Wakes /\ twice \subseteq heard
  /\ dropped \subseteq Wakes /\ cutOff \subseteq MatchWakes
  /\ again \subseteq TimedWakes \union HeldWakes
  /\ letGo \subseteq TimedWakes
  /\ rung \in Seq(Times) /\ tooSoon \in BOOLEAN
  /\ crossed \subseteq {"end", "held"}

Out == queue \union deferred \union heard \union dropped

WakeupsInit ==
  /\ now = 0 /\ up = TRUE /\ paused = FALSE /\ over = FALSE /\ spoke = 0
  /\ known \in Starts /\ file = known /\ clean = TRUE /\ due \in DueAt
  /\ fired = {} /\ since = 0 /\ fires = <<>> /\ held = {}
  /\ queue = {} /\ deferred = {} /\ tick = NoTick
  /\ msg = [m \in Msgs |-> Unposted]
  /\ upsets = 0
  /\ heard = {} /\ twice = {} /\ dropped = {} /\ cutOff = {} /\ again = {}
  /\ letGo = {} /\ rung = <<>> /\ tooSoon = FALSE /\ crossed = {}

-----------------------------------------------------------------------------
(* The router, as far as a wake of hers is concerned.                      *)

\* Paused: dropped. Over her daily budget: deferred. Else queued; an id that is
\* already there is not added twice.
Route(ws) ==
  /\ dropped' = dropped \union (IF paused THEN ws ELSE {})
  /\ deferred' = deferred \union (IF ~paused /\ over THEN ws ELSE {})
  /\ queue' = queue \union (IF ~paused /\ ~over THEN ws ELSE {})

\* The day's batch, once she is under her budget again.
ReleaseDeferred ==
  /\ up /\ ~paused /\ ~over
  /\ deferred # {}
  /\ queue' = queue \union deferred /\ deferred' = {}
  /\ UNCHANGED <<world, disk, tick, msg, upsets, happened>>

\* A turn of hers takes what is queued, and may write in the room.
Turn ==
  /\ up /\ queue # {}
  /\ spoke' \in {spoke, now}
  /\ heard' = heard \union queue
  /\ twice' = twice \union (heard \intersect queue)
  /\ queue' = {}
  /\ UNCHANGED <<now, up, paused, over, disk, deferred, tick, msg, upsets,
                 known, dropped, cutOff, again, letGo, rung, tooSoon, crossed>>

-----------------------------------------------------------------------------
(* The tick.                                                               *)

\* rewriteWakeups: the file is written only when it reads whole; the side file
\* always is.
Rewritten(new) == IF clean THEN new ELSE file

\* Mutant: the next time of the repeating wakeup, due or not.
NextTime == ((since \div Period) + 1) * Period

\* The latest time of the repeating wakeup since it counts.
Latest ==
  LET past == {t \in since + 1 .. now : t % Period = 0}
  IN IF past = {} THEN 0 ELSE CHOOSE t \in past : \A u \in past : u <= t

\* Mutant: only a tick in that very minute finds the reminder due.
DueAtsNow == IF "a" \in file /\ due = now THEN {At(due)} ELSE {}

DueAts == IF "a" \in file /\ due <= now THEN {At(due)} ELSE {}
DueEvery == IF "e" \in file /\ Latest > 0 THEN {EveryAt(Latest)} ELSE {}

\* Mutant: what was recorded as routed is due again.
DueAgain == DueAts \union DueEvery

\* dueTimed: due, and not recorded as routed.
DueTimed == (DueAts \union DueEvery) \ fired

Ended == "o" \in file /\ EndOnce <= now

\* Mutant: the end of a watch, whether or not it matched.
EndedAll == IF Ended THEN {End} \ fired ELSE {}

\* endedWakeups: the end of a watch that has not matched.
EndedWakes == IF Ended /\ OnceKey \notin fired THEN {End} \ fired ELSE {}

\* The spacing and the daily cap of the repeating watch, at time n.
Spaced(n) == fires # <<>> => n >= fires[Len(fires)] + Spacing
UnderCap == Len(fires) < MaxFires

\* dueHeldMatches: the held match, once the spacing allows.
DueHeld == IF "r" \in file /\ Spaced(now) /\ UnderCap THEN held ELSE {}

\* One read of both files decides what the tick does: what it routes, records
\* and removes, and the held match it lets go.
BeginTick(fresh) ==
  /\ up /\ ~paused /\ tick = NoTick
  /\ fresh # {} \/ DueAts # {} \/ Ended \/ DueHeld # {}
  /\ tick' = [pc |-> IF fresh = {} THEN "rewrite" ELSE "route",
              left |-> fresh, marks |-> fresh,
              gone |-> {x \in {"a"} : DueAts # {}} \union {x \in {"o"} : Ended},
              due |-> due,
              count |-> IF DueEvery \intersect fresh # {} THEN Latest ELSE 0,
              held |-> DueHeld, rang |-> FALSE, at |-> now]

\* Mutant: recorded as they are read, then routed.
TickRecordsFirst ==
  /\ BeginTick(DueTimed \union EndedWakes)
  /\ fired' = fired \union DueTimed \union EndedWakes
  /\ UNCHANGED <<world, file, clean, due, since, fires, held, inbox, msg, upsets,
                 happened>>

Tick ==
  /\ BeginTick(DueTimed \union EndedWakes)
  /\ UNCHANGED <<world, disk, inbox, msg, upsets, happened>>

\* Each is routed, under the id made of the wakeup and its time.
TickRoutes ==
  /\ up /\ tick.pc = "route"
  /\ \E w \in tick.left :
       /\ Route({w})
       /\ tick' = [tick EXCEPT !.left = @ \ {w},
                               !.pc = IF tick.left = {w} THEN "mark" ELSE @]
  /\ UNCHANGED <<world, disk, msg, upsets, known, heard, twice, cutOff, again, letGo,
                 rung, tooSoon, crossed>>

\* markWakeupsFired: then recorded as routed.
TickMarks ==
  /\ up /\ tick.pc = "mark"
  /\ fired' = fired \union tick.marks
  /\ tick' = [tick EXCEPT !.pc = "rewrite"]
  /\ UNCHANGED <<world, file, clean, due, since, fires, held, inbox, msg,
                 upsets, happened>>

\* Mutant: removed by its id, though she moved it meanwhile.
TickFileById == Rewritten(file \ tick.gone)

\* Only then removed, or counted on from; a reminder she moved in between stays.
TickFile == Rewritten(file \ {x \in tick.gone : x = "a" => due = tick.due})

TickRewrites ==
  /\ up /\ tick.pc = "rewrite"
  /\ file' = TickFile
  /\ since' = IF tick.count > 0 /\ "e" \in file THEN tick.count ELSE since
  /\ tick' = [tick EXCEPT !.pc = "held"]
  /\ UNCHANGED <<world, clean, due, fired, fires, held, inbox, msg, upsets,
                 happened>>

\* Ghost: the repeating watch rings at time n; sent is her last send then.
Rings(n, sent) ==
  /\ rung' = Append(rung, n)
  /\ tooSoon' = (tooSoon \/ (rung # <<>> /\ LET last == rung[Len(rung)]
                                          IN n < last + Spacing /\ sent <= last))

\* releaseHeldMatches: the match the tick read is routed, unless she wrote in
\* the room after it, or its line is gone from the transcript.
TickHeld ==
  /\ up /\ tick.pc = "held"
  /\ \E rings \in SUBSET {m \in tick.held : spoke <= msg[m].posted} :
        /\ Route({Held(m) : m \in rings})
        /\ tick' = IF tick.held = {} THEN NoTick
                   ELSE [tick EXCEPT !.pc = "release", !.rang = rings # {}]
        /\ IF rings # {} THEN Rings(tick.at, 0) ELSE UNCHANGED <<rung, tooSoon>>
  /\ UNCHANGED <<world, disk, msg, upsets, known, heard, twice, cutOff, again, letGo,
                 crossed>>

\* Mutant: the held match is neither cleared nor counted.
TickReleasesNothing ==
  /\ up /\ tick.pc = "release"
  /\ tick' = NoTick
  /\ UNCHANGED <<world, disk, inbox, msg, upsets, happened>>

\* Only the match it fired is cleared and counted; one held meanwhile stays.
TickReleases ==
  /\ up /\ tick.pc = "release"
  /\ IF held = tick.held
     THEN /\ held' = {}
          /\ fires' = IF tick.rang THEN Append(fires, tick.at) ELSE fires
     ELSE UNCHANGED <<held, fires>>
  /\ tick' = NoTick
  /\ UNCHANGED <<world, file, clean, due, fired, since, inbox, msg, upsets,
                 happened>>

-----------------------------------------------------------------------------
(* A message.                                                              *)

\* A message of the room; one no watch looks at changes nothing here.
Post(m) ==
  /\ msg[m].pc = "none" /\ {"o", "r"} \intersect known # {}
  /\ msg' = [msg EXCEPT ![m] = [Unposted EXCEPT !.pc = "posted", !.posted = now]]
  /\ UNCHANGED <<world, disk, inbox, tick, upsets, happened>>

\* fireWakeupWatches reads both files, before it runs the filters: the watches
\* that had not ended when the message was posted, and have not matched.
Look(m) ==
  /\ up /\ ~paused /\ msg[m].pc = "posted"
  /\ LET saw == {w \in file \intersect {"o", "r"} :
                   w = "o" => EndOnce > msg[m].posted /\ OnceKey \notin fired}
     IN msg' = [msg EXCEPT ![m].pc = IF saw = {} THEN "done" ELSE "looked",
                           ![m].saw = saw, ![m].at = now, ![m].sent = spoke]
  /\ UNCHANGED <<world, disk, inbox, tick, upsets, happened>>

\* Mutant: what the message saw before its filters ran.
OnceFiresSeen(m) == "o" \in msg[m].saw

\* The once watch fires if it is still there and has not matched meanwhile.
OnceFires(m) == "o" \in msg[m].saw \intersect file /\ OnceKey \notin fired

\* She wrote in the room since the repeating watch last fired.
Conversing(m) == fires # <<>> /\ msg[m].sent > fires[Len(fires)]

RepeatMatches(m) == "r" \in msg[m].saw \intersect file /\ UnderCap
RepeatFires(m) == RepeatMatches(m) /\ (Spaced(msg[m].at) \/ Conversing(m))

\* Mutant: the repeating watch's wake stands for both.
WakesOfFirst(m, fire) == {Match(w, m) : w \in IF "r" \in fire THEN {"r"} ELSE fire}

\* Every wakeup that fired for the message.
WakesOf(m, fire) == {Match(w, m) : w \in fire}

\* Then it rewrites them: a once watch that matched is removed and remembered;
\* the repeating one notes the time, or keeps the match until its spacing is
\* over; a new one takes the place of one kept.
Fire(m) ==
  /\ up /\ msg[m].pc = "looked"
  /\ LET fire == {w \in {"o"} : OnceFires(m)} \union {w \in {"r"} : RepeatFires(m)}
     IN /\ file' = Rewritten(file \ (fire \intersect {"o"}))
        /\ fired' = IF "o" \in fire THEN fired \union {OnceKey} ELSE fired
        /\ IF "r" \in fire
           THEN /\ fires' = Append(fires, msg[m].at) /\ held' = {}
                /\ Rings(msg[m].at, msg[m].sent)
           ELSE /\ held' = IF RepeatMatches(m) THEN {m} ELSE held
                /\ UNCHANGED <<fires, rung, tooSoon>>
        /\ msg' = [msg EXCEPT ![m].pc = IF fire = {} THEN "done" ELSE "matched",
                              ![m].wakes = WakesOf(m, fire)]
        /\ crossed' = crossed
             \union {x \in {"end"} : "o" \in fire /\ End \in Out \union tick.marks}
             \union {x \in {"held"} : tick.held # {} /\ RepeatMatches(m)}
  /\ UNCHANGED <<world, clean, due, since, inbox, tick, upsets, known, heard, twice,
                 dropped, cutOff, again, letGo>>

\* Several wakeups on one message are one wake. The message is routed then.
RouteMatch(m) ==
  /\ up /\ msg[m].pc = "matched"
  /\ Route(msg[m].wakes)
  /\ msg' = [msg EXCEPT ![m].pc = "done"]
  /\ UNCHANGED <<world, disk, tick, upsets, known, heard, twice, cutOff, again, letGo,
                 rung, tooSoon, crossed>>

-----------------------------------------------------------------------------
(* Around them.                                                            *)

Upset == upsets < MaxUpsets[known] /\ upsets' = upsets + 1

Clock == /\ now < MaxTime /\ now' = now + 1
         /\ UNCHANGED <<up, paused, over, spoke, disk, inbox, tick, msg, upsets,
                        happened>>

\* What a tick has routed and not recorded.
Unrecorded ==
  (IF tick.pc \in {"route", "mark"} THEN tick.marks \ tick.left ELSE {})
  \union (IF tick.rang THEN {Held(m) : m \in tick.held} ELSE {})

\* A call of the tick throws: the tick logs it, the next one starts over.
TickFails ==
  /\ up /\ tick # NoTick
  /\ Upset
  /\ tick' = NoTick /\ again' = again \union Unrecorded
  /\ UNCHANGED <<world, disk, inbox, msg, known, heard, twice, dropped, cutOff, letGo,
                 rung, tooSoon, crossed>>

Handling == {m \in Msgs : msg[m].pc \in {"looked", "matched"}}

\* The process stops; a rewrite may have written the file and not the side
\* file. A message not routed is taken again by the catch-up.
ProcessStops ==
  /\ up /\ up' = FALSE
  /\ Upset
  /\ LET firing == {m \in Handling : msg[m].pc = "looked" /\ OnceFires(m)}
     IN \/ /\ file' = file
           /\ cutOff' = cutOff \union UNION {msg[m].wakes : m \in Handling}
        \/ /\ firing # {} /\ clean
           /\ file' = file \ {"o"}
           /\ \E m \in firing :
                cutOff' = cutOff \union {Match("o", m)}
                             \union UNION {msg[n].wakes : n \in Handling}
        \/ /\ tick.pc = "rewrite"
           /\ file' = TickFile
           /\ cutOff' = cutOff \union UNION {msg[m].wakes : m \in Handling}
  /\ tick' = NoTick /\ again' = again \union Unrecorded
  /\ msg' = [m \in Msgs |->
               IF m \in Handling
               THEN [Unposted EXCEPT !.pc = "posted", !.posted = msg[m].posted]
               ELSE msg[m]]
  /\ UNCHANGED <<now, paused, over, spoke, clean, due, side, inbox, known, heard, twice,
                 dropped, letGo, rung, tooSoon, crossed>>

Restart ==
  /\ ~up /\ up' = TRUE
  /\ UNCHANGED <<now, paused, over, spoke, disk, inbox, tick, msg, upsets, happened>>

Pause ==
  /\ up /\ ~paused /\ paused' = TRUE
  /\ Upset
  /\ UNCHANGED <<now, up, over, spoke, disk, inbox, tick, msg, happened>>

Resume ==
  /\ up /\ paused /\ paused' = FALSE
  /\ UNCHANGED <<now, up, over, spoke, disk, inbox, tick, msg, upsets, happened>>

Spend ==
  /\ up /\ ~over /\ over' = TRUE
  /\ Upset
  /\ UNCHANGED <<now, up, paused, spoke, disk, inbox, tick, msg, happened>>

NewDay ==
  /\ over /\ over' = FALSE
  /\ UNCHANGED <<now, up, paused, spoke, disk, inbox, tick, msg, upsets, happened>>

\* checkSpecial: a new time is ahead, a new end is ahead, a once watch that
\* matched is gone for good, whatever copy of the file she writes.
Accepted(new, d) ==
  /\ IF "a" \in new THEN ("a" \in file /\ d = due) \/ d > now ELSE d = due
  /\ "o" \in new => OnceKey \notin fired /\ ("o" \in file \/ EndOnce > now)

\* sideFor: the fires of a watch that stays, the count of a repeating time.
HerWrite(new, d) ==
  /\ up /\ Accepted(new, d)
  /\ Upset
  /\ file' = new /\ clean' = TRUE /\ due' = d
  /\ since' = IF "e" \in new \ file THEN now ELSE since
  /\ fires' = IF "r" \in new \intersect file THEN fires ELSE <<>>
  /\ held' = {}
  /\ letGo' = letGo
       \union {At(due) : x \in {y \in {"a"} \intersect file : y \notin new \/ d # due}}
       \union {End : x \in ({"o"} \intersect file) \ new}
  /\ rung' = IF "r" \in new \intersect file THEN rung ELSE <<>>
  /\ crossed' = crossed \union {x \in {"held"} : tick.held # {}}
  /\ UNCHANGED <<world, fired, inbox, tick, msg, known, heard, twice, dropped, cutOff,
                 again, tooSoon>>

\* Edited on disk, outside the checks: it no longer reads whole.
FileBreaks ==
  /\ clean /\ clean' = FALSE
  /\ Upset
  /\ UNCHANGED <<world, file, due, side, inbox, tick, msg, happened>>

TickSteps == Tick \/ TickRoutes \/ TickMarks \/ TickRewrites \/ TickHeld \/ TickReleases

WakeupsNext ==
  \/ TickSteps \/ TickFails
  \/ \E m \in Msgs : Post(m) \/ Look(m) \/ Fire(m) \/ RouteMatch(m)
  \/ Turn \/ ReleaseDeferred
  \/ \E new \in SUBSET known, d \in DueAt : HerWrite(new, d)
  \/ FileBreaks \/ Pause \/ Resume \/ Spend \/ NewDay
  \/ ProcessStops \/ Restart \/ Clock

WakeupsSpec == WakeupsInit /\ [][WakeupsNext]_wakeVars

\* The scheduler ticks every minute, her life runs turns, the day's batch is
\* released by the tick, the process is started again.
FairSpec == /\ WakeupsSpec /\ WF_wakeVars(TickSteps) /\ WF_wakeVars(Turn)
            /\ WF_wakeVars(ReleaseDeferred) /\ WF_wakeVars(Restart)

-----------------------------------------------------------------------------
(* Properties.                                                             *)

Underway == UNION {msg[m].wakes : m \in {n \in Msgs : msg[n].pc = "matched"}}

\* "Due timed ones are routed, recorded as routed, and only then removed"
\* (scheduler.ts:184): a time that is recorded has its wake with her.
RecordedIsOut == fired \intersect TimedWakes \subseteq Out

\* A reminder is gone only when its time was recorded as routed or she took it
\* out, the once watch only when it matched or ended: not because the tick
\* removes the reminder she moved while it was routing the old one.
RemovedIsRecorded ==
  /\ "a" \in known \ file => At(due) \in fired \union letGo
  /\ "o" \in known \ file => \/ {End, OnceKey} \intersect fired # {}
                                \/ End \in letGo \/ cutOff # {}

\* No reminder, no time and no end reaches two turns, unless the tick ended
\* between routing and recording: stale copies of the file, a file the app
\* cannot rewrite and edits in between never ring one again. Nor does a held
\* match, but for a message handled, or a write of hers, while a tick routes it,
\* and for a message whose once watch fired too and whose handling a crash cut
\* off: the catch-up takes it again, and it is held again.
HeardOnce ==
  /\ twice \intersect TimedWakes \subseteq again
  /\ \A m \in Msgs : Held(m) \in twice =>
        Held(m) \in again \/ "held" \in crossed \/ Match("o", m) \in cutOff

\* A watch that fires once fires for one message, however many are handled at
\* once, and whatever crash, stale copy or broken file comes between.
OnceFiresOnce ==
  Cardinality({m \in Msgs : Match("o", m) \in Out \union Underway}) <= 1

\* What matched reaches her, unless the process stopped before it was routed.
MatchIsOut ==
  OnceKey \in fired =>
    \E m \in Msgs : Match("o", m) \in Out \union Underway \union cutOff

\* She is told that the once watch ended or that it matched, not both, but for
\* a message handled while (or after) the tick routes its end.
EndOrMatch ==
  End \in Out /\ OnceKey \in fired => "end" \in crossed

\* The repeating watch keeps its spacing and its cap, over fires and held
\* matches, but for a message handled, or a write of hers, while a tick routes
\* the held one (the tick then does not count it).
RepeatSpaced ==
  tooSoon \/ Len(rung) > MaxFires =>
    "held" \in crossed \/ again \intersect HeldWakes # {}

\* A reminder rings once and is gone only after it rang: what the tick routes,
\* records and removes, and what she edits meanwhile, agree.
RingsOnce == WakeupsTypeOK /\ RecordedIsOut /\ RemovedIsRecorded /\ HeardOnce

\* A watch fires for what it watches: the once watch for one message, whose
\* match is not lost, or for its end; the repeating one at its spacing.
WatchesFire == OnceFiresOnce /\ MatchIsOut /\ EndOrMatch /\ RepeatSpaced

\* A held match of a watch that stays is cleared by a fire, or once she wrote in
\* the room: not by a write of something else ("kept for unchanged wakeups",
\* wakeups/file.ts:467).
HeldMatchIsKept ==
  [][\A m \in held : held' = {} /\ "r" \in file \intersect file' =>
       fires' # fires \/ spoke > msg[m].posted]_wakeVars

\* A reminder whose time came is heard, when she stays up, not paused and under
\* her budget: no crash, edit or failed tick leaves it behind.
DueIsHeard ==
  <>[](up /\ ~paused /\ ~over) =>
    \A d \in DueAt : [](("a" \in file /\ due = d /\ d <= now) =>
                        <>(At(d) \in heard \union dropped \union letGo))
=============================================================================
