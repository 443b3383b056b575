---- MODULE Intake ----
(***************************************************************************)
(* How a room's messages reach her: live delivery (Intake.onGuildMessage), *)
(* the bursts a place's messages wait in, the holds and the high-water     *)
(* mark that say what has been routed, the owner's pause and resume, and   *)
(* the catch-up that a boot or a resume runs over the room's last page     *)
(* (LivingCast.catchUpAndResume).  One room; messages are numbered in the  *)
(* order of their Discord ids, which is also their order in time, so a     *)
(* point in time is the number of the last message before it.              *)
(*                                                                         *)
(* The boot's resume window is taken to be longer than any time the        *)
(* process is down, and a page (50 messages) to hold every message.        *)
(***************************************************************************)
EXTENDS Integers, Sequences, FiniteSets, FiniteSetsExt

CONSTANTS
    MaxMessages,   \* messages people and cast members post in the room
    MaxPauses,     \* times the owner pauses the app
    MaxRestarts,   \* times the process stops or crashes
    MaxFaults,     \* calls that fail
    MaxUpsets      \* pauses and restarts, and one more if the schedule has races or faults

ASSUME IntakeAssumption ==
    /\ MaxMessages \in Nat \ {0}
    /\ {MaxPauses, MaxRestarts, MaxFaults, MaxUpsets} \subseteq Nat

Message == 1..MaxMessages
None == -1
Time == 0..MaxMessages
Run == 0..MaxPauses    \* the boot's catch-up and one per resume

VARIABLES
    \* Discord
    author,         \* who wrote each message posted so far
    inFlight,       \* messages the gateway has not delivered yet
    \* the process's memory
    up,
    seen,           \* messages intake took
    looking,        \* live handlers that wait for findMessage
    phase,          \* what the handler of a taken message waits for
    held,           \* why a message is held back from the mark
    routed,         \* routed messages that wait for an older held one
    burst,          \* the room's burst of people's messages
    castBurst,      \* a cast member's burst, and whether it woke someone directly
    firing,         \* bursts that have fired and are being routed
    mark,
    catchUp,        \* per catch-up: how far it is and what it read
    pausedAt,       \* LivingCast.pausedAt
    resumingSince,
    \* kept on disk
    paused,         \* runtime.paused
    savedPause,     \* the pause start of intake-marks.json
    savedMark,
    queue,          \* the messages of her queued wakes
    cursor,         \* the newest message she has read
    \* what happened so far
    woken,          \* how often each message's routing was decided
    gap,            \* messages posted during a pause and not taken yet
    raced,          \* has the schedule contained a race (Hold, Deliver, Pause) or a fault?
    pauses, restarts, faults

discord == <<author, inFlight>>
handlers == <<seen, looking, phase>>
holding == <<held, routed, mark>>
bursts == <<burst, castBurst, firing>>
pausing == <<paused, pausedAt, resumingSince, savedPause>>
her == <<queue, cursor>>
counters == <<pauses, restarts, faults>>
vars == <<discord, handlers, holding, bursts, pausing, her, counters,
          up, savedMark, catchUp, woken, gap, raced>>

Posted == 1..Len(author)
NoBurst == [ids |-> {}, direct |-> FALSE]
NotRunning == [at |-> "done", since |-> None, queued |-> {}, cursor |-> 0,
               todo |-> {}, own |-> 0]

Init ==
    /\ author = <<>> /\ inFlight = {}
    /\ up = TRUE
    /\ seen = {} /\ looking = {} /\ phase = [m \in Message |-> "idle"]
    /\ held = {} /\ routed = {} /\ mark = 0
    /\ burst = {} /\ castBurst = NoBurst /\ firing = {}
    /\ catchUp = [c \in Run |-> NotRunning]
    /\ paused = FALSE /\ pausedAt = None /\ resumingSince = None /\ savedPause = None
    /\ savedMark = 0
    /\ queue = {} /\ cursor = 0
    /\ woken = [m \in Message |-> 0] /\ gap = {}
    /\ raced = FALSE /\ pauses = 0 /\ restarts = 0 /\ faults = 0

Idle(m) == m # 0 => phase[m] = "idle"
CatchingUp == \E c \in Run : catchUp[c].at # "done"
Delivered == inFlight \cup looking = {} /\ \A m \in Message : Idle(m)
NoBursts == burst \cup castBurst.ids = {} /\ firing = {}
UpsetsLeft == MaxUpsets - pauses - restarts - (IF raced THEN 1 ELSE 0)
RaceIf(happens) == raced' = (raced \/ happens) /\ (happens => raced \/ UpsetsLeft > 0)

-----------------------------------------------------------------------------
(* The holds and the mark.                                                 *)

(* Mutant: the mark takes every routed message, whoever is still held.     *)
MarkAll(ids, kept) ==
    IF paused
    THEN UNCHANGED <<mark, routed>>
    ELSE mark' = Max({mark} \cup routed \cup ids) /\ routed' = {}

(* Intake.mark with the holds `kept`: the mark passes the routed messages  *)
(* older than every held one; a pause leaves it alone.                     *)
AdvanceMark(ids, kept) ==
    LET waiting == routed \cup ids
        markable == {m \in waiting : \A h \in kept : m < h[1]}
    IN  IF paused
        THEN UNCHANGED <<mark, routed>>
        ELSE /\ mark' = Max({mark} \cup markable)
             /\ routed' = waiting \ markable

Decided(ids) == woken' = [m \in Message |-> IF m \in ids /\ woken[m] < 2 THEN woken[m] + 1 ELSE woken[m]]

-----------------------------------------------------------------------------
(* Live delivery.                                                          *)

Post(who) ==
    /\ Len(author) < MaxMessages
    /\ author' = Append(author, who)
    /\ inFlight' = IF up THEN inFlight \cup {Len(author) + 1} ELSE inFlight
    /\ gap' = IF paused THEN gap \cup {Len(author) + 1} ELSE gap
    /\ UNCHANGED <<handlers, holding, bursts, pausing, her, counters, up, savedMark, catchUp, woken, raced>>

(* Events come in order; their handlers run side by side: one that comes   *)
(* while a catch-up runs is a race with it.  While paused,                 *)
(* or for a message intake took, the handler ends at once.                 *)
Deliver(m) ==
    /\ up /\ inFlight # {} /\ m = Min(inFlight)
    /\ RaceIf(CatchingUp)
    /\ inFlight' = inFlight \ {m}
    /\ looking' = IF paused \/ m \in seen THEN looking ELSE looking \cup {m}
    /\ UNCHANGED <<author, seen, phase, holding, bursts, pausing, her, counters,
                   up, savedMark, catchUp, woken, gap>>

(* Mutant: the handler trusts the check it made before the lookup.         *)
TakeUnchecked(m) ==
    /\ m \in looking
    /\ looking' = looking \ {m}
    /\ seen' = seen \cup {m}
    /\ phase' = [phase EXCEPT ![m] = "cast"]
    /\ gap' = gap \ {m}
    /\ UNCHANGED <<discord, holding, bursts, pausing, her, counters, up, savedMark, catchUp, woken, raced>>

(* findMessage answered: alreadySeen decides again.                        *)
TakeLive(m) ==
    /\ m \in looking
    /\ looking' = looking \ {m}
    /\ IF m \in seen
       THEN UNCHANGED <<seen, phase, gap>>
       ELSE /\ seen' = seen \cup {m}
            /\ phase' = [phase EXCEPT ![m] = "cast"]
            /\ gap' = gap \ {m}
    /\ UNCHANGED <<discord, holding, bursts, pausing, her, counters, up, savedMark, catchUp, woken, raced>>

(* Not buffered and the page could not be read: the handler ends.          *)
LookupMisses(m) ==
    /\ m \in looking /\ faults < MaxFaults
    /\ looking' = looking \ {m}
    /\ faults' = faults + 1 /\ RaceIf(TRUE)
    /\ UNCHANGED <<discord, seen, phase, holding, bursts, pausing, her, pauses, restarts,
                   up, savedMark, catchUp, woken, gap>>

(* castWaifus answered: from here on the message holds the mark.  A race   *)
(* is one that overtakes an older message not yet held.                    *)
Hold(m) ==
    /\ phase[m] = "cast"
    /\ RaceIf(\E k \in 1..(m - 1) : k \in (inFlight \cup looking) \ seen \/ phase[k] = "cast")
    /\ phase' = [phase EXCEPT ![m] = "route"]
    /\ held' = held \cup {<<m, "routing">>}
    /\ UNCHANGED <<discord, seen, looking, routed, mark, bursts, pausing, her, counters,
                   up, savedMark, catchUp, woken, gap>>

(* A person's message joins the room's burst, which then holds it.         *)
JoinBurst(m) ==
    /\ phase[m] = "route" /\ author[m] = "person"
    /\ phase' = [phase EXCEPT ![m] = "idle"]
    /\ burst' = burst \cup {m}
    /\ held' = (held \ {<<m, "routing">>}) \cup {<<m, "burst">>}
    /\ AdvanceMark({}, held')
    /\ UNCHANGED <<discord, seen, looking, castBurst, firing, pausing, her, counters,
                   up, savedMark, catchUp, woken, gap, raced>>

(* A cast member's message that wakes someone directly is routed at once   *)
(* (the router drops it while paused) and its burst asks no detector.      *)
RouteCast(m) ==
    /\ phase[m] = "route" /\ author[m] = "cast"
    /\ phase' = [phase EXCEPT ![m] = "idle"]
    /\ IF paused
       THEN UNCHANGED <<woken, queue>>
       ELSE Decided({m}) /\ queue' = queue \cup {m}
    /\ castBurst' = [ids |-> castBurst.ids \cup {m}, direct |-> TRUE]
    /\ held' = held \ {<<m, "routing">>}
    /\ AdvanceMark({m}, held')
    /\ UNCHANGED <<discord, seen, looking, burst, firing, pausing, cursor, counters,
                   up, savedMark, catchUp, gap, raced>>

(* Any other joins her burst: it waits for the detector unless the burst   *)
(* already was direct, which decides it.                                   *)
JoinCastBurst(m) ==
    /\ phase[m] = "route" /\ author[m] = "cast"
    /\ phase' = [phase EXCEPT ![m] = "idle"]
    /\ castBurst' = [castBurst EXCEPT !.ids = @ \cup {m}]
    /\ held' = (held \ {<<m, "routing">>})
                 \cup (IF castBurst.direct THEN {} ELSE {<<m, "burst">>})
    /\ IF castBurst.direct THEN Decided({m}) ELSE UNCHANGED woken
    /\ AdvanceMark({m}, held')
    /\ UNCHANGED <<discord, seen, looking, burst, firing, pausing, her, counters,
                   up, savedMark, catchUp, gap, raced>>

(* Routing threw: the hold goes and the message is not marked.             *)
RouteFails(m) ==
    /\ phase[m] = "route" /\ faults < MaxFaults
    /\ phase' = [phase EXCEPT ![m] = "idle"]
    /\ held' = held \ {<<m, "routing">>}
    /\ AdvanceMark({}, held')
    /\ faults' = faults + 1 /\ RaceIf(TRUE)
    /\ UNCHANGED <<discord, seen, looking, bursts, pausing, her, pauses, restarts,
                   up, savedMark, catchUp, woken, gap>>

-----------------------------------------------------------------------------
(* Bursts.  A fired one asks the router (held wakes) or the detector.      *)

Fired(ids, direct) ==
    IF ids = {} THEN {} ELSE {[ids |-> ids, direct |-> direct, at |-> "ask", routed |-> TRUE]}

FireBurst ==
    /\ burst # {}
    /\ firing' = firing \cup Fired(burst, FALSE)
    /\ burst' = {}
    /\ UNCHANGED <<discord, handlers, holding, castBurst, pausing, her, counters,
                   up, savedMark, catchUp, woken, gap, raced>>

FireCastBurst ==
    /\ castBurst.ids # {}
    /\ firing' = firing \cup Fired(castBurst.ids, castBurst.direct)
    /\ castBurst' = NoBurst
    /\ UNCHANGED <<discord, handlers, holding, burst, pausing, her, counters,
                   up, savedMark, catchUp, woken, gap, raced>>

(* A pause makes the router drop the wakes and the detector answer nobody. *)
(* A direct burst of a cast member asks nobody and so decides what it held.*)
AskRouter(f) ==
    /\ f \in firing /\ f.at = "ask"
    /\ firing' = (firing \ {f}) \cup {[f EXCEPT !.at = "settle"]}
    /\ LET waiting == {m \in f.ids : <<m, "burst">> \in held}
       IN  IF paused /\ ~f.direct
           THEN UNCHANGED <<woken, queue>>
           ELSE /\ Decided(waiting)
                /\ queue' = IF f.direct THEN queue ELSE queue \cup {Max(f.ids)}
    /\ UNCHANGED <<discord, handlers, holding, burst, castBurst, pausing, cursor, counters,
                   up, savedMark, catchUp, gap, raced>>

(* A held wake could not be queued: its burst is not marked.               *)
RouterFails(f) ==
    /\ f \in firing /\ f.at = "ask" /\ faults < MaxFaults
    /\ \A m \in f.ids : author[m] = "person"
    /\ firing' = (firing \ {f}) \cup {[f EXCEPT !.at = "settle", !.routed = FALSE]}
    /\ faults' = faults + 1 /\ RaceIf(TRUE)
    /\ UNCHANGED <<discord, handlers, holding, burst, castBurst, pausing, her, pauses, restarts,
                   up, savedMark, catchUp, woken, gap>>

(* Mutant: a settled burst is marked but never let go.                     *)
SettleHeld(f) ==
    /\ f \in firing /\ f.at = "settle"
    /\ firing' = firing \ {f}
    /\ held' = held
    /\ AdvanceMark(IF f.routed THEN f.ids ELSE {}, held')
    /\ UNCHANGED <<discord, handlers, burst, castBurst, pausing, her, counters,
                   up, savedMark, catchUp, woken, gap, raced>>

(* What was routed is marked (not while paused) and the burst lets go.     *)
SettleBurst(f) ==
    /\ f \in firing /\ f.at = "settle"
    /\ firing' = firing \ {f}
    /\ held' = held \ (f.ids \X {"burst"})
    /\ AdvanceMark(IF f.routed THEN f.ids ELSE {}, held')
    /\ UNCHANGED <<discord, handlers, burst, castBurst, pausing, her, counters,
                   up, savedMark, catchUp, woken, gap, raced>>

(* IntakeMarks.flush, at most a second after the mark moved.               *)
SaveMarks ==
    /\ up /\ savedMark # mark
    /\ savedMark' = mark
    /\ UNCHANGED <<discord, handlers, holding, bursts, pausing, her, counters,
                   up, catchUp, woken, gap, raced>>

(* Her turn takes her wakes; she may read the room.                        *)
Turn ==
    /\ up /\ ~paused /\ queue # {}
    /\ queue' = {}
    /\ cursor' \in {cursor, Len(author)}
    /\ UNCHANGED <<discord, handlers, holding, bursts, pausing, counters,
                   up, savedMark, catchUp, woken, gap, raced>>

-----------------------------------------------------------------------------
(* The owner pauses and resumes the app.                                   *)

StartCatchUp(c, since) ==
    catchUp' = [catchUp EXCEPT ![c] = [NotRunning EXCEPT
                  !.at = "read", !.since = since, !.queued = queue, !.cursor = cursor]]

(* A race: a pause over a message on its way, a burst, or a catch-up.      *)
Pause ==
    /\ up /\ ~paused /\ pauses < MaxPauses
    /\ RaceIf(~Delivered \/ ~NoBursts \/ CatchingUp)
    /\ UpsetsLeft > IF raced' /\ ~raced THEN 1 ELSE 0
    /\ paused' = TRUE
    /\ pausedAt' = IF resumingSince # None THEN resumingSince
                   ELSE IF savedPause # None THEN savedPause ELSE Len(author)
    /\ savedPause' = pausedAt'
    /\ pauses' = pauses + 1
    /\ UNCHANGED <<discord, handlers, holding, bursts, resumingSince, her, restarts, faults,
                   up, savedMark, catchUp, woken, gap>>

(* Mutant: the saved pause start goes before its catch-up has run.         *)
ResumeForgets ==
    /\ up /\ paused
    /\ paused' = FALSE /\ pausedAt' = None /\ savedPause' = None
    /\ resumingSince' = IF pausedAt # None THEN pausedAt ELSE savedPause
    /\ StartCatchUp(pauses, resumingSince')
    /\ UNCHANGED <<discord, handlers, holding, bursts, her, counters,
                   up, savedMark, woken, gap, raced>>

Resume ==
    /\ up /\ paused
    /\ paused' = FALSE /\ pausedAt' = None
    /\ resumingSince' = IF pausedAt # None THEN pausedAt ELSE savedPause
    /\ StartCatchUp(pauses, resumingSince')
    /\ UNCHANGED <<discord, handlers, holding, bursts, savedPause, her, counters,
                   up, savedMark, woken, gap, raced>>

-----------------------------------------------------------------------------
(* LivingCast.catchUpAndResume, one room of it.                            *)

(* Mutant: the page starts one message after the next one.                 *)
ReadPagePastMark(c) ==
    /\ catchUp[c].at = "read"
    /\ LET old == Max({catchUp[c].since, catchUp[c].cursor, mark + 1})
       IN  catchUp' = [catchUp EXCEPT
             ![c].at = "take",
             ![c].todo = {m \in Posted : m > old} \ catchUp[c].queued]
    /\ UNCHANGED <<discord, handlers, holding, bursts, pausing, her, counters,
                   up, savedMark, woken, gap, raced>>

(* The page is read, then the mark; the cursor and the queued wakes were   *)
(* read when it started.                                                   *)
ReadPage(c) ==
    /\ catchUp[c].at = "read"
    /\ LET old == Max({catchUp[c].since, catchUp[c].cursor, mark})
       IN  catchUp' = [catchUp EXCEPT
             ![c].at = "take",
             ![c].todo = {m \in Posted : m > old} \ catchUp[c].queued]
    /\ UNCHANGED <<discord, handlers, holding, bursts, pausing, her, counters,
                   up, savedMark, woken, gap, raced>>

(* The oldest message goes through onGuildMessage, the next one when its   *)
(* handler has returned; a pause or an earlier take ends it at once.       *)
TakePage(c) ==
    /\ catchUp[c].at = "take" /\ catchUp[c].todo # {} /\ Idle(catchUp[c].own)
    /\ LET m == Min(catchUp[c].todo)
       IN  IF paused \/ m \in seen
           THEN /\ catchUp' = [catchUp EXCEPT ![c].todo = @ \ {m}, ![c].own = 0]
                /\ UNCHANGED <<seen, phase, gap>>
           ELSE /\ catchUp' = [catchUp EXCEPT ![c].todo = @ \ {m}, ![c].own = m]
                /\ seen' = seen \cup {m}
                /\ phase' = [phase EXCEPT ![m] = "cast"]
                /\ gap' = gap \ {m}
    /\ UNCHANGED <<discord, looking, holding, bursts, pausing, her, counters,
                   up, savedMark, woken, raced>>

(* Old messages wait for nobody's typing: the room's bursts fire now.      *)
FlushBursts(c) ==
    /\ catchUp[c].at = "take" /\ catchUp[c].todo = {} /\ Idle(catchUp[c].own)
    /\ catchUp' = [catchUp EXCEPT ![c].at = "clear", ![c].own = 0]
    /\ firing' = firing \cup Fired(burst, FALSE) \cup Fired(castBurst.ids, castBurst.direct)
    /\ burst' = {} /\ castBurst' = NoBurst
    /\ UNCHANGED <<discord, handlers, holding, pausing, her, counters,
                   up, savedMark, woken, gap, raced>>

(* The page could not be read: the room is passed over, its bursts wait.   *)
ReadPageFails(c) ==
    /\ catchUp[c].at = "read" /\ faults < MaxFaults
    /\ catchUp' = [catchUp EXCEPT ![c].at = "clear"]
    /\ faults' = faults + 1 /\ RaceIf(TRUE)
    /\ UNCHANGED <<discord, handlers, holding, bursts, pausing, her, pauses, restarts,
                   up, savedMark, woken, gap>>

(* clearPauseStart.  Run 0 is the boot's, which no resume waits for.       *)
FinishCatchUp(c) ==
    /\ catchUp[c].at = "clear"
    /\ catchUp' = [catchUp EXCEPT ![c] = NotRunning]
    /\ LET since == catchUp[c].since
       IN  /\ resumingSince' = IF c # 0 /\ resumingSince = since THEN None ELSE resumingSince
           /\ savedPause' = IF pausedAt = None /\ ~paused /\ savedPause = since
                            THEN None ELSE savedPause
    /\ UNCHANGED <<discord, handlers, holding, bursts, paused, pausedAt, her, counters,
                   up, savedMark, woken, gap, raced>>

-----------------------------------------------------------------------------
(* The process ends and boots.                                             *)

LoseMemory ==
    /\ up' = FALSE
    /\ inFlight' = {} /\ seen' = {} /\ looking' = {}
    /\ phase' = [m \in Message |-> "idle"]
    /\ held' = {} /\ routed' = {} /\ mark' = 0
    /\ burst' = {} /\ castBurst' = NoBurst /\ firing' = {}
    /\ catchUp' = [c \in Run |-> NotRunning]
    /\ pausedAt' = None /\ resumingSince' = None
    /\ restarts' = restarts + 1
    /\ UNCHANGED <<author, paused, savedPause, her, pauses, faults, woken, gap, raced>>

Crash ==
    /\ up /\ restarts < MaxRestarts /\ UpsetsLeft > 0
    /\ LoseMemory
    /\ UNCHANGED savedMark

(* LivingCast.stop closes intake and the router, so nothing more is marked,*)
(* waits for what runs and writes the marks.                               *)
Stop ==
    /\ up /\ restarts < MaxRestarts /\ UpsetsLeft > 0
    /\ LoseMemory
    /\ savedMark' = mark

(* A boot while paused starts no catch-up, and keeps or makes up the start *)
(* of the pause; any other catches up from a saved start or the window's.  *)
Boot ==
    /\ ~up
    /\ up' = TRUE
    /\ mark' = savedMark
    /\ IF paused
       THEN /\ savedPause' = IF savedPause = None THEN 0 ELSE savedPause
            /\ UNCHANGED catchUp
       ELSE /\ StartCatchUp(0, savedPause)
            /\ UNCHANGED savedPause
    /\ UNCHANGED <<discord, handlers, held, routed, bursts, paused, pausedAt, resumingSince,
                   her, counters, savedMark, woken, gap, raced>>

-----------------------------------------------------------------------------
Delivery == \E m \in Message :
    \/ Deliver(m) \/ TakeLive(m) \/ LookupMisses(m) \/ Hold(m) \/ RouteFails(m)
    \/ JoinBurst(m) \/ RouteCast(m) \/ JoinCastBurst(m)
Routing ==
    \/ FireBurst \/ FireCastBurst
    \/ \E f \in firing : AskRouter(f) \/ RouterFails(f) \/ SettleBurst(f)
CatchingUpStep == \E c \in Run :
    ReadPage(c) \/ ReadPageFails(c) \/ TakePage(c) \/ FlushBursts(c) \/ FinishCatchUp(c)
Owner == Pause \/ Resume
Process == Crash \/ Stop \/ Boot

Next ==
    \/ \E who \in {"person", "cast"} : Post(who)
    \/ Delivery \/ Routing \/ SaveMarks \/ Turn \/ CatchingUpStep \/ Owner \/ Process

Spec == Init /\ [][Next]_vars

(* Every step the process has begun is taken (timers fire, lookups and the *)
(* router answer), the host boots again and the owner ends a pause.  A     *)
(* turn, a post, a pause, a crash and a fault need not come.               *)
Fairness ==
    /\ \A m \in Message :
         /\ WF_vars(Deliver(m)) /\ WF_vars(TakeLive(m)) /\ WF_vars(Hold(m))
         /\ WF_vars(JoinBurst(m)) /\ WF_vars(JoinCastBurst(m) \/ RouteCast(m))
    /\ WF_vars(FireBurst) /\ WF_vars(FireCastBurst)
    /\ WF_vars(\E f \in firing : AskRouter(f) \/ SettleBurst(f))
    /\ \A c \in Run : WF_vars(ReadPage(c) \/ TakePage(c) \/ FlushBursts(c) \/ FinishCatchUp(c))
    /\ WF_vars(Resume) /\ WF_vars(Boot)

FairSpec == Spec /\ Fairness

-----------------------------------------------------------------------------
(* Properties.                                                             *)

(* Every variable holds what the code can put there; a message held for    *)
(* its routing is one whose handler runs, one held for its burst is in a   *)
(* burst, and a routed one still waits for the mark.                       *)
TypeOK ==
    /\ author \in Seq({"person", "cast"}) /\ Len(author) <= MaxMessages
    /\ inFlight \cup seen \cup looking \cup routed \cup gap \cup queue \subseteq Posted
    /\ {up, paused} \subseteq BOOLEAN
    /\ \A m \in Message : phase[m] \in {"idle", "cast", "route"} /\ (phase[m] # "idle" => m \in seen)
    /\ \A h \in held :
         \/ h[2] = "routing" /\ phase[h[1]] = "route"
         \/ h[2] = "burst" /\ h[1] \in burst \cup castBurst.ids \cup UNION {f.ids : f \in firing}
    /\ {mark, savedMark, cursor} \subseteq Time /\ (up => savedMark <= mark)
    /\ {pausedAt, resumingSince, savedPause} \subseteq Time \cup {None}
    /\ pausedAt # None => paused
    /\ raced \in BOOLEAN /\ (raced \/ \A m \in routed : mark < m)
    /\ \A c \in Run : catchUp[c].at \in {"done", "read", "take", "clear"}
    /\ woken \in [Message -> 0..2]

(* The mark never passes a message whose routing was not decided, unless   *)
(* she has read it: what a restart drops, the next catch-up takes again    *)
(* (Intake.mark, hold and release; intake.ts:166-170 and 196-198).         *)
MarkIsRouted ==
    \A m \in Posted : m <= Max({mark, savedMark}) => woken[m] > 0 \/ m <= cursor

(* So it is in every schedule without a race or a fault: each of them      *)
(* breaks it.                                                              *)
MarkCoversRouted == raced \/ MarkIsRouted

(* Live delivery and the catch-ups of a boot and of every resume never     *)
(* route one message twice while the process lives (Intake.seen).          *)
NoSecondWake == restarts > 0 \/ \A m \in Message : woken[m] <= 1

(* Until a message that came during a pause is taken, intake-marks.json    *)
(* has a pause start before it, so that a reload or a crash still catches  *)
(* it up (LivingCast.pause, resume, clearPauseStart; livingCast.ts:459),   *)
(* unless the pause came over a catch-up.                                  *)
GapIsRemembered ==
    raced \/ \A m \in gap : m <= cursor \/ (savedPause # None /\ savedPause < m)

(* Every message posted in the room is routed once its burst, a pause, or  *)
(* a crash and the catch-up after it are over, or she read it before.      *)
EveryMessageIsHeard ==
    \A m \in Message : m \in Posted ~> (woken[m] > 0 \/ m <= cursor \/ raced)

\* A message wakes her once in a process, whichever of the live handler, the
\* burst and the catch-up gets to it; the held bursts and what is handled stay
\* what the handlers may find.
WokenOnce == TypeOK /\ NoSecondWake
=============================================================================
