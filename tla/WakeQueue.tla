------------------------------ MODULE WakeQueue ------------------------------
(***************************************************************************)
(* What wakes.json holds (src/life/wakeQueue.ts): the immediate wakes, a   *)
(* list of at most Limit entries past which a wake joins its place's       *)
(* entry; the deferred batch of a spent day; the "+N more" line.  The      *)
(* router writes it, the scheduler turns the batch into one wake, a turn   *)
(* reads entries, records them in her life state and then removes them by  *)
(* id.  Each write of a file is one step (updateLifeFile holds its lock).  *)
(*                                                                         *)
(* WakeLife has the turn's whole life with one message per wake; here an   *)
(* entry holds several messages, since the limit and the batch join them.  *)
(* Abstracted: the 50-message cap of an entry (the rest are counted), the  *)
(* wake's other fields, legacy held wakes, an empty batch, forget.         *)
(***************************************************************************)
EXTENDS Naturals, FiniteSetsExt, SequencesExt

CONSTANTS
    Messages,         \* messages that wake her
    Places,           \* DMs and rooms
    NoPlace,          \* the place of an owner's wake and of a batch
    PlaceOf,          \* the place of each message; NoPlace: the owner's wake
    Limit,            \* MAX_IMMEDIATE_WAKES
    MaxDays,          \* bound: how often her budget is spent
    MaxQuiet,         \* bound: wakes past the per-user limit
    MaxCrashes        \* bound: crashes

ASSUME QueueAssumption ==
    /\ NoPlace \notin Places
    /\ PlaceOf \in [Messages -> Places \union {NoPlace}]
    /\ Limit \in Nat \ {0}
    /\ MaxDays \in Nat /\ MaxQuiet \in Nat /\ MaxCrashes \in Nat

VARIABLES
    \* wakes.json and state.json
    immediate,   \* entries [id, place, messages], oldest first
    deferred,    \* messages of the deferred batch
    quiet,       \* the count of her "+N more" line
    turnWakes,   \* the entries the open turn recorded
    \* the process
    routing,     \* where the router is with each message
    pc,          \* where her cycle is
    peek,        \* the entries last read
    peekQuiet,   \* the count last read
    batch,       \* the deferred batch the scheduler reads; {}: none
    \* her day, and history
    spent,       \* her daily budget is spent
    days, crashes,
    joined,      \* a wake given back has joined another's entry at the limit
    late,        \* messages that joined an entry a turn had read and not removed
    heard,       \* messages whose turn ended by itself
    raised,      \* wakes that became a "+N more"
    shown        \* how many of them a turn showed

file == <<immediate, deferred, quiet>>
cycle == <<turnWakes, pc, peek, peekQuiet>>
counts == <<spent, days, crashes, raised>>
joins == <<joined, late>>
vars == <<file, cycle, routing, batch, counts, joins, heard, shown>>

Entry == [id : (Places \union {NoPlace}) \X SUBSET Messages,
          place : Places \union {NoPlace}, messages : SUBSET Messages]
MessagesIn(q) == UNION {q[i].messages : i \in DOMAIN q}
Ids(q) == {q[i].id : i \in DOMAIN q}
EntryOf(place, ms) == [id |-> <<place, ms>>, place |-> place, messages |-> ms]

\* The entries a wake for this place may join.
At(q, place) == {i \in DOMAIN q : place # NoPlace /\ q[i].place = place}

\* Mutant: the limit is checked one entry too late.
WithImmediateLate(q, w) ==
    IF w.id \in Ids(q) THEN q
    ELSE IF Len(q) > Limit /\ At(q, w.place) # {}
         THEN [q EXCEPT ![Min(At(q, w.place))].messages = @ \union w.messages]
         ELSE Append(q, w)

\* withImmediate and mergeInto: the entry keeps its id and joins the messages.
WithImmediate(q, w) ==
    IF w.id \in Ids(q) THEN q
    ELSE IF Len(q) >= Limit /\ At(q, w.place) # {}
         THEN [q EXCEPT ![Min(At(q, w.place))].messages = @ \union w.messages]
         ELSE Append(q, w)

\* Mutant: the turn's wakes are put in front of whatever the queue holds.
RequeueInFront(q, ws) == ws \o q

\* The entries whose ids are not among these, in their order.
Without(q, ids) ==
    FoldLeft(LAMBDA kept, w : IF w.id \in ids THEN kept ELSE Append(kept, w), <<>>, q)

\* requeueWakes: those not queued come first, each added like a new wake.
Requeue(q, ws) ==
    FoldLeft(WithImmediate, <<>>, Without(ws, Ids(q)) \o q)

\* takeWakes: the entries go by id.
Taken(q, ws) == Without(q, Ids(ws))

Init ==
    /\ immediate = <<>> /\ deferred = {} /\ quiet = 0 /\ turnWakes = <<>>
    /\ routing = [m \in Messages |-> "new"] /\ batch = {}
    /\ pc = "idle" /\ peek = <<>> /\ peekQuiet = 0
    /\ spent = FALSE /\ days = 0 /\ crashes = 0
    /\ joined = FALSE /\ late = {}
    /\ heard = {} /\ raised = 0 /\ shown = 0

-----------------------------------------------------------------------------
(* The router *)

Up == pc # "down"
Owners(m) == PlaceOf[m] = NoPlace

\* route: her budget is read, then the queue is written.
Decide(m) ==
    /\ Up /\ routing[m] = "new"
    /\ routing' = [routing EXCEPT ![m] = IF spent /\ ~Owners(m) THEN "defer" ELSE "queue"]
    /\ UNCHANGED <<file, cycle, batch, counts, joins, heard, shown>>

\* A wake that finds no room joins an entry a turn has read and is to remove.
JoinsPeeked(w) ==
    /\ Len(immediate) >= Limit /\ At(immediate, w.place) # {}
    /\ immediate[Min(At(immediate, w.place))].id \in Ids(peek)

\* enqueueWake
Enqueue(m) ==
    LET w == EntryOf(PlaceOf[m], {m}) IN
    /\ Up /\ routing[m] = "queue"
    /\ routing' = [routing EXCEPT ![m] = "in"]
    /\ immediate' = WithImmediate(immediate, w)
    /\ late' = IF JoinsPeeked(w) THEN late \union {m} ELSE late
    /\ UNCHANGED <<deferred, quiet, cycle, batch, counts, joined, heard, shown>>

\* deferWake
Defer(m) ==
    /\ Up /\ routing[m] = "defer"
    /\ routing' = [routing EXCEPT ![m] = "in"]
    /\ deferred' = deferred \union {m}
    /\ UNCHANGED <<immediate, quiet, cycle, batch, counts, heard, joins, shown>>

\* admitUserWake past the sender's limit: the wake is one more "+N more".
RaiseQuiet ==
    /\ Up /\ raised < MaxQuiet
    /\ raised' = raised + 1 /\ quiet' = quiet + 1
    /\ UNCHANGED <<immediate, deferred, cycle, routing, batch, spent, days, crashes, heard, joins, shown>>

-----------------------------------------------------------------------------
(* The scheduler's releaseDeferred *)

ReadBatch ==
    /\ Up /\ batch = {} /\ deferred # {} /\ ~spent
    /\ batch' = deferred
    /\ UNCHANGED <<file, cycle, routing, counts, heard, joins, shown>>

\* Mutant: the batch is taken whatever was deferred since it was read.
TakeBatchUnchecked ==
    /\ Up /\ batch # {}
    /\ immediate' = WithImmediate(immediate, EntryOf(NoPlace, batch))
    /\ deferred' = {} /\ batch' = {}
    /\ UNCHANGED <<quiet, cycle, routing, counts, heard, joins, shown>>

\* takeDeferred with the batch it was built from.
TakeBatch ==
    /\ Up /\ batch # {} /\ deferred = batch
    /\ immediate' = WithImmediate(immediate, EntryOf(NoPlace, batch))
    /\ deferred' = {} /\ batch' = {}
    /\ UNCHANGED <<quiet, cycle, routing, counts, heard, joins, shown>>

\* A conflict: it is built again, or after BATCH_BUILD_ATTEMPTS at the next tick.
BatchConflict ==
    /\ Up /\ batch # {} /\ deferred # batch
    /\ batch' \in {deferred, {}}
    /\ UNCHANGED <<file, cycle, routing, counts, heard, joins, shown>>

-----------------------------------------------------------------------------
(* Her cycle *)

\* oneTurn before the peek: over her budget all but the owner's wakes are deferred.
StartTurn ==
    LET over == {i \in DOMAIN immediate : spent /\ \E m \in immediate[i].messages : ~Owners(m)}
        mine == Without(immediate, {immediate[i].id : i \in over})
        put == MessagesIn(immediate) \ MessagesIn(mine)
    IN
    /\ pc = "idle" /\ immediate # <<>>
    /\ immediate' = mine
    /\ deferred' = deferred \union put
    /\ pc' = IF mine = <<>> THEN "idle" ELSE "checked"
    /\ UNCHANGED <<quiet, turnWakes, peek, peekQuiet, routing, batch, counts, heard, joins, shown>>

\* peekImmediate, at a turn's start and at a fold between its rounds.
Peek ==
    /\ pc \in {"checked", "round"}
    /\ pc = "round" => immediate # <<>> \/ quiet > 0
    /\ peek' = immediate /\ peekQuiet' = quiet
    /\ pc' = IF immediate = <<>> /\ pc = "checked" THEN "idle" ELSE "peeked"
    /\ UNCHANGED <<file, turnWakes, routing, batch, counts, heard, joins, shown>>

\* state.json names the wakes before the queue loses them.
Record ==
    /\ pc = "peeked"
    /\ turnWakes' = turnWakes \o peek
    /\ pc' = "recorded"
    /\ UNCHANGED <<file, peek, peekQuiet, routing, batch, counts, heard, joins, shown>>

\* Mutant: the lines earlier turns and folds showed are subtracted again.
TakeEverShown ==
    /\ pc = "recorded"
    /\ immediate' = Taken(immediate, peek)
    /\ quiet' = quiet - (shown + peekQuiet)
    /\ peek' = <<>> /\ pc' = "taken"
    /\ UNCHANGED <<deferred, turnWakes, peekQuiet, routing, batch, counts, heard, joins, shown>>

\* Mutant: the quiet line a turn showed is removed whatever it has grown to.
TakeWholeLine ==
    /\ pc = "recorded"
    /\ immediate' = Taken(immediate, peek)
    /\ quiet' = 0
    /\ peek' = <<>> /\ pc' = "taken"
    /\ UNCHANGED <<deferred, turnWakes, peekQuiet, routing, batch, counts, heard, joins, shown>>

\* takeWakes: a line that grew since keeps the difference.
Take ==
    /\ pc = "recorded"
    /\ immediate' = Taken(immediate, peek)
    /\ quiet' = quiet - peekQuiet
    /\ peek' = <<>> /\ pc' = "taken"
    /\ UNCHANGED <<deferred, turnWakes, peekQuiet, routing, batch, counts, heard, joins, shown>>

\* The notifications are in her life log.
Show ==
    /\ pc = "taken"
    /\ shown' = shown + peekQuiet /\ peekQuiet' = 0
    /\ pc' = "round"
    /\ UNCHANGED <<file, turnWakes, peek, routing, batch, counts, joins, heard>>

\* finishIdle of a turn that ended by itself, or after its wakes went back.
Finish ==
    /\ pc \in {"round", "requeued"}
    /\ heard' = IF pc = "round" THEN heard \union MessagesIn(turnWakes) ELSE heard
    /\ turnWakes' = <<>> /\ pc' = "idle"
    /\ UNCHANGED <<file, peek, peekQuiet, routing, batch, counts, joins, shown>>

\* An interrupted turn, one whose provider cools down; boot repair.
GiveBack ==
    /\ pc \in {"round", "repair"}
    /\ immediate' = Requeue(immediate, turnWakes)
    /\ joined' = (joined \/ ~(Ids(turnWakes) \subseteq Ids(immediate')))
    /\ pc' = "requeued"
    /\ UNCHANGED <<deferred, quiet, turnWakes, peek, peekQuiet, routing, batch, counts, late, heard, shown>>

-----------------------------------------------------------------------------
(* Her budget, crashes *)

Spend ==
    /\ ~spent /\ days < MaxDays
    /\ spent' = TRUE /\ days' = days + 1
    /\ UNCHANGED <<file, cycle, routing, batch, crashes, raised, heard, joins, shown>>

NextDay ==
    /\ spent /\ spent' = FALSE
    /\ UNCHANGED <<file, cycle, routing, batch, days, crashes, raised, heard, joins, shown>>

\* What the process holds is gone; a message the router still held is read again.
Crash ==
    /\ Up /\ crashes < MaxCrashes
    /\ crashes' = crashes + 1
    /\ pc' = "down" /\ peek' = <<>> /\ peekQuiet' = 0 /\ batch' = {}
    /\ routing' = [m \in Messages |-> IF routing[m] = "in" THEN "in" ELSE "new"]
    /\ UNCHANGED <<file, turnWakes, spent, days, raised, heard, joins, shown>>

Boot ==
    /\ pc = "down"
    /\ pc' = IF turnWakes = <<>> THEN "idle" ELSE "repair"
    /\ UNCHANGED <<file, turnWakes, peek, peekQuiet, routing, batch, counts, heard, joins, shown>>

Next ==
    \/ \E m \in Messages : Decide(m) \/ Enqueue(m) \/ Defer(m)
    \/ RaiseQuiet \/ ReadBatch \/ TakeBatch \/ BatchConflict
    \/ StartTurn \/ Peek \/ Record \/ Take \/ Show \/ Finish \/ GiveBack
    \/ Spend \/ NextDay \/ Crash \/ Boot

Spec == Init /\ [][Next]_vars

-----------------------------------------------------------------------------
(* The files and what a turn read of them hold entries of messages, and a  *)
(* recorded turn is at one of its awaits.                                  *)
TypeOK ==
    /\ immediate \in Seq(Entry) /\ turnWakes \in Seq(Entry) /\ peek \in Seq(Entry)
    /\ deferred \subseteq Messages /\ batch \subseteq Messages /\ heard \subseteq Messages
    /\ routing \in [Messages -> {"new", "queue", "defer", "in"}]
    /\ pc \in {"idle", "checked", "peeked", "recorded", "taken", "round", "requeued", "down", "repair"}
    /\ quiet \in Nat /\ peekQuiet \in Nat /\ raised \in Nat /\ shown \in Nat
    /\ spent \in BOOLEAN /\ days \in 0..MaxDays /\ crashes \in 0..MaxCrashes

(* A message that woke her is in the queue, in the batch, in the open turn *)
(* or was in a turn that ended: none is "in neither" (wakeQueue.ts:289),   *)
(* whatever is merged at the limit, deferred or released, at any crash,    *)
(* but for one that joined an entry between a turn's read and its removal. *)
NoMessageVanishes ==
    \A m \in Messages : routing[m] = "in" /\ m \notin late =>
        m \in MessagesIn(immediate) \union deferred \union MessagesIn(turnWakes) \union heard

(* A message waits in one place: in one entry or in the batch, and nowhere *)
(* once its turn ended.  Re-queueing a turn's wakes "adds nothing twice"   *)
(* (wakeQueue.ts:289), wherever a crash fell, unless one came after a wake *)
(* given back had joined another's entry, which repair looks for by id.    *)
WaitsOnce == (crashes = 0 \/ ~joined) =>
    /\ \A i, j \in DOMAIN immediate :
           i # j => immediate[i].messages \intersect immediate[j].messages = {}
    /\ MessagesIn(immediate) \intersect deferred = {}
    /\ heard \intersect (MessagesIn(immediate) \union deferred) = {}

(* Past the limit only a place's first wake is an entry of its own, so the *)
(* queue holds Limit entries, one per further place and those of no place. *)
OverflowIsOnePerPlace ==
    \A i \in DOMAIN immediate :
        i > Limit => \A j \in At(immediate, immediate[i].place) : j >= i

(* Each "+N more" wake is waiting or was shown once, also one counted      *)
(* between a turn's read of the line and its removal; only a crash between *)
(* the removal and the life log loses any.                                 *)
QuietLinesConserved ==
    LET inHand == IF pc = "taken" THEN peekQuiet ELSE 0
        counted == quiet + shown + inHand
    IN counted <= raised /\ (crashes = 0 => counted = raised)

\* However full it gets, the queue stays readable: a wake waits in it once, and
\* what does not fit is one overflow entry per place.
QueueIsOrderly == TypeOK /\ WaitsOnce /\ OverflowIsOnePerPlace
=============================================================================
