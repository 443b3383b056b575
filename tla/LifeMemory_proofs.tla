------------------------- MODULE LifeMemory_proofs -------------------------
(***************************************************************************)
(* Proofs about LifeMemory for any facts, and any number of forgets,       *)
(* failures and changes of her model: what she remembers stays with her    *)
(* through epochs, scrubs and crashes, what was deleted or reset does not  *)
(* come back, and a scrub that left the queue left nothing of the person.  *)
(*                                                                         *)
(* Every job holds her life lock and reads, waits and writes: the          *)
(* invariant says for each step of a job what it has read and still        *)
(* stands, and what the text it is about to write may hold.                *)
(***************************************************************************)
EXTENDS LifeMemory, FiniteSetTheorems, TLAPS

-----------------------------------------------------------------------------
(* The fold that carries turns over *)

\* A set of naturals has a smallest member.
LEMMA SmallestOf ==
  ASSUME NEW S \in SUBSET Nat, S # {}
  PROVE  \E m \in S : \A n \in S : m <= n
<1> DEFINE T == {1..n : n \in S}
           R == StrictSubsetOrdering(Nat)
<1>1. IsWellFoundedOn(R, FiniteSubsetsOf(Nat))
  BY FS_StrictSubsetOrderingWellFounded
<1>2. T \subseteq FiniteSubsetsOf(Nat) /\ T # {}
  <2>1. ASSUME NEW n \in S PROVE 1..n \in FiniteSubsetsOf(Nat)
    BY FS_Interval DEF FiniteSubsetsOf
  <2> QED BY <2>1
<1>3. PICK x \in T : \A y \in T : <<y, x>> \notin R
  <2> HIDE DEF R, T
  <2> QED BY <1>1, <1>2, WFMin
<1>4. PICK m \in S : x = 1..m
  OBVIOUS
<1>5. ASSUME NEW n \in S, n < m PROVE FALSE
  <2>1. 1..n \subseteq 1..m /\ m \in 1..m /\ m \notin 1..n
    BY <1>5
  <2>2. <<1..n, x>> \in R
    BY <2>1, <1>4 DEF StrictSubsetOrdering
  <2> QED BY <2>2, <1>3
<1> QED BY <1>5

\* Induction over the naturals, for the set of those a statement holds of.
LEMMA SetInduction ==
  ASSUME NEW S, 0 \in S, \A n \in Nat : n \in S => n + 1 \in S
  PROVE  Nat \subseteq S
<1> SUFFICES ASSUME Nat \ S # {} PROVE FALSE
  OBVIOUS
<1>1. PICK m \in Nat \ S : \A n \in Nat \ S : m <= n
  BY SmallestOf
<1>2. m # 0 /\ m - 1 \in Nat /\ m - 1 \notin S
  BY <1>1
<1> QED BY <1>1, <1>2

LEMMA MaxIs ==
  ASSUME NEW n \in Nat, NEW s \in SUBSET (1..n), n \in s
  PROVE  Max(s) = n
<1>1. \A x \in s : n >= x
  OBVIOUS
<1>2. \A x \in s : (\A y \in s : x >= y) => x = n
  BY <1>1
<1> QED BY <1>1, <1>2 DEF Max

\* The table of the fold that leaves out what is deleted, for the sets of indices of s up to k.
Keep(kept, f, deleted) == IF f \in deleted THEN kept ELSE Append(kept, f)
KeepTable(g, s, k, deleted) ==
  g = [i \in SUBSET (1..k) |->
         IF i = {} THEN <<>> ELSE Keep(g[i \ {Max(i)}], s[Max(i)], deleted)]

LEMMA KeepTableExists ==
  ASSUME NEW s, NEW D, NEW n \in Nat
  PROVE  \E g : KeepTable(g, s, n, D)
<1> DEFINE Good == {k \in Nat : \E g : KeepTable(g, s, k, D)}
<1>1. 0 \in Good
  <2>1. KeepTable([i \in SUBSET (1..0) |-> <<>>], s, 0, D)
    BY DEF KeepTable
  <2> QED BY <2>1
<1>2. ASSUME NEW k \in Nat, k \in Good PROVE k + 1 \in Good
  <2>1. PICK g : KeepTable(g, s, k, D)
    BY <1>2
  <2> DEFINE h == [i \in SUBSET (1..(k + 1)) |->
                     IF k + 1 \in i THEN Keep(g[i \ {k + 1}], s[k + 1], D) ELSE g[i]]
  <2>2. ASSUME NEW i \in SUBSET (1..(k + 1))
        PROVE  h[i] = IF i = {} THEN <<>> ELSE Keep(h[i \ {Max(i)}], s[Max(i)], D)
    <3>1. CASE k + 1 \in i
      <4>1. Max(i) = k + 1
        BY <3>1, MaxIs
      <4>2. i \ {k + 1} \in SUBSET (1..k) /\ i \ {k + 1} \in SUBSET (1..(k + 1)) /\ k + 1 \notin i \ {k + 1}
        OBVIOUS
      <4> QED BY <4>1, <4>2, <3>1
    <3>2. CASE k + 1 \notin i
      <4>1. i \in SUBSET (1..k)
        BY <3>2
      <4>2. h[i] = IF i = {} THEN <<>> ELSE Keep(g[i \ {Max(i)}], s[Max(i)], D)
        BY <2>1, <4>1, <3>2 DEF KeepTable
      <4>3. i \ {Max(i)} \in SUBSET (1..(k + 1)) /\ k + 1 \notin i \ {Max(i)}
        BY <3>2
      <4>4. i # {} => h[i \ {Max(i)}] = g[i \ {Max(i)}]
        BY <4>3
      <4> QED BY <4>2, <4>4, <3>2
    <3> QED BY <3>1, <3>2
  <2>3. KeepTable(h, s, k + 1, D)
    BY <2>2 DEF KeepTable
  <2> QED BY <2>3
<1>3. Nat \subseteq Good
  <2> HIDE DEF Good
  <2> QED BY <1>1, <1>2, SetInduction
<1> QED BY <1>3

KeptFrom(s, D) == FoldLeft(LAMBDA kept, f : IF f \in D THEN kept ELSE Append(kept, f), <<>>, s)

\* The stages of the fold: the n-th has seen the first n lines.
LEMMA KeepStages ==
  ASSUME NEW s \in Seq(Facts), NEW D
  PROVE  \E f : /\ f[0] = <<>>
                /\ \A n \in 0..(Len(s) - 1) : f[n + 1] = Keep(f[n], s[n + 1], D)
                /\ KeptFrom(s, D) = f[Len(s)]
<1> DEFINE g == CHOOSE g : KeepTable(g, s, Len(s), D)
           f == [n \in 0..Len(s) |-> g[1..n]]
<1>1. KeepTable(g, s, Len(s), D)
  BY KeepTableExists
<1>2. DOMAIN s = 1..Len(s) /\ Len(s) \in Nat
  OBVIOUS
<1>3. KeptFrom(s, D) = g[1..Len(s)]
  BY <1>2 DEF KeptFrom, FoldLeft, MapThenFoldSet, KeepTable, Keep
<1> HIDE DEF g
<1>4. f[0] = <<>>
  BY <1>1, <1>2 DEF KeepTable
<1>5. ASSUME NEW n \in 0..(Len(s) - 1) PROVE f[n + 1] = Keep(f[n], s[n + 1], D)
  <2>1. 1..(n + 1) \in SUBSET (1..Len(s)) /\ n + 1 \in 1..(n + 1) /\ (1..(n + 1)) \ {n + 1} = 1..n
    BY <1>2
  <2>2. Max(1..(n + 1)) = n + 1
    BY <2>1, <1>2, MaxIs
  <2>3. g[1..(n + 1)] = Keep(g[1..n], s[n + 1], D)
    BY <1>1, <2>1, <2>2 DEF KeepTable
  <2> QED BY <2>3, <1>2
<1>6. KeptFrom(s, D) = f[Len(s)]
  BY <1>2, <1>3
<1> HIDE DEF f
<1> QED BY <1>4, <1>5, <1>6

LEMMA LogAppend ==
  ASSUME NEW s \in Seq(Facts), NEW f \in Facts
  PROVE  Append(s, f) \in Seq(Facts) /\ ToSet(Append(s, f)) = ToSet(s) \cup {f}
<1>1. Append(s, f) \in Seq(Facts) /\ Len(Append(s, f)) = Len(s) + 1
  OBVIOUS
<1>2. DOMAIN Append(s, f) = 1..(Len(s) + 1) /\ DOMAIN s = 1..Len(s) /\ Len(s) \in Nat
  BY <1>1
<1>3. Append(s, f)[Len(s) + 1] = f /\ \A i \in DOMAIN s : Append(s, f)[i] = s[i]
  BY <1>2
<1>4. DOMAIN Append(s, f) = DOMAIN s \cup {Len(s) + 1}
  BY <1>2
<1> QED BY <1>1, <1>3, <1>4 DEF ToSet

LEMMA EmptyLog == <<>> \in Seq(Facts) /\ ToSet(<<>>) = {}
BY DEF ToSet

LEMMA LogFacts ==
  ASSUME NEW s \in Seq(Facts)
  PROVE  ToSet(s) \subseteq Facts
BY DEF ToSet

\* What the fold keeps of a log: all of it that is not deleted.
LEMMA KeptLines ==
  ASSUME NEW s \in Seq(Facts), NEW D
  PROVE  KeptFrom(s, D) \in Seq(Facts) /\ ToSet(KeptFrom(s, D)) = ToSet(s) \ D
<1>1. PICK f : /\ f[0] = <<>>
               /\ \A n \in 0..(Len(s) - 1) : f[n + 1] = Keep(f[n], s[n + 1], D)
               /\ KeptFrom(s, D) = f[Len(s)]
  BY KeepStages
<1> DEFINE First(n) == {s[i] : i \in 1..n}
           Good == {n \in Nat : n <= Len(s) => f[n] \in Seq(Facts) /\ ToSet(f[n]) = First(n) \ D}
<1>2. 0 \in Good
  <2>1. First(0) = {}
    OBVIOUS
  <2> HIDE DEF First
  <2> QED BY <1>1, <2>1, EmptyLog
<1>3. ASSUME NEW n \in Nat, n \in Good PROVE n + 1 \in Good
  <2> SUFFICES ASSUME n + 1 <= Len(s) PROVE f[n + 1] \in Seq(Facts) /\ ToSet(f[n + 1]) = First(n + 1) \ D
    OBVIOUS
  <2>1. f[n] \in Seq(Facts) /\ ToSet(f[n]) = First(n) \ D
    BY <1>3
  <2>2. s[n + 1] \in Facts /\ n \in 0..(Len(s) - 1)
    OBVIOUS
  <2>3. First(n + 1) = First(n) \cup {s[n + 1]}
    <3>1. 1..(n + 1) = (1..n) \cup {n + 1}
      OBVIOUS
    <3> QED BY <3>1
  <2>4. f[n + 1] = Keep(f[n], s[n + 1], D)
    BY <1>1, <2>2
  <2> HIDE DEF First
  <2> QED BY <2>1, <2>2, <2>3, <2>4, LogAppend DEF Keep
<1>4. Len(s) \in Good
  <2> HIDE DEF Good
  <2> QED BY <1>2, <1>3, SetInduction
<1>5. First(Len(s)) = ToSet(s)
  BY DEF ToSet
<1> QED BY <1>1, <1>4, <1>5

\* The last lines of a log, without what was deleted.
LEMMA KeptIs ==
  ASSUME NEW s \in Seq(Facts), NEW k \in Nat, NEW D
  PROVE  /\ KeptOf(s, k, D) \in Seq(Facts)
         /\ ToSet(KeptOf(s, k, D)) \subseteq ToSet(s) \ D
         /\ k = Len(s) => ToSet(KeptOf(s, k, D)) = ToSet(s) \ D
<1> DEFINE m == IF Len(s) > k THEN Len(s) - k + 1 ELSE 1
           t == SubSeq(s, m, Len(s))
<1>1. t \in Seq(Facts) /\ ToSet(t) \subseteq ToSet(s)
  <2>1. t \in Seq(Facts) /\ \A i \in 1..Len(t) : t[i] = s[m + i - 1] /\ m + i - 1 \in 1..Len(s)
    OBVIOUS
  <2> HIDE DEF t
  <2> QED BY <2>1 DEF ToSet
<1>2. k = Len(s) => t = s
  OBVIOUS
<1>3. KeptOf(s, k, D) = KeptFrom(t, D)
  BY DEF KeptOf, KeptFrom
<1> HIDE DEF t
<1> QED BY <1>1, <1>2, <1>3, KeptLines
-----------------------------------------------------------------------------
(* Where a job stands *)

Kinds == {"none", "turn", "compact", "night", "forget", "reset"}
Pcs == {"idle", "prepare", "condensing", "log", "state", "prune", "reading", "summary",
        "writing", "failing", "revert", "notes", "verify", "epoch", "drop", "clear", "reset"}
FromHerState == {"carried", "summary", "truncated", "rest"}
Causes == {"none", "carried", "summary", "truncated", "rest", "forget", "reset"}
Pending == {"no", "forget", "reset"}
Runs == [at : 0..MaxAsks, scope : {"conversation", "everything"}, steps : SUBSET Steps]
SeenType == [summary : SUBSET Facts, log : Seq(Facts), turns : Seq(Facts), cut : SUBSET Facts, deleted : SUBSET Facts,
             pending : Pending]
Jobs == [kind : Kinds, pc : Pcs, abort : BOOLEAN, run : Runs, left : SUBSET ModelSteps,
         seen : SeenType, text : SUBSET Facts, kept : Seq(Facts), cause : Causes]

DiskTypes ==
  /\ state \in [summary : SUBSET Facts, pending : Pending, read : SUBSET Facts,
                deleted : SUBSET Facts, backoff : BOOLEAN]
  /\ log \in Seq(Facts) /\ next \in Seq(Facts) /\ old \subseteq About /\ notes \subseteq About
  /\ queue \in [source : Requests, steps : SUBSET Steps, at : 0..MaxAsks]
  /\ model \in {"own", "other", "none"}

HistoryTypes ==
  /\ known \subseteq Facts /\ gone \subseteq known /\ slipped \subseteq Facts /\ reset \subseteq known
  /\ DOMAIN due = {"conversation", "everything"} /\ DOMAIN excused = DOMAIN due
  /\ \A r \in DOMAIN due : due[r] \subseteq known \cap About

Types ==
  /\ DiskTypes /\ HistoryTypes
  /\ state.read \cup Remembered \cup notes \subseteq known
  /\ job \in Jobs
  /\ waiting \subseteq Runs \union {ResetRun}
  /\ asks \in 0..MaxAsks

\* An epoch is being started, a scrub has come past its summary, a job runs a scrub.
Starting == {"log", "state"}
PastSummary == {"notes", "verify", "epoch", "log", "state", "prune", "drop", "clear"}
Scrubbing == {"summary", "writing", "failing", "revert", "notes", "verify", "epoch", "drop", "clear"}
OfTheRun == SummaryDone(job.left)

\* What a job has read stands, and what it starts an epoch from is known to her.
Reading == {"condensing", "writing", "failing", "revert"}
ReadStands ==
  /\ job.pc \in Reading => job.seen.summary = state.summary /\ job.seen.log = log
  /\ job.pc \in {"writing", "failing"} => job.seen.pending = state.pending
  /\ job.pc = "writing" => job.seen.cut = {}
  /\ job.pc = "condensing" =>
       state.pending = "no" /\ job.seen.deleted \subseteq state.deleted /\ ToSet(job.seen.turns) \subseteq ToSet(log)
  /\ job.pc \in {"prune", "reading"} => state.pending = "no"
  /\ job.pc = "revert" => state.pending = "forget"

EpochStands ==
  /\ job.pc \in Starting =>
       /\ job.text \cup ToSet(job.kept) \subseteq Remembered
       /\ job.cause \in FromHerState => state.pending = "no" /\ ToSet(job.kept) \cap job.seen.deleted = {}
       /\ job.cause = "summary" => job.text \cap job.seen.deleted = {}
       /\ job.cause \in {"forget", "reset"} => job.kept = <<>> /\ job.text \subseteq state.summary
       /\ job.cause # "none"
       /\ job.kind = "reset" => job.text = {} /\ job.kept = <<>>
  /\ job.pc = "state" => next = job.kept
  /\ job.pc = "prune" => next = <<>>
  /\ job.pc = "reset" => job.kind = "reset"
  /\ job.kind = "reset" => job.pc \in {"reset"} \cup Starting \cup {"prune"} /\ job.run = NoRun

\* The run of a scrub: its steps, and those it has left.
RunStands ==
  /\ job.pc \in Scrubbing => job.run.steps # {}
  /\ job.run # NoRun => job.run.steps # {} /\ job.pc \in Scrubbing \cup Starting \cup {"prune"}
  /\ job.left \subseteq job.run.steps
  /\ "files" \in job.run.steps => job.run.steps = Steps
  /\ job.run # NoRun /\ job.pc \in Starting \cup {"prune"} => job.cause = "forget" /\ OfTheRun
  /\ job.pc \in {"epoch", "drop"} => OfTheRun
  /\ job.pc = "notes" => "notes" \in job.run.steps
  /\ job.pc \in {"summary", "writing", "failing", "revert"} => job.left = {} /\ "summary" \in job.run.steps

\* What is queued, and what waits for the lock, has steps to run.
AskedStands ==
  /\ queue # NoScrub => queue.steps # {}
  /\ "files" \in queue.steps => queue.steps = Steps
  /\ \A r \in waiting : r = ResetRun \/ r.steps = Steps

Small == Types /\ ReadStands /\ EpochStands /\ RunStands /\ AskedStands

-----------------------------------------------------------------------------
(* Memory is kept *)

\* The epoch her summary has left to start, as it is or will be again.
PendingNow == IF job.pc = "revert" THEN job.seen.pending ELSE state.pending

\* A scrub has put her whole log in her summary, but what is about the person.
LogIsSummed ==
  /\ PendingNow = "forget" /\ ~torn => ToSet(log) \subseteq state.summary \cup About
  /\ OfTheRun /\ job.pc \in {"notes", "verify", "epoch", "drop"} => state.pending = "forget"

\* A new epoch starts from all she remembers.
EpochIsWhole ==
  job.pc \in Starting =>
    /\ job.cause = "carried" => Remembered \subseteq job.text \cup ToSet(job.kept) \cup gone \cup About \cup rested
    /\ job.cause = "summary" => Remembered \subseteq job.text \cup gone \cup About \cup job.seen.cut
    /\ job.cause = "rest" => Remembered \subseteq job.text
    /\ job.cause = "forget" /\ ~torn => Remembered \subseteq job.text \cup About

\* A reset leaves nothing.
ResetStands ==
  revived \/
    /\ reset \cap state.summary = {}
    /\ PendingNow = "no" \/ (PendingNow = "forget" /\ ~torn) => reset \cap ToSet(log) = {}

\* A deletion on the list was recorded, unless her notes have told her of it since.
DeletedStands == state.deleted \subseteq gone \cup About

MemoryInv == Small /\ DeletedStands /\ LogIsSummed /\ EpochIsWhole /\ DeletedIsLeftOut /\ ResetStands

-----------------------------------------------------------------------------
(* What was asked for is done *)

\* A run is that of the queue's entry, or one of a conversation with no more to answer for.
RunsQueue(run) == run.steps = queue.steps /\ (run.scope = Scope(queue.source) \/ Due("everything") = {})

\* Only the run of the queued scrub may end it.
QueueStands ==
  /\ queue.at <= asks
  /\ job.run.at <= asks
  /\ job.run # NoRun /\ job.run.at = queue.at => RunsQueue(job.run)
  /\ \A r \in waiting \ {ResetRun} :
       /\ r.at \in 1..asks
       /\ r.at = queue.at => RunsQueue(r) /\ job.run.at # r.at
       /\ \A s \in waiting \ {ResetRun} : s.at = r.at => s = r

\* What is about the person is out of her summary, her logs or her notes once a run has done that.
Deletables == Logged \ unpruned
RunHasDone ==
  /\ job.pc \in PastSummary /\ OfTheRun => state.summary \cap About = {}
  /\ job.pc = "clear" /\ OfTheRun =>
       Deletables \cap About = {} /\ (state.pending = "no" => ToSet(log) \cap About = {})
  /\ job.pc = "prune" /\ job.cause = "forget" => log = <<>>
  /\ job.pc = "drop" => state.pending = "forget"
  /\ job.pc \in {"verify", "epoch", "log", "state", "prune", "drop", "clear"}
       /\ job.run.scope = "everything" /\ "notes" \in job.run.steps \ job.left => notes \cap About = {}

\* What she takes over: her summary, and her log unless an epoch is left to start.
Held == state.summary \cup (IF PendingNow = "no" THEN ToSet(log) ELSE {})

\* What is due is out of it, and out of every log that could be deleted.
OutOfMemory(facts) == facts \cap (Held \cup Deletables) = {}
ConversationDone == OutOfMemory(Due("conversation"))
EverythingDone == OutOfMemory(Due("everything")) /\ Due("everything") \cap notes = {}

\* The steps a scrub in the queue no longer has are done; one of a conversation follows no
\* unfinished one of everything.
StepsAreDone ==
  /\ queue.source = "conversation" => EverythingDone
  /\ queue.source # "conversation" => Due("everything") \subseteq Due("conversation")
  /\ {"files", "summary"} \cap queue.steps = {} => ConversationDone
  /\ {"files", "notes"} \cap queue.steps = {} => Due("everything") \cap notes = {}

ScrubInv == Small /\ QueueStands /\ RunHasDone /\ StepsAreDone
-----------------------------------------------------------------------------
(* What the steps of a job do to it *)

LEMMA NoJobIs ==
  ASSUME MemoryAssumption
  PROVE /\ NoJob \in Jobs /\ NoJob.kind = "none" /\ NoJob.pc = "idle" /\ NoJob.abort = FALSE
        /\ NoJob.run = NoRun /\ NoJob.left = {} /\ NoJob.cause = "none"
        /\ NoRun \in Runs /\ NoRun.at = 0 /\ NoRun.steps = {} /\ NoRun.scope = "conversation"
        /\ ResetRun.at = 0 /\ ResetRun.scope = "reset"
<1>1. <<>> \in Seq(Facts)
  BY EmptyLog
<1> QED BY <1>1 DEF MemoryAssumption, NoJob, Jobs, NoRun, RunOf, NoScrub, Scope, Runs, SeenType,
           NoSeen, Kinds, Pcs, Causes, Pending, ResetRun

LEMMA GoesIs ==
  ASSUME job \in Jobs, NEW p \in Pcs, Goes(p)
  PROVE /\ job' \in Jobs /\ job'.pc = p /\ job'.kind = job.kind /\ job'.abort = job.abort
        /\ job'.run = job.run /\ job'.left = job.left /\ job'.seen = job.seen /\ job'.text = job.text
        /\ job'.kept = job.kept /\ job'.cause = job.cause
BY DEF Goes, Jobs

LEMMA StartsIs ==
  ASSUME MemoryAssumption, NEW k \in Kinds, NEW p \in Pcs, NEW r \in Runs, Starts(k, p, r)
  PROVE /\ job' \in Jobs /\ job'.pc = p /\ job'.kind = k /\ job'.abort = FALSE
        /\ job'.run = r /\ job'.left = {} /\ job'.cause = "none"
BY NoJobIs DEF Starts, Jobs

LEMMA EpochIs ==
  ASSUME job \in Jobs, NEW t \in SUBSET Facts, NEW k \in Seq(Facts), NEW c \in Causes, NEW s \in SeenType, Epoch(t, k, c, s)
  PROVE /\ job' \in Jobs /\ job'.pc = "log" /\ job'.kind = job.kind /\ job'.abort = job.abort
        /\ job'.run = job.run /\ job'.left = job.left /\ job'.seen = s /\ job'.text = t
        /\ job'.kept = k /\ job'.cause = c
BY DEF Epoch, Jobs, Pcs

\* What she can see now.
LEMMA SeenNowIs ==
  ASSUME Types
  PROVE  /\ SeenNow \in SeenType /\ SeenNow.summary = state.summary /\ SeenNow.log = log
         /\ SeenNow.deleted = state.deleted /\ SeenNow.pending = state.pending /\ SeenNow.cut = {}
         /\ SeenNow.turns \in Seq(Facts) /\ ToSet(SeenNow.turns) = ToSet(log) \ rested
<1>1. log \in Seq(Facts) /\ Len(log) \in Nat
  BY DEF Types, DiskTypes
<1>2. /\ KeptOf(log, Len(log), rested) \in Seq(Facts)
      /\ ToSet(KeptOf(log, Len(log), rested)) = ToSet(log) \ rested
  BY <1>1, KeptIs
<1> QED BY <1>1, <1>2 DEF SeenNow, SeenType, Types, DiskTypes, Pending

LEMMA NoSeenIs == NoSeen \in SeenType /\ NoSeen.deleted = {}
BY EmptyLog DEF NoSeen, SeenType, Pending

LEMMA ReadsIs ==
  ASSUME Types, NEW p \in Pcs, Reads(p)
  PROVE /\ job' \in Jobs /\ job'.pc = p /\ job'.kind = job.kind /\ job'.abort = job.abort
        /\ job'.run = job.run /\ job'.left = job.left /\ job'.seen = SeenNow /\ job'.text = job.text
        /\ job'.kept = job.kept /\ job'.cause = job.cause
<1>1. SeenNow \in SeenType
  BY SeenNowIs
<1> QED BY <1>1 DEF Reads, Jobs, Types

LEMMA StartedIs ==
  ASSUME job \in Jobs, Started
  PROVE /\ job' \in Jobs /\ job'.pc = "prune" /\ job'.kind = job.kind /\ job'.abort = job.abort
        /\ job'.run = job.run /\ job'.left = job.left /\ job'.cause = job.cause
<1>1. <<>> \in Seq(Facts) /\ NoSeen \in SeenType
  BY EmptyLog, NoSeenIs
<1> HIDE DEF NoSeen
<1> QED BY <1>1 DEF Started, Jobs, Pcs

LEMMA WaitsIs ==
  ASSUME job \in Jobs, SummaryWaits
  PROVE /\ job' \in Jobs /\ job'.pc = AfterSummary({"summary"}) /\ job'.kind = job.kind /\ job'.abort = job.abort
        /\ job'.run = job.run /\ job'.left = {"summary"} /\ job'.text = job.text
        /\ job'.kept = job.kept /\ job'.cause = job.cause
<1>1. NoSeen \in SeenType
  BY NoSeenIs
<1> HIDE DEF NoSeen
<1> QED BY <1>1 DEF SummaryWaits, AfterSummary, Jobs, Pcs, ModelSteps

LEMMA JobTypes ==
  ASSUME NEW j \in Jobs
  PROVE /\ j.kind \in Kinds /\ j.pc \in Pcs /\ j.abort \in BOOLEAN /\ j.run \in Runs
        /\ j.left \in SUBSET ModelSteps /\ j.seen \in SeenType /\ j.text \in SUBSET Facts
        /\ j.kept \in Seq(Facts) /\ j.cause \in Causes
        /\ j.run.at \in 0..MaxAsks /\ j.run.scope \in {"conversation", "everything"}
        /\ j.run.steps \in SUBSET Steps
        /\ j.seen.summary \in SUBSET Facts /\ j.seen.log \in Seq(Facts) /\ j.seen.turns \in Seq(Facts)
        /\ j.seen.deleted \in SUBSET Facts /\ j.seen.pending \in Pending
BY DEF Jobs, Runs, SeenType

LEMMA FactsOf ==
  ASSUME Types
  PROVE  /\ ToSet(log) \subseteq Facts /\ ToSet(next) \subseteq Facts
         /\ ToSet(job.kept) \subseteq Facts /\ ToSet(job.seen.log) \subseteq Facts
         /\ Remembered \subseteq Facts
BY JobTypes, LogFacts DEF Types, DiskTypes, Remembered

LEMMA FirstIs ==
  ASSUME Types
  PROVE  /\ RunOf(queue) \in Runs /\ RunOf(queue).steps = queue.steps /\ RunOf(queue).at = queue.at
         /\ \A r : FirstStep(r) \in {"summary", "notes"} /\ (FirstStep(r) = "summary" <=> "summary" \in r.steps)
BY DEF Types, DiskTypes, RunOf, Runs, Scope, Requests, FirstStep
-----------------------------------------------------------------------------
(* What each action makes of the job *)

\* A job that begins (or none), one that goes on at pc, one that reads what she remembers, one that
\* starts an epoch.
Begun(kind, pc, run) ==
  job' \in Jobs /\ job'.kind = kind /\ job'.pc = pc /\ job'.run = run /\ job'.left = {} /\ job'.cause = "none"
Over == job' = NoJob /\ Begun("none", "idle", NoRun)
Stays == job'.kind = job.kind /\ job'.run = job.run
Moved(pc) ==
  /\ job' \in Jobs /\ Stays /\ job'.pc = pc /\ job'.left = job.left
  /\ job'.text = job.text /\ job'.kept = job.kept /\ job'.cause = job.cause /\ job'.seen = job.seen
Looks(pc) ==
  /\ job' \in Jobs /\ Stays /\ job'.pc = pc /\ job'.left = job.left
  /\ job'.seen.summary = state.summary /\ job'.seen.log = log
  /\ job'.seen.deleted = state.deleted /\ job'.seen.pending = state.pending
  /\ ToSet(job'.seen.turns) \subseteq ToSet(log)
  /\ pc = "writing" => job'.seen.cut = {}
EpochBegins(text, kept, cause, seen) ==
  /\ job' \in Jobs /\ Stays /\ job'.pc = "log" /\ job'.left = job.left
  /\ job'.text = text /\ job'.kept = kept /\ job'.cause = cause /\ job'.seen = seen
LeavesOut(left, pc) == job' \in Jobs /\ Stays /\ job'.left = left /\ job'.pc = pc

LEMMA OverIs ==
  ASSUME MemoryAssumption, Ends
  PROVE  Over
BY NoJobIs DEF Ends, Over, Begun

LEMMA BeginIs ==
  ASSUME MemoryAssumption, NEW k \in Kinds, NEW p \in Pcs, NEW r \in Runs, Starts(k, p, r)
  PROVE  Begun(k, p, r)
BY StartsIs DEF Begun

LEMMA MoveIs ==
  ASSUME job \in Jobs, NEW p \in Pcs, Goes(p)
  PROVE  Moved(p)
BY GoesIs DEF Moved, Stays

LEMMA LookIs ==
  ASSUME Types, NEW p \in Pcs, Reads(p)
  PROVE  Looks(p)
BY ReadsIs, SeenNowIs DEF Looks, Stays

LEMMA EpochBeginIs ==
  ASSUME job \in Jobs, NEW t \in SUBSET Facts, NEW k \in Seq(Facts), NEW c \in Causes,
         NEW s \in SeenType, Epoch(t, k, c, s)
  PROVE  EpochBegins(t, k, c, s)
BY EpochIs DEF EpochBegins, Stays

LEMMA WaitIs ==
  ASSUME job \in Jobs, SummaryWaits
  PROVE  LeavesOut({"summary"}, AfterSummary({"summary"}))
BY WaitsIs DEF LeavesOut, Stays

LEMMA TakeTurnJob ==
  ASSUME MemoryAssumption, Types, TakeTurn
  PROVE  /\ job = NoJob /\ waiting = {}
         /\ \/ Begun("turn", FirstStep(RunOf(queue)), RunOf(queue)) /\ queue # NoScrub
            \/ Begun("turn", "prepare", NoRun)
<1>1. job = NoJob /\ waiting = {}
  BY DEF TakeTurn, Free
<1>2. FirstStep(RunOf(queue)) \in Pcs /\ RunOf(queue) \in Runs /\ NoRun \in Runs /\ "turn" \in Kinds
      /\ "prepare" \in Pcs
  BY FirstIs, NoJobIs DEF Pcs, Kinds
<1>3. CASE Starts("turn", FirstStep(RunOf(queue)), RunOf(queue)) /\ queue # NoScrub
  BY <1>1, <1>2, <1>3, BeginIs
<1>4. CASE Starts("turn", "prepare", NoRun)
  BY <1>1, <1>2, <1>4, BeginIs
<1> QED BY <1>3, <1>4 DEF TakeTurn

LEMMA CompactNowJob ==
  ASSUME MemoryAssumption, Types, CompactNow
  PROVE  job = NoJob /\ Begun("compact", "prepare", NoRun)
<1>1. NoRun \in Runs /\ "compact" \in Kinds /\ "prepare" \in Pcs
  BY NoJobIs DEF Pcs, Kinds
<1> QED BY <1>1, BeginIs DEF CompactNow, Free

LEMMA MaintainJob ==
  ASSUME MemoryAssumption, Types, Maintain
  PROVE  /\ job = NoJob /\ waiting = {} /\ queue # NoScrub
         /\ Begun("night", FirstStep(RunOf(queue)), RunOf(queue))
<1>1. FirstStep(RunOf(queue)) \in Pcs /\ RunOf(queue) \in Runs /\ "night" \in Kinds
  BY FirstIs, NoJobIs DEF Pcs, Kinds
<1> QED BY <1>1, BeginIs DEF Maintain, Free

LEMMA TakeWaitingJob ==
  ASSUME MemoryAssumption, Types, TakeWaiting
  PROVE  /\ job = NoJob
         /\ \E run \in waiting :
              /\ waiting' = waiting \ {run}
              /\ \/ run = ResetRun /\ Begun("reset", "reset", NoRun)
                 \/ run # ResetRun /\ run \in Runs /\ Begun("forget", FirstStep(run), run)
<1>1. PICK run \in waiting :
        /\ waiting' = waiting \ {run}
        /\ IF run = ResetRun THEN Starts("reset", "reset", NoRun)
                             ELSE Starts("forget", FirstStep(run), run)
  BY DEF TakeWaiting
<1>2. run = ResetRun \/ run \in Runs
  BY DEF Types
<1>3. FirstStep(run) \in Pcs /\ NoRun \in Runs /\ {"forget", "reset"} \subseteq Kinds /\ "reset" \in Pcs
  BY FirstIs, NoJobIs DEF Pcs, Kinds
<1>4. CASE run = ResetRun
  BY <1>1, <1>3, <1>4, BeginIs DEF TakeWaiting
<1>5. CASE run # ResetRun
  BY <1>1, <1>2, <1>3, <1>5, BeginIs DEF TakeWaiting
<1> QED BY <1>4, <1>5

LEMMA PrepareJob ==
  ASSUME MemoryAssumption, Types, Prepare
  PROVE  /\ job.pc = "prepare"
         /\ \/ state.pending # "no" /\ EpochBegins(state.summary, <<>>, state.pending, NoSeen)
            \/ state.pending = "no" /\ job.kind = "turn" /\ Moved("reading")
            \/ state.pending = "no" /\ Looks("condensing")
            \/ /\ state.pending = "no"
               /\ EpochBegins(state.summary, KeptOf(SeenNow.turns, Len(SeenNow.turns), state.deleted), "carried", SeenNow)
<1> USE DEF At
<1>1. /\ job \in Jobs /\ state.summary \in SUBSET Facts /\ state.pending \in Pending /\ state.deleted \in SUBSET Facts
      /\ log \in Seq(Facts) /\ Len(log) \in Nat
  BY DEF Types, DiskTypes, Pending
<1>2. {"reading", "condensing"} \subseteq Pcs /\ "carried" \in Causes /\ Pending \subseteq Causes \cup {"no"}
  BY DEF Pcs, Causes, Pending
<1>3. NoSeen \in SeenType /\ SeenNow \in SeenType /\ SeenNow.turns \in Seq(Facts) /\ Len(SeenNow.turns) \in Nat
  BY NoSeenIs, SeenNowIs
<1>4. KeptOf(SeenNow.turns, Len(SeenNow.turns), state.deleted) \in Seq(Facts)
  BY <1>3, KeptIs
<1> HIDE DEF NoSeen, SeenNow
<1>5. CASE Epoch(state.summary, <<>>, state.pending, NoSeen) /\ state.pending # "no"
  BY <1>1, <1>2, <1>3, <1>5, EmptyLog, EpochBeginIs DEF Prepare
<1>6. CASE Goes("reading") /\ job.kind = "turn" /\ state.pending = "no"
  BY <1>1, <1>2, <1>6, MoveIs DEF Prepare
<1>7. CASE Reads("condensing") /\ state.pending = "no"
  BY <1>2, <1>7, LookIs DEF Prepare
<1>8. CASE /\ Epoch(state.summary, KeptOf(SeenNow.turns, Len(SeenNow.turns), state.deleted), "carried", SeenNow)
           /\ state.pending = "no"
  BY <1>1, <1>2, <1>3, <1>4, <1>8, EpochBeginIs DEF Prepare
<1> QED BY <1>5, <1>6, <1>7, <1>8 DEF Prepare

LEMMA CondensedJob ==
  ASSUME MemoryAssumption, Types, Condensed
  PROVE  /\ job.pc = "condensing"
         /\ \E keep \in Nat :
              EpochBegins(Summarised(job.seen, job.seen.deleted), KeptOf(job.seen.turns, keep, job.seen.deleted),
                          "summary", job.seen)
<1>1. /\ job \in Jobs /\ job.seen \in SeenType /\ job.seen.turns \in Seq(Facts) /\ KeptTurns \in Nat
      /\ job.seen.summary \in SUBSET Facts /\ job.seen.log \in Seq(Facts)
  BY JobTypes DEF Types, MemoryAssumption
<1>2. PICK keep \in 0..KeptTurns :
        Epoch(Summarised(job.seen, job.seen.deleted), KeptOf(job.seen.turns, keep, job.seen.deleted), "summary", job.seen)
  BY DEF Condensed
<1>3. KeptOf(job.seen.turns, keep, job.seen.deleted) \in Seq(Facts) /\ keep \in Nat
  BY <1>1, KeptIs
<1>4. Summarised(job.seen, job.seen.deleted) \in SUBSET Facts /\ "summary" \in Causes
  BY <1>1, LogFacts DEF Summarised, Causes
<1> QED BY <1>1, <1>2, <1>3, <1>4, EpochBeginIs DEF Condensed, At

LEMMA CondenseFailsJob ==
  ASSUME MemoryAssumption, Types, CondenseFails
  PROVE  /\ job.pc = "condensing"
         /\ \E keep \in Nat :
              EpochBegins(job.seen.summary, KeptOf(job.seen.turns, keep, job.seen.deleted), "truncated", job.seen)
<1>1. /\ job \in Jobs /\ job.seen \in SeenType /\ job.seen.turns \in Seq(Facts) /\ KeptTurns \in Nat
      /\ job.seen.summary \in SUBSET Facts
  BY JobTypes DEF Types, MemoryAssumption
<1>2. PICK keep \in 0..KeptTurns :
        Epoch(job.seen.summary, KeptOf(job.seen.turns, keep, job.seen.deleted), "truncated", job.seen)
  BY DEF CondenseFails
<1>3. KeptOf(job.seen.turns, keep, job.seen.deleted) \in Seq(Facts) /\ keep \in Nat /\ "truncated" \in Causes
  BY <1>1, KeptIs DEF Causes
<1> QED BY <1>1, <1>2, <1>3, EpochBeginIs DEF CondenseFails, At

\* A compaction inside a turn keeps some turns of her log, and none that was deleted.
LEMMA MidTurnJob ==
  ASSUME MemoryAssumption, Types, MidTurnCompaction
  PROVE  /\ job.pc = "reading"
         /\ \/ Looks("condensing")
            \/ \E k \in Seq(Facts) : /\ ToSet(k) \subseteq ToSet(log) \ state.deleted
                                     /\ EpochBegins(state.summary, k, "truncated", SeenNow)
<1>1. job \in Jobs /\ log \in Seq(Facts) /\ state.summary \in SUBSET Facts /\ KeptTurns \in Nat
  BY DEF Types, DiskTypes, MemoryAssumption
<1> DEFINE turns(n) == KeptOf(SubSeq(log, 1, n), n, rested)
<1>2. PICK n \in 0..Len(log) :
        \/ \E fits \in 0..Len(log) :
             job' = [job EXCEPT !.pc = "condensing",
                       !.seen = [SeenNow EXCEPT !.turns = turns(n), !.cut = ToSet(SubSeq(log, fits + 1, Len(log)))]]
        \/ \E keep \in 0..KeptTurns : Epoch(state.summary, KeptOf(turns(n), keep, state.deleted), "truncated", SeenNow)
  BY DEF MidTurnCompaction
<1>3. turns(n) \in Seq(Facts) /\ ToSet(turns(n)) \subseteq ToSet(log)
  <2>1. SubSeq(log, 1, n) \in Seq(Facts) /\ ToSet(SubSeq(log, 1, n)) \subseteq ToSet(log) /\ n \in Nat
    <3>1. \A i \in 1..n : SubSeq(log, 1, n)[i] = log[i] /\ i \in 1..Len(log)
      BY <1>1
    <3>2. SubSeq(log, 1, n) \in Seq(Facts) /\ Len(SubSeq(log, 1, n)) = n
      BY <1>1
    <3> QED BY <3>1, <3>2 DEF ToSet
  <2> QED BY <2>1, KeptIs
<1> HIDE DEF turns
<1>4. CASE \E fits \in 0..Len(log) :
             job' = [job EXCEPT !.pc = "condensing",
                       !.seen = [SeenNow EXCEPT !.turns = turns(n), !.cut = ToSet(SubSeq(log, fits + 1, Len(log)))]]
  <2>1. PICK fits \in 0..Len(log) :
          job' = [job EXCEPT !.pc = "condensing",
                    !.seen = [SeenNow EXCEPT !.turns = turns(n), !.cut = ToSet(SubSeq(log, fits + 1, Len(log)))]]
    BY <1>4
  <2> DEFINE cut == ToSet(SubSeq(log, fits + 1, Len(log)))
  <2>2. cut \in SUBSET Facts
    <3>1. SubSeq(log, fits + 1, Len(log)) \in Seq(Facts)
      BY <1>1
    <3> QED BY <3>1, LogFacts
  <2> HIDE DEF cut
  <2>3. job' = [job EXCEPT !.pc = "condensing", !.seen = [SeenNow EXCEPT !.turns = turns(n), !.cut = cut]]
    BY <2>1 DEF cut
  <2> DEFINE seen == [SeenNow EXCEPT !.turns = turns(n), !.cut = cut]
  <2>4. /\ seen \in SeenType /\ seen.summary = state.summary /\ seen.log = log
        /\ seen.deleted = state.deleted /\ seen.pending = state.pending /\ seen.turns = turns(n)
    BY <1>3, <2>2, SeenNowIs DEF SeenType
  <2>5. job' = [job EXCEPT !.pc = "condensing", !.seen = seen]
    BY <2>3
  <2> HIDE DEF seen
  <2>6. Looks("condensing")
    BY <1>1, <1>3, <2>4, <2>5 DEF Looks, Stays, Jobs, Pcs
  <2> QED BY <2>6 DEF MidTurnCompaction, At
<1>5. CASE \E keep \in 0..KeptTurns : Epoch(state.summary, KeptOf(turns(n), keep, state.deleted), "truncated", SeenNow)
  <2>1. PICK keep \in 0..KeptTurns : Epoch(state.summary, KeptOf(turns(n), keep, state.deleted), "truncated", SeenNow)
    BY <1>5
  <2> DEFINE k == KeptOf(turns(n), keep, state.deleted)
  <2>2. k \in Seq(Facts) /\ ToSet(k) \subseteq ToSet(log) \ state.deleted
    <3>1. keep \in Nat
      BY <1>1
    <3> QED BY <1>3, <3>1, KeptIs
  <2> HIDE DEF k
  <2>3. EpochBegins(state.summary, k, "truncated", SeenNow)
    BY <1>1, <2>1, <2>2, SeenNowIs, EpochBeginIs DEF Causes, k
  <2> QED BY <2>2, <2>3 DEF MidTurnCompaction, At
<1> QED BY <1>2, <1>4, <1>5

LEMMA RestsJob ==
  ASSUME Types, Rests
  PROVE  job.pc = "reading" /\ EpochBegins(Remembered, <<>>, "rest", SeenNow)
<1>1. Summarised(SeenNow, {}) = Remembered /\ Remembered \subseteq Facts /\ SeenNow \in SeenType
  BY SeenNowIs, FactsOf DEF Summarised, Remembered
<1>2. "rest" \in Causes /\ <<>> \in Seq(Facts) /\ job \in Jobs
  BY EmptyLog DEF Causes, Types
<1> HIDE DEF SeenNow
<1> QED BY <1>1, <1>2, EpochBeginIs DEF Rests, At

LEMMA EpochLogJob ==
  ASSUME Types, EpochLog
  PROVE  job.pc = "log" /\ Moved("state")
<1>1. "state" \in Pcs
  BY DEF Pcs
<1> QED BY <1>1, MoveIs DEF EpochLog, At, Types

LEMMA EpochStateJob ==
  ASSUME Types, EpochState
  PROVE  /\ job.pc = "state" /\ job' \in Jobs /\ Stays /\ job'.pc = "prune"
         /\ job'.left = job.left /\ job'.cause = job.cause
BY StartedIs DEF EpochState, At, Types, Stays

LEMMA GoesOnJob ==
  ASSUME MemoryAssumption, Types, GoesOn
  PROVE  \/ job.run # NoRun /\ Moved("clear")
         \/ job.run = NoRun /\ Over
<1>1. "clear" \in Pcs /\ job \in Jobs
  BY DEF Pcs, Types
<1>2. CASE Goes("clear") /\ job.run # NoRun
  BY <1>1, <1>2, MoveIs
<1>3. CASE Ends /\ job.run = NoRun
  BY <1>3, OverIs
<1> QED BY <1>2, <1>3 DEF GoesOn

LEMMA ScrubReadsJob ==
  ASSUME Types, ScrubReads
  PROVE  job.pc = "summary" /\ Looks("writing")
<1>1. "writing" \in Pcs
  BY DEF Pcs
<1> QED BY <1>1, LookIs DEF ScrubReads, At

LEMMA ScrubbedJob ==
  ASSUME Types, Scrubbed
  PROVE  job.pc = "writing" /\ LeavesOut(job.left, AfterSummary({}))
<1>1. NoSeen \in SeenType
  BY NoSeenIs
<1>2. AfterSummary({}) \in Pcs
  BY DEF AfterSummary, Pcs
<1>3. job' = [job EXCEPT !.pc = AfterSummary({}), !.seen = NoSeen] /\ job.pc = "writing"
  BY DEF Scrubbed, At
<1> HIDE DEF NoSeen
<1> QED BY <1>1, <1>2, <1>3 DEF LeavesOut, Stays, Types, Jobs

LEMMA ScrubFailsJob ==
  ASSUME Types, ScrubFails
  PROVE  job.pc = "writing" /\ Moved("failing")
<1>1. "failing" \in Pcs
  BY DEF Pcs
<1> QED BY <1>1, MoveIs DEF ScrubFails, At, Types

LEMMA EpochLeftJob ==
  ASSUME Types, EpochLeft
  PROVE  job.pc = "failing" /\ Moved("revert")
<1>1. "revert" \in Pcs
  BY DEF Pcs
<1> QED BY <1>1, MoveIs DEF EpochLeft, At, Types

LEMMA ScrubNotesJob ==
  ASSUME Types, ScrubNotes
  PROVE  /\ job.pc = "notes"
         /\ \/ Moved("verify") /\ notes' = notes \ About
            \/ /\ notes' = notes
               /\ LeavesOut(job.left \cup {"notes"},
                    IF "files" \in job.run.steps \/ SummaryDone(job.left) THEN "verify" ELSE "clear")
<1>1. {"verify", "clear"} \subseteq Pcs /\ job \in Jobs /\ "notes" \in ModelSteps
  BY DEF Pcs, Types, ModelSteps
<1>2. CASE Goes("verify") /\ notes' = notes \ About
  BY <1>1, <1>2, MoveIs DEF ScrubNotes, At
<1>3. CASE notes' = notes /\
             job' = [job EXCEPT !.left = @ \cup {"notes"},
                       !.pc = IF "files" \in job.run.steps \/ SummaryDone(job.left) THEN "verify" ELSE "clear"]
  BY <1>1, <1>3 DEF ScrubNotes, At, LeavesOut, Stays, Jobs
<1> QED BY <1>2, <1>3 DEF ScrubNotes

LEMMA VerifyJob ==
  ASSUME Types, Verify
  PROVE  job.pc = "verify" /\ Moved(IF SummaryDone(job.left) THEN "epoch" ELSE "clear")
<1>1. {"epoch", "clear"} \subseteq Pcs
  BY DEF Pcs
<1> QED BY <1>1, MoveIs DEF Verify, At, Types

LEMMA StartEpochNowJob ==
  ASSUME MemoryAssumption, Types, StartEpochNow
  PROVE  /\ job.pc = "epoch"
         /\ \/ EpochBegins(state.summary, <<>>, "forget", NoSeen) /\ state' = state
            \/ Moved("drop") /\ state' = [state EXCEPT !.pending = "forget"]
<1>1. "drop" \in Pcs /\ "forget" \in Causes /\ job \in Jobs /\ state.summary \in SUBSET Facts
  BY DEF Pcs, Causes, Types, DiskTypes
<1>2. NoSeen \in SeenType
  BY NoSeenIs
<1> HIDE DEF NoSeen
<1>3. CASE Epoch(state.summary, <<>>, "forget", NoSeen) /\ state' = state
  BY <1>1, <1>2, <1>3, EmptyLog, EpochBeginIs DEF StartEpochNow, At
<1>4. CASE Goes("drop") /\ state' = [state EXCEPT !.pending = "forget"]
  BY <1>1, <1>4, MoveIs DEF StartEpochNow, At
<1> QED BY <1>3, <1>4 DEF StartEpochNow

LEMMA DropLogsJob ==
  ASSUME Types, DropLogs
  PROVE  job.pc = "drop" /\ Moved("clear")
<1>1. "clear" \in Pcs
  BY DEF Pcs
<1> QED BY <1>1, MoveIs DEF DropLogs, At, Types

\* A turn goes on to its epoch.
LEMMA TurnPrepares ==
  ASSUME MemoryAssumption, Types, job' = [NoJob EXCEPT !.kind = "turn", !.pc = "prepare", !.abort = job.abort]
  PROVE  Begun("turn", "prepare", NoRun)
<1>1. NoJob \in Jobs /\ NoJob.run = NoRun /\ NoJob.left = {} /\ NoJob.cause = "none" /\ job.abort \in BOOLEAN
  BY NoJobIs, JobTypes DEF Types
<1>2. "turn" \in Kinds /\ "prepare" \in Pcs
  BY DEF Kinds, Pcs
<1> HIDE DEF NoJob
<1> QED BY <1>1, <1>2 DEF Begun, Jobs

LEMMA ClearJob ==
  ASSUME MemoryAssumption, Types, Clear
  PROVE  job.pc = "clear" /\ (Over \/ Begun("turn", "prepare", NoRun))
BY OverIs, TurnPrepares DEF Clear, At

LEMMA ResetJob ==
  ASSUME MemoryAssumption, Types, Reset
  PROVE  /\ job.pc = "reset"
         /\ \/ EpochBegins({}, <<>>, "reset", NoSeen) /\ state' = state /\ reset' = reset
            \/ Over /\ state' = [state EXCEPT !.summary = {}, !.pending = "reset"] /\ reset' = known
<1>1. "reset" \in Causes /\ job \in Jobs
  BY DEF Causes, Types
<1>2. NoSeen \in SeenType
  BY NoSeenIs
<1> HIDE DEF NoSeen
<1>3. CASE Epoch({}, <<>>, "reset", NoSeen) /\ state' = state /\ reset' = reset
  BY <1>1, <1>2, <1>3, EmptyLog, EpochBeginIs DEF Reset, At
<1>4. CASE Ends /\ state' = [state EXCEPT !.summary = {}, !.pending = "reset"] /\ reset' = known
  BY <1>4, OverIs DEF Reset, At
<1> QED BY <1>3, <1>4 DEF Reset

\* An abort changes nothing else.
LEMMA AbortIs ==
  ASSUME job \in Jobs, AbortTurn \/ job' = [job EXCEPT !.abort = TRUE] \/ job' = job
  PROVE  Moved(job.pc)
<1>1. CASE job' = job
  BY <1>1 DEF Moved, Stays
<1>2. CASE job' = [job EXCEPT !.abort = TRUE]
  BY <1>2 DEF Moved, Stays, Jobs
<1> QED BY <1>1, <1>2 DEF AbortTurn

LEMMA ThrowsJob ==
  ASSUME MemoryAssumption, Types, Throws
  PROVE  Over \/ Begun("turn", "prepare", NoRun)
BY OverIs, TurnPrepares DEF Throws

LEMMA CrashJob ==
  ASSUME MemoryAssumption, Types, Crash
  PROVE  \/ Over
         \/ queue.source = "owner" /\ Begun("forget", FirstStep(RunOf(queue)), RunOf(queue))
<1>1. FirstStep(RunOf(queue)) \in Pcs /\ RunOf(queue) \in Runs /\ "forget" \in Kinds
  BY FirstIs DEF Pcs, Kinds
<1>2. CASE Ends
  BY <1>2, OverIs
<1>3. CASE Starts("forget", FirstStep(RunOf(queue)), RunOf(queue)) /\ queue.source = "owner"
  BY <1>1, <1>3, BeginIs
<1> QED BY <1>2, <1>3 DEF Crash
-----------------------------------------------------------------------------
(* The job stands as it did: one lemma for each way it may change *)

\* Her memory and its queue are as they were, but for a backoff.
Still ==
  /\ state'.summary = state.summary /\ state'.pending = state.pending
  /\ state'.deleted = state.deleted /\ state'.read = state.read
  /\ log' = log /\ next' = next /\ queue' = queue /\ waiting' \subseteq waiting

Stands == ReadStands /\ EpochStands /\ RunStands

LEMMA BegunStands ==
  ASSUME MemoryAssumption, NEW k \in Kinds, NEW p \in Pcs, NEW r \in Runs, Begun(k, p, r),
         \/ p \in {"idle", "prepare", "reading", "reset"} /\ r = NoRun
         \/  /\ p \in {"summary", "notes"} /\ (p = "summary" => "summary" \in r.steps) /\ (p = "notes" => "notes" \in r.steps)
             /\ r.steps # {} /\ ("files" \in r.steps => r.steps = Steps),
         p = "reading" => state'.pending = "no",
         k = "reset" <=> p = "reset"
  PROVE  Stands'
<1>1. NoRun.steps = {}
  BY NoJobIs
<1>2. job'.pc = p /\ job'.kind = k /\ job'.run = r /\ job'.left = {}
  BY DEF Begun
<1>3. ReadStands'
  BY <1>2 DEF ReadStands, Reading
<1>4. EpochStands'
  BY <1>2 DEF EpochStands, Starting
<1>5. RunStands'
  BY <1>1, <1>2 DEF RunStands, Starting, Scrubbing
<1> QED BY <1>3, <1>4, <1>5 DEF Stands

LEMMA OverStands ==
  ASSUME MemoryAssumption, Over
  PROVE  Stands'
<1>1. NoRun \in Runs /\ "none" \in Kinds /\ "idle" \in Pcs
  BY NoJobIs DEF Kinds, Pcs
<1>2. Begun("none", "idle", NoRun)
  BY DEF Over
<1> HIDE DEF NoRun
<1> QED BY <1>1, <1>2, BegunStands

\* What ran is what was asked for.
LEMMA RunStandsToo ==
  ASSUME MemoryAssumption, NEW k \in Kinds \ {"reset"}, NEW r \in Runs,
         r.steps # {}, "files" \in r.steps => r.steps = Steps, Begun(k, FirstStep(r), r)
  PROVE  Stands'
<1>1. FirstStep(r) \in Pcs /\ FirstStep(r) \in {"summary", "notes"} /\ (FirstStep(r) = "summary" => "summary" \in r.steps)
      /\ (FirstStep(r) = "notes" => "notes" \in r.steps)
  BY DEF FirstStep, Pcs, Runs, Steps
<1> HIDE DEF FirstStep
<1> QED BY <1>1, BegunStands

LEMMA SameStands ==
  ASSUME Stands, Still, job' \in Jobs, Moved(job.pc)
  PROVE  Stands'
<1>1. job'.pc = job.pc /\ job'.kind = job.kind /\ job'.run = job.run /\ job'.left = job.left
      /\ job'.text = job.text /\ job'.kept = job.kept /\ job'.cause = job.cause /\ job'.seen = job.seen
  BY DEF Moved, Stays
<1>2. ReadStands'
  BY <1>1 DEF Stands, Still, ReadStands, Reading
<1>3. EpochStands'
  BY <1>1 DEF Stands, Still, EpochStands, Remembered
<1>4. RunStands'
  BY <1>1 DEF Stands, Still, RunStands, OfTheRun, SummaryDone
<1> QED BY <1>2, <1>3, <1>4 DEF Stands

\* A turn goes on; a scrub goes on to where it reads nothing and starts nothing.
LEMMA MovedStands ==
  ASSUME Stands, NEW p \in Pcs, Moved(p),
         \/ p = "reading" /\ job.run = NoRun /\ state'.pending = "no"
         \/ /\ p \in {"verify", "clear"} /\ job.run.steps # {}
         \/ /\ p \in {"epoch", "drop"} /\ OfTheRun /\ job.run.steps # {},
         job.kind # "reset"
  PROVE  Stands'
<1>1. job'.pc = p /\ job'.kind = job.kind /\ job'.run = job.run /\ job'.left = job.left
  BY DEF Moved, Stays
<1>2. ReadStands'
  BY <1>1 DEF ReadStands, Reading
<1>3. EpochStands'
  BY <1>1 DEF EpochStands, Starting
<1>4. RunStands'
  BY <1>1 DEF Stands, RunStands, Scrubbing, Starting, OfTheRun, SummaryDone
<1> QED BY <1>2, <1>3, <1>4 DEF Stands

LEMMA LeavesOutStands ==
  ASSUME Stands, NEW p \in {"notes", "verify", "clear", "epoch"}, NEW l \in SUBSET job.run.steps, LeavesOut(l, p),
         job.run.steps # {}, job.kind # "reset",
         p = "epoch" => SummaryDone(l), p = "notes" => "notes" \in job.run.steps
  PROVE  Stands'
<1>1. job'.pc = p /\ job'.kind = job.kind /\ job'.run = job.run /\ job'.left = l
  BY DEF LeavesOut, Stays
<1>2. ReadStands'
  BY <1>1 DEF ReadStands, Reading
<1>3. EpochStands'
  BY <1>1 DEF EpochStands, Starting
<1>4. RunStands'
  BY <1>1 DEF Stands, RunStands, Scrubbing, Starting, OfTheRun, SummaryDone
<1> QED BY <1>2, <1>3, <1>4 DEF Stands

LEMMA LooksStands ==
  ASSUME Stands, Still, NEW p \in {"condensing", "writing"}, Looks(p), job.kind # "reset",
         p = "condensing" => state.pending = "no" /\ job.run = NoRun,
         p = "writing" => job.run.steps # {} /\ job.left = {} /\ "summary" \in job.run.steps
  PROVE  Stands'
<1>1. job'.pc = p /\ job'.kind = job.kind /\ job'.run = job.run /\ job'.left = job.left
      /\ job'.seen.summary = state.summary /\ job'.seen.log = log
      /\ job'.seen.deleted = state.deleted /\ job'.seen.pending = state.pending
      /\ ToSet(job'.seen.turns) \subseteq ToSet(log) /\ (p = "writing" => job'.seen.cut = {})
  BY DEF Looks, Stays
<1>2. ReadStands'
  BY <1>1 DEF Still, ReadStands, Reading
<1>3. EpochStands'
  BY <1>1 DEF EpochStands, Starting
<1>4. RunStands'
  BY <1>1 DEF Stands, RunStands, Scrubbing, Starting, OfTheRun, SummaryDone
<1> QED BY <1>2, <1>3, <1>4 DEF Stands

LEMMA EpochBeginsStands ==
  ASSUME Stands, Still,
         NEW t, NEW k, NEW c \in FromHerState \cup {"forget", "reset"}, NEW s, EpochBegins(t, k, c, s),
         t \cup ToSet(k) \subseteq Remembered,
         c \in FromHerState => state.pending = "no" /\ ToSet(k) \cap s.deleted = {},
         c = "summary" => t \cap s.deleted = {},
         c \in {"forget", "reset"} => k = <<>> /\ t \subseteq state.summary,
         job.kind = "reset" => t = {} /\ k = <<>> /\ job.run = NoRun,
         job.run # NoRun => c = "forget" /\ OfTheRun
  PROVE  Stands'
<1>1. job'.pc = "log" /\ job'.kind = job.kind /\ job'.run = job.run /\ job'.left = job.left
      /\ job'.text = t /\ job'.kept = k /\ job'.cause = c /\ job'.seen = s
  BY DEF EpochBegins, Stays
<1>2. ReadStands'
  BY <1>1 DEF ReadStands, Reading
<1>3. EpochStands'
  BY <1>1 DEF Still, EpochStands, Starting, Remembered, FromHerState
<1>4. RunStands'
  BY <1>1 DEF Stands, RunStands, Scrubbing, Starting, OfTheRun, SummaryDone
<1> QED BY <1>2, <1>3, <1>4 DEF Stands
-----------------------------------------------------------------------------
(* Steps that leave her memory and its queue as they are *)

Unmoved == UNCHANGED <<disk, model, asks, known, due, excused, gone, slipped, reset, revived>>

LEMMA UnmovedSmall ==
  ASSUME Small, Unmoved, job' \in Jobs, waiting' \subseteq waiting, Stands'
  PROVE  Small'
<1>1. Types'
  BY DEF Small, Types, DiskTypes, HistoryTypes, Unmoved, disk, Remembered
<1>2. AskedStands'
  BY DEF Small, AskedStands, Unmoved, disk
<1> QED BY <1>1, <1>2 DEF Small, Stands

LEMMA UnmovedStill ==
  ASSUME Unmoved, waiting' \subseteq waiting
  PROVE  Still
BY DEF Unmoved, Still, disk

\* The run of what is queued can be run.
LEMMA QueuedRuns ==
  ASSUME MemoryAssumption, Small, queue # NoScrub
  PROVE  /\ RunOf(queue) \in Runs /\ RunOf(queue).steps # {}
         /\ "files" \in RunOf(queue).steps => RunOf(queue).steps = Steps
BY FirstIs DEF Small, AskedStands

LEMMA TakeTurnSmall ==
  ASSUME MemoryAssumption, Small, TakeTurn
  PROVE  Small'
<1>1. Types /\ Unmoved /\ waiting' \subseteq waiting
  BY DEF Small, TakeTurn, Unmoved, counts, history
<1>2. CASE Begun("turn", FirstStep(RunOf(queue)), RunOf(queue)) /\ queue # NoScrub
  <2>1. Stands'
    BY <1>2, QueuedRuns, RunStandsToo DEF Kinds
  <2> QED BY <1>1, <1>2, <2>1, UnmovedSmall DEF Begun
<1>3. CASE Begun("turn", "prepare", NoRun)
  <2>1. Stands'
    BY <1>3, NoJobIs, BegunStands DEF Kinds, Pcs
  <2> QED BY <1>1, <1>3, <2>1, UnmovedSmall DEF Begun
<1> QED BY <1>1, <1>2, <1>3, TakeTurnJob

LEMMA CompactNowSmall ==
  ASSUME MemoryAssumption, Small, CompactNow
  PROVE  Small'
<1>1. Types /\ Unmoved /\ waiting' \subseteq waiting
  BY DEF Small, CompactNow, Unmoved, counts, history
<1>2. Begun("compact", "prepare", NoRun)
  BY <1>1, CompactNowJob
<1>3. Stands'
  BY <1>2, NoJobIs, BegunStands DEF Kinds, Pcs
<1> QED BY <1>1, <1>2, <1>3, UnmovedSmall DEF Begun

LEMMA MaintainSmall ==
  ASSUME MemoryAssumption, Small, Maintain
  PROVE  Small'
<1>1. Types /\ Unmoved /\ waiting' \subseteq waiting
  BY DEF Small, Maintain, Unmoved, counts, history
<1>2. Begun("night", FirstStep(RunOf(queue)), RunOf(queue)) /\ queue # NoScrub
  BY <1>1, MaintainJob
<1>3. Stands'
  BY <1>2, QueuedRuns, RunStandsToo DEF Kinds
<1> QED BY <1>1, <1>2, <1>3, UnmovedSmall DEF Begun

LEMMA TakeWaitingSmall ==
  ASSUME MemoryAssumption, Small, TakeWaiting
  PROVE  Small'
<1>1. Types /\ Unmoved /\ AskedStands
  BY DEF Small, TakeWaiting, Unmoved, counts, history
<1>2. PICK run \in waiting :
        /\ waiting' = waiting \ {run}
        /\ \/ run = ResetRun /\ Begun("reset", "reset", NoRun)
           \/ run # ResetRun /\ run \in Runs /\ Begun("forget", FirstStep(run), run)
  BY <1>1, TakeWaitingJob
<1>3. CASE Begun("reset", "reset", NoRun)
  <2>1. Stands'
    BY <1>3, NoJobIs, BegunStands DEF Kinds, Pcs
  <2> QED BY <1>1, <1>2, <1>3, <2>1, UnmovedSmall DEF Begun
<1>4. CASE run # ResetRun /\ run \in Runs /\ Begun("forget", FirstStep(run), run)
  <2>1. run.steps = Steps /\ Steps # {}
    BY <1>1, <1>4 DEF AskedStands, Steps
  <2>2. Stands'
    BY <1>4, <2>1, RunStandsToo DEF Kinds
  <2> QED BY <1>1, <1>2, <1>4, <2>2, UnmovedSmall DEF Begun
<1> QED BY <1>2, <1>3, <1>4

\* A job that prepares runs no scrub and no reset.
LEMMA PreparesAlone ==
  ASSUME MemoryAssumption, Stands, job.pc \in {"prepare", "condensing", "reading", "reset", "idle"}
  PROVE  /\ job.run = NoRun /\ job.left = {}
         /\ job.pc # "reset" => job.kind # "reset"
BY NoJobIs DEF Stands, EpochStands, RunStands, Scrubbing, Starting

LEMMA PrepareSmall ==
  ASSUME MemoryAssumption, Small, Prepare
  PROVE  Small'
<1>1. Types /\ Unmoved /\ Stands /\ waiting' \subseteq waiting
  BY DEF Small, Stands, Prepare, Unmoved, counts, history
<1>2. Still
  BY <1>1, UnmovedStill
<1>3. job.run = NoRun /\ job.kind # "reset" /\ job.pc = "prepare"
  BY <1>1, PrepareJob, PreparesAlone
<1>4. state.pending \in Pending /\ log \in Seq(Facts) /\ Len(log) \in Nat
  BY <1>1 DEF Types, DiskTypes
<1>5. CASE state.pending # "no" /\ EpochBegins(state.summary, <<>>, state.pending, NoSeen)
  <2>1. state.pending \in {"forget", "reset"} /\ ToSet(<<>>) = {} /\ state.summary \subseteq Remembered
    BY <1>4, <1>5, EmptyLog DEF Pending, Remembered
  <2>2. Stands'
    <3>1. state.pending \in FromHerState \cup {"forget", "reset"}
      BY <2>1
    <3>2. state.summary \cup ToSet(<<>>) \subseteq Remembered
      BY <2>1
    <3>3. state.pending # "no" /\ state.pending \notin FromHerState /\ <<>> = <<>>
      BY <2>1 DEF FromHerState
    <3> QED BY <1>1, <1>2, <1>3, <1>5, <3>1, <3>2, <3>3, EpochBeginsStands
  <2> QED BY <1>1, <1>5, <2>2, UnmovedSmall DEF EpochBegins
<1>6. CASE state.pending = "no" /\ job.kind = "turn" /\ Moved("reading")
  <2>1. Stands'
    BY <1>1, <1>2, <1>3, <1>6, MovedStands DEF Pcs, Still
  <2> QED BY <1>1, <1>6, <2>1, UnmovedSmall DEF Moved
<1>7. CASE state.pending = "no" /\ Looks("condensing")
  <2>1. Stands'
    BY <1>1, <1>2, <1>3, <1>7, LooksStands
  <2> QED BY <1>1, <1>7, <2>1, UnmovedSmall DEF Looks
<1>8. CASE state.pending = "no" /\
            EpochBegins(state.summary, KeptOf(SeenNow.turns, Len(SeenNow.turns), state.deleted), "carried", SeenNow)
  <2> DEFINE k == KeptOf(SeenNow.turns, Len(SeenNow.turns), state.deleted)
  <2>1. /\ ToSet(k) \subseteq ToSet(log) \ state.deleted /\ SeenNow.deleted = state.deleted
        /\ "carried" \in FromHerState
    <3>1. SeenNow.turns \in Seq(Facts) /\ Len(SeenNow.turns) \in Nat /\ ToSet(SeenNow.turns) \subseteq ToSet(log)
      BY <1>1, SeenNowIs
    <3> QED BY <1>1, <3>1, KeptIs, SeenNowIs DEF FromHerState
  <2> HIDE DEF k
  <2>2. Stands'
    BY <1>1, <1>2, <1>3, <1>8, <2>1, EpochBeginsStands DEF Remembered, k
  <2> QED BY <1>1, <1>8, <2>2, UnmovedSmall DEF EpochBegins
<1> QED BY <1>1, <1>5, <1>6, <1>7, <1>8, PrepareJob

LEMMA CondensedSmall ==
  ASSUME MemoryAssumption, Small, Condensed
  PROVE  Small'
<1>1. Types /\ Unmoved /\ Stands /\ waiting' \subseteq waiting
  BY DEF Small, Stands, Condensed, Unmoved, counts, history
<1>2. Still
  BY <1>1, UnmovedStill
<1> DEFINE t == Summarised(job.seen, job.seen.deleted)
           k(keep) == KeptOf(job.seen.turns, keep, job.seen.deleted)
<1>3. job.pc = "condensing"
  BY <1>1, CondensedJob
<1>4. PICK keep \in Nat : EpochBegins(t, k(keep), "summary", job.seen)
  BY <1>1, CondensedJob
<1>5. job.run = NoRun /\ job.kind # "reset"
  BY <1>1, <1>3, PreparesAlone
<1>6. job.seen.summary = state.summary /\ job.seen.log = log /\ state.pending = "no"
  BY <1>1, <1>3 DEF Stands, ReadStands, Reading
<1>7. ToSet(k(keep)) \subseteq ToSet(log) \ job.seen.deleted
  <2>1. job.seen.turns \in Seq(Facts) /\ ToSet(job.seen.turns) \subseteq ToSet(log)
    BY <1>1, <1>3, JobTypes DEF Types, Stands, ReadStands
  <2> QED BY <2>1, KeptIs
<1>8. t \subseteq Remembered /\ t \cap job.seen.deleted = {} /\ "summary" \in FromHerState
  BY <1>6 DEF Remembered, Summarised, FromHerState
<1> HIDE DEF t, k
<1>9. Stands'
  BY <1>1, <1>2, <1>4, <1>5, <1>6, <1>7, <1>8, EpochBeginsStands DEF Remembered
<1> QED BY <1>1, <1>4, <1>9, UnmovedSmall DEF EpochBegins

\* A step that ends a job and does no more.
LEMMA EndsSmall ==
  ASSUME MemoryAssumption, Small, Over, Unmoved, waiting' \subseteq waiting
  PROVE  Small'
<1>1. Stands' /\ job' \in Jobs
  BY OverStands DEF Over, Begun
<1> QED BY <1>1, UnmovedSmall

LEMMA CondenseAbortedSmall ==
  ASSUME MemoryAssumption, Small, CondenseAborted
  PROVE  Small'
<1>1. Unmoved /\ waiting' \subseteq waiting /\ Ends
  BY DEF CondenseAborted, Unmoved, counts, history
<1> QED BY <1>1, OverIs, EndsSmall

LEMMA EndTurnSmall ==
  ASSUME MemoryAssumption, Small, EndTurn
  PROVE  Small'
<1>1. Unmoved /\ waiting' \subseteq waiting /\ Ends
  BY DEF EndTurn, Unmoved, counts, history
<1> QED BY <1>1, OverIs, EndsSmall

LEMMA ScrubReadsSmall ==
  ASSUME MemoryAssumption, Small, ScrubReads
  PROVE  Small'
<1>1. Types /\ Unmoved /\ Stands /\ waiting' \subseteq waiting
  BY DEF Small, Stands, ScrubReads, Unmoved, counts, history
<1>2. Still
  BY <1>1, UnmovedStill
<1>3. job.pc = "summary" /\ Looks("writing")
  BY <1>1, ScrubReadsJob
<1>4. job.run.steps # {} /\ job.left = {} /\ "summary" \in job.run.steps /\ job.kind # "reset"
  BY <1>1, <1>3 DEF Stands, RunStands, EpochStands, Starting
<1>5. Stands'
  BY <1>1, <1>2, <1>3, <1>4, LooksStands
<1> QED BY <1>1, <1>3, <1>5, UnmovedSmall DEF Looks

\* Where a scrub goes once its summary is left over.
LEMMA LeftOverStands ==
  ASSUME MemoryAssumption, Small, job.pc \in {"summary", "writing", "revert"}, SummaryWaits
  PROVE  Stands' /\ job' \in Jobs
<1>1. Types /\ Stands /\ job \in Jobs
  BY DEF Small, Stands, Types
<1>2. job.run.steps # {} /\ "summary" \in job.run.steps /\ job.kind # "reset"
  BY <1>1 DEF Stands, RunStands, EpochStands, Scrubbing, Starting
<1>3. LeavesOut({"summary"}, AfterSummary({"summary"}))
  BY <1>1, WaitIs
<1>4. AfterSummary({"summary"}) \in {"notes", "verify", "clear", "epoch"} /\ AfterSummary({"summary"}) # "epoch"
      /\ (AfterSummary({"summary"}) = "notes" => "notes" \in job.run.steps)
  BY DEF AfterSummary
<1>5. {"summary"} \in SUBSET job.run.steps
  BY <1>2
<1> HIDE DEF AfterSummary
<1> QED BY <1>1, <1>2, <1>3, <1>4, <1>5, LeavesOutStands DEF LeavesOut

LEMMA ScrubWithoutModelSmall ==
  ASSUME MemoryAssumption, Small, ScrubWithoutModel
  PROVE  Small'
<1>1. Unmoved /\ waiting' \subseteq waiting /\ job.pc = "summary" /\ SummaryWaits
  BY DEF ScrubWithoutModel, Unmoved, counts, history, At
<1> QED BY <1>1, LeftOverStands, UnmovedSmall

LEMMA ScrubAbortedSmall ==
  ASSUME MemoryAssumption, Small, ScrubAborted
  PROVE  Small'
<1>1. Unmoved /\ waiting' \subseteq waiting /\ job.pc = "writing" /\ SummaryWaits
  BY DEF ScrubAborted, Unmoved, counts, history, At
<1> QED BY <1>1, LeftOverStands, UnmovedSmall

\* A step after which the job stands where it stood.
LEMMA SameSmall ==
  ASSUME MemoryAssumption, Small, Unmoved, waiting' \subseteq waiting,
         AbortTurn \/ job' = [job EXCEPT !.abort = TRUE] \/ job' = job
  PROVE  Small'
<1>1. Stands /\ job \in Jobs /\ Still
  BY UnmovedStill DEF Small, Stands, Types
<1>2. Moved(job.pc) /\ job' \in Jobs
  BY <1>1, AbortIs DEF Moved
<1>3. Stands'
  BY <1>1, <1>2, SameStands
<1> QED BY <1>2, <1>3, UnmovedSmall

LEMMA InterruptSmall ==
  ASSUME MemoryAssumption, Small, Interrupt
  PROVE  Small'
<1>1. Unmoved /\ waiting' \subseteq waiting /\ job' = [job EXCEPT !.abort = TRUE]
  BY DEF Interrupt, Unmoved, counts, history
<1> QED BY <1>1, SameSmall

LEMMA ThrowsSmall ==
  ASSUME MemoryAssumption, Small, Throws
  PROVE  Small'
<1>1. Types /\ Unmoved /\ waiting' \subseteq waiting
  BY DEF Small, Throws, Unmoved, counts, history
<1>2. CASE Over
  BY <1>1, <1>2, EndsSmall
<1>3. CASE Begun("turn", "prepare", NoRun)
  <2>1. Stands'
    BY <1>3, NoJobIs, BegunStands DEF Kinds, Pcs
  <2> QED BY <1>1, <1>3, <2>1, UnmovedSmall DEF Begun
<1> QED BY <1>1, <1>2, <1>3, ThrowsJob

LEMMA CrashSmall ==
  ASSUME MemoryAssumption, Small, Crash
  PROVE  Small'
<1>1. Types /\ Unmoved /\ waiting' \subseteq waiting
  BY DEF Small, Crash, Unmoved, counts, history
<1>2. CASE Over
  BY <1>1, <1>2, EndsSmall
<1>3. CASE queue.source = "owner" /\ Begun("forget", FirstStep(RunOf(queue)), RunOf(queue))
  <2>1. queue # NoScrub
    BY <1>3 DEF NoScrub
  <2>2. Stands'
    BY <1>3, <2>1, QueuedRuns, RunStandsToo DEF Kinds
  <2> QED BY <1>1, <1>3, <2>2, UnmovedSmall DEF Begun
<1> QED BY <1>1, <1>2, <1>3, CrashJob
-----------------------------------------------------------------------------
(* Steps that write *)

StateType == [summary : SUBSET Facts, pending : Pending, read : SUBSET Facts,
              deleted : SUBSET Facts, backoff : BOOLEAN]

\* What a write keeps for the types to stand.
LEMMA WrittenTypes ==
  ASSUME Types, state' \in StateType, state'.read \cup Remembered' \cup notes' \subseteq known',
         log' \in Seq(Facts), next' \in Seq(Facts), old' \subseteq About, notes' \subseteq About,
         queue' \in [source : Requests, steps : SUBSET Steps, at : 0..MaxAsks],
         model' \in {"own", "other", "none"}, HistoryTypes', job' \in Jobs,
         waiting' \subseteq Runs \union {ResetRun}, asks' \in 0..MaxAsks
  PROVE  Types'
BY DEF Types, DiskTypes, StateType

\* What a write that nobody asked anew leaves of it.
LEMMA AskedToo ==
  ASSUME Small, queue' = queue, waiting' \subseteq waiting
  PROVE  AskedStands'
BY DEF Small, AskedStands

LEMMA TypesOf ==
  ASSUME Types
  PROVE  /\ state \in StateType /\ state.summary \in SUBSET Facts /\ state.pending \in Pending
         /\ state.read \in SUBSET Facts /\ state.deleted \in SUBSET Facts /\ state.backoff \in BOOLEAN
         /\ log \in Seq(Facts) /\ next \in Seq(Facts) /\ old \subseteq About /\ notes \subseteq About
         /\ ToSet(log) \subseteq Facts /\ ToSet(next) \subseteq Facts
         /\ state.read \subseteq known /\ Remembered \subseteq known /\ notes \subseteq known
         /\ queue \in [source : Requests, steps : SUBSET Steps, at : 0..MaxAsks]
         /\ model \in {"own", "other", "none"} /\ HistoryTypes /\ job \in Jobs
         /\ waiting \subseteq Runs \union {ResetRun} /\ asks \in 0..MaxAsks
BY LogFacts DEF Types, DiskTypes, StateType

LEMMA AskResetSmall ==
  ASSUME MemoryAssumption, Small, AskReset
  PROVE  Small'
<1>1. Types /\ Stands /\ AbortTurn /\ waiting' = waiting \cup {ResetRun}
      /\ UNCHANGED <<disk, model, counts, history>>
  BY DEF Small, Stands, AskReset
<1>2. Moved(job.pc) /\ job' \in Jobs
  BY <1>1, AbortIs DEF Moved, Types
<1>3. ReadStands' /\ EpochStands' /\ RunStands'
  <2>1. job'.pc = job.pc /\ job'.kind = job.kind /\ job'.run = job.run /\ job'.left = job.left
        /\ job'.text = job.text /\ job'.kept = job.kept /\ job'.cause = job.cause /\ job'.seen = job.seen
    BY <1>2 DEF Moved, Stays
  <2>2. ReadStands'
    BY <1>1, <2>1 DEF Stands, ReadStands, Reading, disk
  <2>3. EpochStands'
    BY <1>1, <2>1 DEF Stands, EpochStands, Remembered, disk
  <2>4. RunStands'
    BY <1>1, <2>1 DEF Stands, RunStands, OfTheRun, SummaryDone
  <2> QED BY <2>2, <2>3, <2>4
<1>4. AskedStands'
  BY <1>1 DEF Small, AskedStands, disk
<1>5. Types'
  BY <1>1, <1>2 DEF Types, DiskTypes, HistoryTypes, Remembered, disk, counts, history
<1> QED BY <1>3, <1>4, <1>5 DEF Small

LEMMA AskSmall ==
  ASSUME MemoryAssumption, Small, NEW source \in Requests, NEW limited \in BOOLEAN, Ask(source, limited)
  PROVE  Small'
<1>1. Types /\ Stands /\ AskedStands
  BY DEF Small, Stands
<1> DEFINE merged == IF Rank[queue.source] > Rank[source] THEN queue.source ELSE source
           run == [at |-> asks + 1, scope |-> Scope(source), steps |-> Steps]
<1>2. /\ asks < MaxAsks /\ asks' = asks + 1
      /\ queue' = [source |-> merged, steps |-> Steps, at |-> asks + 1]
      /\ due' = [r \in DOMAIN due |->
                  IF r = "conversation" \/ source # "conversation" THEN known \cap About ELSE due[r]]
      /\ (waiting' = waiting /\ job' = job) \/ (waiting' = waiting \cup {run} /\ AbortTurn)
      /\ UNCHANGED <<state, log, next, old, notes, model, faults, changes,
                    known, gone, slipped, reset, revived, torn>>
      /\ DOMAIN excused' = DOMAIN due
  BY DEF Ask
<1>3. asks' \in 0..MaxAsks /\ merged \in Requests /\ Steps # {} /\ asks + 1 \in 0..MaxAsks
  BY <1>1, <1>2, TypesOf DEF Steps, MemoryAssumption
<1>4. Moved(job.pc) /\ job' \in Jobs
  BY <1>1, <1>2, AbortIs DEF Moved, Types
<1>5. ReadStands' /\ EpochStands' /\ RunStands'
  <2>1. job'.pc = job.pc /\ job'.kind = job.kind /\ job'.run = job.run /\ job'.left = job.left
        /\ job'.text = job.text /\ job'.kept = job.kept /\ job'.cause = job.cause /\ job'.seen = job.seen
    BY <1>4 DEF Moved, Stays
  <2>2. state' = state /\ log' = log /\ next' = next
    BY <1>2
  <2>3. ReadStands'
    BY <1>1, <2>1, <2>2 DEF Stands, ReadStands, Reading
  <2>4. EpochStands'
    BY <1>1, <2>1, <2>2 DEF Stands, EpochStands, Remembered
  <2>5. RunStands'
    BY <1>1, <2>1 DEF Stands, RunStands, OfTheRun, SummaryDone
  <2> QED BY <2>3, <2>4, <2>5
<1>6. run \in Runs /\ run.steps = Steps
  BY <1>3 DEF Runs, Scope
<1>7. queue' \in [source : Requests, steps : SUBSET Steps, at : 0..MaxAsks] /\ queue'.steps = Steps
  BY <1>2, <1>3
<1> HIDE DEF merged, run
<1>8. AskedStands'
  BY <1>1, <1>2, <1>3, <1>6, <1>7 DEF AskedStands
<1>9. HistoryTypes'
  <2>1. DOMAIN due' = DOMAIN due /\ DOMAIN due = {"conversation", "everything"} /\ DOMAIN excused' = DOMAIN due'
    BY <1>1, <1>2 DEF Types, HistoryTypes
  <2>2. ASSUME NEW r \in DOMAIN due' PROVE due'[r] \subseteq known' \cap About
    BY <1>1, <1>2, <2>1, TypesOf DEF HistoryTypes
  <2> QED BY <1>1, <1>2, <2>1, <2>2 DEF Types, HistoryTypes
<1>10. Types'
  <2>1. state' \in StateType /\ state'.read \cup Remembered' \cup notes' \subseteq known'
    BY <1>1, <1>2, TypesOf DEF Remembered
  <2>2. waiting' \subseteq Runs \union {ResetRun}
    BY <1>1, <1>2, <1>6, TypesOf
  <2> QED BY <1>1, <1>2, <1>3, <1>4, <1>7, <1>9, <2>1, <2>2, TypesOf, WrittenTypes
<1> QED BY <1>5, <1>8, <1>10 DEF Small

LEMMA ModelChangesSmall ==
  ASSUME MemoryAssumption, Small, NEW m \in {"own", "other", "none"}, ModelChanges(m)
  PROVE  Small'
<1>1. UNCHANGED <<disk, job, waiting, asks, faults, history>> /\ model' = m
  BY DEF ModelChanges
<1>2. ReadStands' /\ EpochStands' /\ RunStands' /\ AskedStands'
  BY <1>1 DEF Small, ReadStands, Reading, EpochStands, RunStands, AskedStands, Remembered,
     OfTheRun, SummaryDone, disk
<1>3. Types'
  BY <1>1 DEF Small, Types, DiskTypes, HistoryTypes, Remembered, disk, history
<1> QED BY <1>2, <1>3 DEF Small

\* A write of her backoff alone.
LEMMA BackoffTypes ==
  ASSUME Types, NEW b \in BOOLEAN, state' = [state EXCEPT !.backoff = b],
         UNCHANGED <<log, next, old, notes, queue, model, asks, known, due, excused, gone, slipped, reset>>,
         waiting' \subseteq waiting, job' \in Jobs
  PROVE  Types' /\ Still
<1>1. /\ state' \in StateType /\ state'.summary = state.summary /\ state'.pending = state.pending
      /\ state'.read = state.read /\ state'.deleted = state.deleted
  BY TypesOf DEF StateType
<1>2. HistoryTypes'
  BY TypesOf DEF HistoryTypes
<1>3. state'.read \cup Remembered' \cup notes' \subseteq known'
  BY <1>1, TypesOf DEF Remembered
<1> QED BY <1>1, <1>2, <1>3, TypesOf, WrittenTypes DEF Still

LEMMA BackoffEndsSmall ==
  ASSUME MemoryAssumption, Small, BackoffEnds
  PROVE  Small'
<1>1. Types /\ Stands /\ job \in Jobs
  BY DEF Small, Stands, Types
<1>2. /\ state' = [state EXCEPT !.backoff = FALSE] /\ job' = job /\ waiting' = waiting /\ queue' = queue
      /\ UNCHANGED <<log, next, old, notes, model, asks, known, due, excused, gone, slipped, reset>>
  BY DEF BackoffEnds, counts, history
<1>3. Types' /\ Still
  BY <1>1, <1>2, BackoffTypes
<1>4. Stands'
  BY <1>1, <1>2, <1>3, AbortIs, SameStands
<1> QED BY <1>2, <1>3, <1>4, AskedToo DEF Small, Stands

\* The last turns of what she has read, an epoch that keeps her summary.
LEMMA TruncatedStands ==
  ASSUME MemoryAssumption, Types, Stands, Still, state.pending = "no", job.run = NoRun, job.kind # "reset",
         NEW k, NEW s, ToSet(k) \subseteq ToSet(log) \ s.deleted, EpochBegins(state.summary, k, "truncated", s)
  PROVE  Stands'
<1>1. "truncated" \in FromHerState /\ state.summary \cup ToSet(k) \subseteq Remembered
  BY DEF FromHerState, Remembered
<1> QED BY <1>1, EpochBeginsStands

LEMMA CondenseFailsSmall ==
  ASSUME MemoryAssumption, Small, CondenseFails
  PROVE  Small'
<1>1. Types /\ Stands
  BY DEF Small, Stands
<1>2. /\ state' = [state EXCEPT !.backoff = TRUE] /\ waiting' = waiting /\ queue' = queue
      /\ UNCHANGED <<log, next, old, notes, model, asks, known, due, excused, gone, slipped, reset>>
  BY DEF CondenseFails, history
<1> DEFINE k(keep) == KeptOf(job.seen.turns, keep, job.seen.deleted)
<1>3. job.pc = "condensing"
  BY <1>1, CondenseFailsJob
<1>4. PICK keep \in Nat : EpochBegins(job.seen.summary, k(keep), "truncated", job.seen)
  BY <1>1, CondenseFailsJob
<1>5. job.run = NoRun /\ job.kind # "reset"
  BY <1>1, <1>3, PreparesAlone
<1>6. job.seen.summary = state.summary /\ state.pending = "no"
  BY <1>1, <1>3 DEF Stands, ReadStands, Reading
<1>7. ToSet(k(keep)) \subseteq ToSet(log) \ job.seen.deleted
  <2>1. job.seen.turns \in Seq(Facts) /\ ToSet(job.seen.turns) \subseteq ToSet(log)
    BY <1>1, <1>3, JobTypes DEF Types, Stands, ReadStands
  <2> QED BY <2>1, KeptIs
<1> HIDE DEF k
<1>8. Types' /\ Still
  BY <1>1, <1>2, <1>4, BackoffTypes DEF EpochBegins
<1>9. Stands'
  BY <1>1, <1>4, <1>5, <1>6, <1>7, <1>8, TruncatedStands
<1> QED BY <1>2, <1>8, <1>9, AskedToo DEF Small, Stands

LEMMA MidTurnSmall ==
  ASSUME MemoryAssumption, Small, MidTurnCompaction
  PROVE  Small'
<1>1. Types /\ Unmoved /\ Stands /\ waiting' \subseteq waiting
  BY DEF Small, Stands, MidTurnCompaction, Unmoved, history
<1>2. Still
  BY <1>1, UnmovedStill
<1>3. job.pc = "reading"
  BY <1>1, MidTurnJob
<1>4. job.run = NoRun /\ job.kind # "reset" /\ state.pending = "no"
  BY <1>1, <1>3, PreparesAlone DEF Stands, ReadStands
<1>5. CASE Looks("condensing")
  <2>1. Stands'
    BY <1>1, <1>2, <1>4, <1>5, LooksStands
  <2> QED BY <1>1, <1>5, <2>1, UnmovedSmall DEF Looks
<1>6. CASE \E k \in Seq(Facts) : /\ ToSet(k) \subseteq ToSet(log) \ state.deleted
                               /\ EpochBegins(state.summary, k, "truncated", SeenNow)
  <2>1. PICK k \in Seq(Facts) : /\ ToSet(k) \subseteq ToSet(log) \ state.deleted
                               /\ EpochBegins(state.summary, k, "truncated", SeenNow)
    BY <1>6
  <2>2. SeenNow.deleted = state.deleted
    BY <1>1, SeenNowIs
  <2>3. Stands'
    BY <1>1, <1>2, <1>4, <2>1, <2>2, TruncatedStands
  <2> QED BY <1>1, <2>1, <2>3, UnmovedSmall DEF EpochBegins
<1> QED BY <1>1, <1>5, <1>6, MidTurnJob

LEMMA RestsSmall ==
  ASSUME MemoryAssumption, Small, Rests
  PROVE  Small'
<1>1. Types /\ Unmoved /\ Stands /\ waiting' \subseteq waiting
  BY DEF Small, Stands, Rests, Unmoved, counts, history
<1>2. Still
  BY <1>1, UnmovedStill
<1>3. job.pc = "reading" /\ EpochBegins(Remembered, <<>>, "rest", SeenNow)
  BY <1>1, RestsJob
<1>4. job.run = NoRun /\ job.kind # "reset" /\ state.pending = "no"
  BY <1>1, <1>3, PreparesAlone DEF Stands, ReadStands
<1>5. ToSet(<<>>) = {} /\ "rest" \in FromHerState
  BY EmptyLog DEF FromHerState
<1>6. Stands'
  BY <1>1, <1>2, <1>3, <1>4, <1>5, EpochBeginsStands
<1> QED BY <1>1, <1>3, <1>6, UnmovedSmall DEF EpochBegins

LEMMA EpochLogSmall ==
  ASSUME MemoryAssumption, Small, EpochLog
  PROVE  Small'
<1>1. Types /\ Stands
  BY DEF Small, Stands
<1>2. /\ next' = job.kept /\ waiting' = waiting /\ queue' = queue
      /\ UNCHANGED <<state, log, old, notes, model, asks, known, due, excused, gone, slipped, reset>>
  BY DEF EpochLog, counts, history
<1>3. job.pc = "log" /\ Moved("state")
  BY <1>1, EpochLogJob
<1>4. Types'
  <2>1. job' \in Jobs /\ job.kept \in Seq(Facts) /\ HistoryTypes'
    BY <1>1, <1>2, <1>3, TypesOf, JobTypes DEF Moved, HistoryTypes
  <2>2. state'.read \cup Remembered' \cup notes' \subseteq known'
    BY <1>1, <1>2, TypesOf DEF Remembered
  <2> QED BY <1>1, <1>2, <2>1, <2>2, TypesOf, WrittenTypes
<1>5. job'.pc = "state" /\ job'.kind = job.kind /\ job'.run = job.run /\ job'.left = job.left
      /\ job'.text = job.text /\ job'.kept = job.kept /\ job'.cause = job.cause /\ job'.seen = job.seen
  BY <1>3 DEF Moved, Stays
<1>6. ReadStands'
  BY <1>5 DEF ReadStands, Reading
<1>7. EpochStands'
  BY <1>1, <1>2, <1>3, <1>5 DEF Stands, EpochStands, Starting, Remembered
<1>8. RunStands'
  BY <1>1, <1>3, <1>5 DEF Stands, RunStands, Starting, Scrubbing, OfTheRun, SummaryDone
<1> QED BY <1>2, <1>4, <1>6, <1>7, <1>8, AskedToo DEF Small

LEMMA EpochStateSmall ==
  ASSUME MemoryAssumption, Small, EpochState
  PROVE  Small'
<1>1. Types /\ Stands
  BY DEF Small, Stands
<1>2. /\ state' = [state EXCEPT !.summary = job.text, !.pending = "no", !.read = ToSet(job.kept), !.deleted = {}]
      /\ old' = old \cup (ToSet(log) \cap About) /\ log' = next /\ next' = <<>>
      /\ slipped' = slipped \cup Unlisted(state)
      /\ reset' = IF job.kind = "reset" THEN known ELSE reset
      /\ UNCHANGED <<notes, queue, waiting, model, counts, known, due, excused, gone>>
  BY DEF EpochState
<1>3. job.pc = "state" /\ job' \in Jobs /\ Stays /\ job'.pc = "prune" /\ job'.left = job.left /\ job'.cause = job.cause
  BY <1>1, EpochStateJob
<1>4. job.text \cup ToSet(job.kept) \subseteq Remembered /\ next = job.kept
  BY <1>1, <1>3 DEF Stands, EpochStands, Starting
<1>5. /\ state' \in StateType /\ state'.summary = job.text /\ state'.pending = "no"
      /\ state'.read = ToSet(job.kept) /\ state'.deleted = {}
  BY <1>1, <1>2, FactsOf, TypesOf, JobTypes DEF StateType, Pending
<1>6. Types'
  <2>1. Unlisted(state) \subseteq Facts
    BY <1>1, TypesOf DEF Unlisted
  <2>2. HistoryTypes'
    BY <1>1, <1>2, <2>1, TypesOf DEF HistoryTypes
  <2>3. state'.read \cup Remembered' \cup notes' \subseteq known'
    BY <1>1, <1>2, <1>4, <1>5, TypesOf DEF Remembered
  <2>4. old' \subseteq About
    BY <1>1, <1>2, TypesOf
  <2> QED BY <1>1, <1>2, <1>3, <1>5, <2>2, <2>3, <2>4, EmptyLog, TypesOf, WrittenTypes DEF counts
<1>7. ReadStands'
  BY <1>3, <1>5 DEF ReadStands, Reading
<1>8. EpochStands'
  BY <1>1, <1>2, <1>3 DEF Stands, EpochStands, Starting, Stays
<1>9. RunStands'
  BY <1>1, <1>3 DEF Stands, RunStands, Starting, Scrubbing, OfTheRun, SummaryDone, Stays
<1> QED BY <1>2, <1>6, <1>7, <1>8, <1>9, AskedToo DEF Small

\* A step that only drops old logs or notes.
LEMMA DroppedTypes ==
  ASSUME Types, UNCHANGED <<state, log, next, queue, waiting, model, asks, known, due, excused, gone, slipped, reset>>,
         old' \subseteq old, notes' \subseteq notes, job' \in Jobs
  PROVE  Types' /\ Still
<1>1. HistoryTypes'
  BY TypesOf DEF HistoryTypes
<1>2. state'.read \cup Remembered' \cup notes' \subseteq known'
  BY TypesOf DEF Remembered
<1> QED BY <1>1, <1>2, TypesOf, WrittenTypes DEF Still

LEMMA EpochPruneSmall ==
  ASSUME MemoryAssumption, Small, EpochPrune
  PROVE  Small'
<1>1. Types /\ Stands
  BY DEF Small, Stands
<1>2. /\ UNCHANGED <<state, log, next, queue, waiting, model, asks, known, due, excused, gone, slipped, reset, notes>>
      /\ old' \subseteq old /\ job.pc = "prune" /\ GoesOn
  BY DEF EpochPrune, counts, history, At
<1>3. state'.pending = "no"
  BY <1>1, <1>2 DEF Stands, ReadStands
<1>4. job' \in Jobs /\ Stands'
  <2>1. CASE job.run # NoRun /\ Moved("clear")
    <3>1. job.run.steps # {} /\ job.kind # "reset"
      BY <1>1, <2>1 DEF Stands, RunStands, EpochStands
    <3> QED BY <1>1, <2>1, <3>1, MovedStands DEF Pcs, Moved
  <2>2. CASE Over
    BY <2>2, OverStands DEF Over, Begun
  <2> QED BY <1>1, <1>2, <2>1, <2>2, GoesOnJob
<1>5. Types' /\ AskedStands'
  BY <1>1, <1>2, <1>4, DroppedTypes, AskedToo
<1> QED BY <1>4, <1>5 DEF Small, Stands

LEMMA ScrubNotesSmall ==
  ASSUME MemoryAssumption, Small, ScrubNotes
  PROVE  Small'
<1>1. Types /\ Stands
  BY DEF Small, Stands
<1>2. UNCHANGED <<state, log, next, old, queue, waiting, model, asks, known, due, excused, gone, slipped, reset>>
  BY DEF ScrubNotes, history
<1>3. job.pc = "notes"
  BY <1>1, ScrubNotesJob
<1>4. job.run.steps # {} /\ job.kind # "reset" /\ job.left \subseteq job.run.steps
  BY <1>1, <1>3 DEF Stands, RunStands, EpochStands, Scrubbing, Starting
<1>5. CASE Moved("verify") /\ notes' = notes \ About
  <2>1. Stands' /\ job' \in Jobs
    BY <1>1, <1>4, <1>5, MovedStands DEF Pcs, Moved
  <2>2. Types' /\ AskedStands'
    BY <1>1, <1>2, <1>5, <2>1, DroppedTypes, AskedToo
  <2> QED BY <2>1, <2>2 DEF Small, Stands
<1>6. CASE notes' = notes /\
           LeavesOut(job.left \cup {"notes"},
                     IF "files" \in job.run.steps \/ SummaryDone(job.left) THEN "verify" ELSE "clear")
  <2>1. "notes" \in job.run.steps
    BY <1>1, <1>3 DEF Stands, RunStands
  <2>2. Stands' /\ job' \in Jobs
    BY <1>1, <1>4, <1>6, <2>1, LeavesOutStands DEF LeavesOut
  <2>3. Types' /\ AskedStands'
    BY <1>1, <1>2, <1>6, <2>2, DroppedTypes, AskedToo
  <2> QED BY <2>2, <2>3 DEF Small, Stands
<1> QED BY <1>1, <1>5, <1>6, ScrubNotesJob

LEMMA VerifySmall ==
  ASSUME MemoryAssumption, Small, Verify
  PROVE  Small'
<1>1. Types /\ Stands
  BY DEF Small, Stands
<1>2. /\ UNCHANGED <<state, log, next, old, queue, waiting, model, asks, known, due, excused, gone, slipped, reset>>
      /\ notes' \subseteq notes
  BY DEF Verify, counts, history
<1>3. job.pc = "verify" /\ Moved(IF SummaryDone(job.left) THEN "epoch" ELSE "clear")
  BY <1>1, VerifyJob
<1>4. job.run.steps # {} /\ job.kind # "reset"
  BY <1>1, <1>3 DEF Stands, RunStands, EpochStands, Scrubbing, Starting
<1>5. Stands' /\ job' \in Jobs
  BY <1>1, <1>3, <1>4, MovedStands DEF Pcs, Moved, OfTheRun
<1>6. Types' /\ AskedStands'
  BY <1>1, <1>2, <1>5, DroppedTypes, AskedToo
<1> QED BY <1>5, <1>6 DEF Small, Stands
\* A write of her summary and the epoch it leaves to start.
LEMMA SummaryTypes ==
  ASSUME Types, state' \in StateType, state'.read = state.read, state'.summary \subseteq Remembered,
         UNCHANGED <<log, next, old, notes, queue, waiting, model, asks, known, due, excused, gone, slipped>>,
         reset' \subseteq known, job' \in Jobs
  PROVE  Types'
<1>1. HistoryTypes'
  BY TypesOf DEF HistoryTypes
<1>2. state'.read \cup Remembered' \cup notes' \subseteq known'
  BY TypesOf DEF Remembered
<1> QED BY <1>1, <1>2, TypesOf, WrittenTypes

LEMMA ScrubbedSmall ==
  ASSUME MemoryAssumption, Small, Scrubbed
  PROVE  Small'
<1>1. Types /\ Stands
  BY DEF Small, Stands
<1>2. /\ state' = [state EXCEPT !.summary = Summarised(job.seen, About), !.pending = "forget"]
      /\ UNCHANGED <<log, next, old, notes, queue, waiting, model, asks, known, due, excused, gone, slipped, reset>>
  BY DEF Scrubbed, counts
<1>3. job.pc = "writing" /\ LeavesOut(job.left, AfterSummary({}))
  BY <1>1, ScrubbedJob
<1>4. job.seen.summary = state.summary /\ job.seen.log = log
  BY <1>1, <1>3 DEF Stands, ReadStands, Reading
<1>5. Summarised(job.seen, About) \subseteq Remembered /\ Summarised(job.seen, About) \subseteq Facts
  BY <1>1, <1>4, FactsOf DEF Summarised, Remembered
<1>6. state' \in StateType /\ state'.read = state.read /\ state'.summary \subseteq Remembered
  BY <1>1, <1>2, <1>5, TypesOf DEF StateType, Pending
<1>7. Types' /\ AskedStands'
  <2>1. reset' \subseteq known
    BY <1>1, <1>2 DEF Types, HistoryTypes
  <2> QED BY <1>1, <1>2, <1>3, <1>6, <2>1, SummaryTypes, AskedToo DEF LeavesOut
<1>8. Stands'
  <2>1. job.run.steps # {} /\ "summary" \in job.run.steps /\ job.kind # "reset" /\ job.left = {}
    BY <1>1, <1>3 DEF Stands, RunStands, EpochStands, Scrubbing, Starting
  <2>2. AfterSummary({}) \in {"notes", "verify", "epoch"} /\ (AfterSummary({}) = "notes" => "notes" \in job.run.steps)
    BY DEF AfterSummary
  <2>3. SummaryDone({}) /\ {} \in SUBSET job.run.steps
    BY <2>1 DEF SummaryDone
  <2> HIDE DEF AfterSummary
  <2> QED BY <1>1, <1>3, <2>1, <2>2, <2>3, LeavesOutStands
<1> QED BY <1>7, <1>8 DEF Small, Stands

\* A scrub that goes on from a failed summary.
LEMMA FailedStands ==
  ASSUME Stands, NEW p \in {"failing", "revert"}, Moved(p), job.pc \in {"writing", "failing"},
         state'.summary = state.summary, log' = log,
         p = "failing" => state'.pending = state.pending,
         p = "revert" => state'.pending = "forget"
  PROVE  Stands'
<1>1. job'.pc = p /\ job'.kind = job.kind /\ job'.run = job.run /\ job'.left = job.left /\ job'.seen = job.seen
  BY DEF Moved, Stays
<1>2. ReadStands'
  BY <1>1 DEF Stands, ReadStands, Reading
<1>3. EpochStands'
  BY <1>1 DEF Stands, EpochStands, Starting
<1>4. RunStands'
  BY <1>1 DEF Stands, RunStands, Starting, Scrubbing, OfTheRun, SummaryDone
<1> QED BY <1>2, <1>3, <1>4 DEF Stands

LEMMA ScrubFailsSmall ==
  ASSUME MemoryAssumption, Small, ScrubFails
  PROVE  Small'
<1>1. Types /\ Stands
  BY DEF Small, Stands
<1>2. /\ state' = [state EXCEPT !.backoff = TRUE]
      /\ UNCHANGED <<log, next, old, notes, queue, waiting, model, asks, known, due, excused, gone, slipped, reset>>
  BY DEF ScrubFails, history
<1>3. job.pc = "writing" /\ Moved("failing")
  BY <1>1, ScrubFailsJob
<1>4. Types' /\ Still
  BY <1>1, <1>2, <1>3, BackoffTypes DEF Moved
<1>5. Stands'
  BY <1>1, <1>3, <1>4, FailedStands DEF Still
<1> QED BY <1>2, <1>4, <1>5, AskedToo DEF Small, Stands

LEMMA EpochLeftSmall ==
  ASSUME MemoryAssumption, Small, EpochLeft
  PROVE  Small'
<1>1. Types /\ Stands
  BY DEF Small, Stands
<1>2. /\ state' = [state EXCEPT !.pending = "forget"]
      /\ UNCHANGED <<log, next, old, notes, queue, waiting, model, asks, known, due, excused, gone, slipped, reset>>
  BY DEF EpochLeft, counts, history
<1>3. job.pc = "failing" /\ Moved("revert")
  BY <1>1, EpochLeftJob
<1>4. state' \in StateType /\ state'.read = state.read /\ state'.summary = state.summary /\ state'.pending = "forget"
  BY <1>1, <1>2, TypesOf DEF StateType, Pending
<1>5. Types' /\ AskedStands'
  <2>1. reset' \subseteq known /\ state.summary \subseteq Remembered
    BY <1>1, <1>2 DEF Types, HistoryTypes, Remembered
  <2> QED BY <1>1, <1>2, <1>3, <1>4, <2>1, SummaryTypes, AskedToo DEF Moved
<1>6. Stands'
  BY <1>1, <1>2, <1>3, <1>4, FailedStands
<1> QED BY <1>5, <1>6 DEF Small, Stands

LEMMA TakeBackSmall ==
  ASSUME MemoryAssumption, Small, TakeBack
  PROVE  Small'
<1>1. Types /\ Stands
  BY DEF Small, Stands
<1>2. /\ state' = [state EXCEPT !.summary = job.seen.summary, !.pending = job.seen.pending]
      /\ UNCHANGED <<log, next, old, notes, queue, waiting, model, asks, known, due, excused, gone, slipped, reset>>
      /\ job.pc = "revert" /\ SummaryWaits
  BY DEF TakeBack, counts, history, At
<1>3. Stands' /\ job' \in Jobs
  BY <1>2, LeftOverStands
<1>4. job.seen.summary = state.summary /\ job.seen.pending \in Pending
  BY <1>1, <1>2, TypesOf, JobTypes DEF Stands, ReadStands, Reading
<1>5. state' \in StateType /\ state'.read = state.read /\ state'.summary = state.summary
  BY <1>1, <1>2, <1>4, TypesOf DEF StateType
<1>6. reset' \subseteq known /\ state.summary \subseteq Remembered
  BY <1>1, <1>2 DEF Types, HistoryTypes, Remembered
<1>7. Types' /\ AskedStands'
  BY <1>1, <1>2, <1>3, <1>5, <1>6, SummaryTypes, AskedToo
<1> QED BY <1>3, <1>7 DEF Small, Stands

LEMMA StartEpochNowSmall ==
  ASSUME MemoryAssumption, Small, StartEpochNow
  PROVE  Small'
<1>1. Types /\ Stands
  BY DEF Small, Stands
<1>2. UNCHANGED <<log, next, old, notes, queue, waiting, model, asks, known, due, excused, gone, slipped, reset>>
  BY DEF StartEpochNow, counts, history
<1>3. job.pc = "epoch"
  BY <1>1, StartEpochNowJob
<1>4. job.run.steps # {} /\ OfTheRun /\ job.kind # "reset"
  BY <1>1, <1>3 DEF Stands, RunStands, EpochStands, Scrubbing, Starting
<1>5. CASE EpochBegins(state.summary, <<>>, "forget", NoSeen) /\ state' = state
  <2>1. job' \in Jobs /\ Still
    BY <1>2, <1>5 DEF EpochBegins, Still
  <2>2. state.summary \cup ToSet(<<>>) \subseteq Remembered
    BY EmptyLog DEF Remembered
  <2>3. Stands'
    BY <1>1, <1>4, <1>5, <2>1, <2>2, EpochBeginsStands DEF FromHerState
  <2>4. Types' /\ AskedStands'
    BY <1>1, <1>2, <1>5, <2>1, DroppedTypes, AskedToo
  <2> QED BY <2>3, <2>4 DEF Small, Stands
<1>6. CASE Moved("drop") /\ state' = [state EXCEPT !.pending = "forget"]
  <2>1. Stands' /\ job' \in Jobs
    BY <1>1, <1>4, <1>6, MovedStands DEF Pcs, Moved
  <2>2. state' \in StateType /\ state'.read = state.read /\ state'.summary = state.summary
    BY <1>1, <1>6, TypesOf DEF StateType, Pending
  <2>3. reset' \subseteq known /\ state.summary \subseteq Remembered
    BY <1>1, <1>2 DEF Types, HistoryTypes, Remembered
  <2>4. Types' /\ AskedStands'
    BY <1>1, <1>2, <2>1, <2>2, <2>3, SummaryTypes, AskedToo
  <2> QED BY <2>1, <2>4 DEF Small, Stands
<1> QED BY <1>1, <1>5, <1>6, StartEpochNowJob

LEMMA DropLogsSmall ==
  ASSUME MemoryAssumption, Small, DropLogs
  PROVE  Small'
<1>1. Types /\ Stands
  BY DEF Small, Stands
<1>2. /\ UNCHANGED <<state, notes, queue, waiting, model, asks, known, due, excused, gone, slipped, reset>>
      /\ \/ log' = <<>> /\ next' = <<>> /\ old' = {}
         \/ UNCHANGED <<log, next, old>>
  BY DEF DropLogs, counts, history
<1>3. job.pc = "drop" /\ Moved("clear")
  BY <1>1, DropLogsJob
<1>4. Stands' /\ job' \in Jobs
  <2>1. job.run.steps # {} /\ job.kind # "reset"
    BY <1>1, <1>3 DEF Stands, RunStands, EpochStands, Scrubbing, Starting
  <2> QED BY <1>1, <1>3, <2>1, MovedStands DEF Pcs, Moved
<1>5. Types'
  <2>1. log' \in Seq(Facts) /\ next' \in Seq(Facts) /\ ToSet(log') \subseteq ToSet(log) /\ old' \subseteq old
    BY <1>1, <1>2, TypesOf, EmptyLog
  <2>2. state'.read \cup Remembered' \cup notes' \subseteq known'
    BY <1>1, <1>2, <2>1, TypesOf DEF Remembered
  <2>3. HistoryTypes'
    BY <1>1, <1>2, TypesOf DEF HistoryTypes
  <2> QED BY <1>1, <1>2, <1>4, <2>1, <2>2, <2>3, TypesOf, WrittenTypes
<1> QED BY <1>2, <1>4, <1>5, AskedToo DEF Small, Stands

LEMMA ClearSmall ==
  ASSUME MemoryAssumption, Small, Clear
  PROVE  Small'
<1>1. Types /\ Stands /\ AskedStands
  BY DEF Small, Stands
<1>2. /\ UNCHANGED <<state, log, next, old, notes, waiting, model, asks, known, due, excused, gone, slipped, reset>>
      /\ \/ queue' = queue
         \/ queue' = NoScrub
         \/ job.left # {} /\ queue' = [queue EXCEPT !.steps = job.left]
  BY DEF Clear, counts, history
<1>3. Stands' /\ job' \in Jobs
  <2>1. CASE Over
    BY <2>1, OverStands DEF Over, Begun
  <2>2. CASE Begun("turn", "prepare", NoRun)
    BY <2>2, NoJobIs, BegunStands DEF Kinds, Pcs, Begun
  <2> QED BY <1>1, <2>1, <2>2, ClearJob
<1>4. /\ queue' \in [source : Requests, steps : SUBSET Steps, at : 0..MaxAsks]
      /\ queue' # NoScrub => queue'.steps # {}
      /\ "files" \in queue'.steps => queue'.steps = Steps
  <2>1. job.left \subseteq ModelSteps /\ queue \in [source : Requests, steps : SUBSET Steps, at : 0..MaxAsks]
    BY <1>1, TypesOf, JobTypes
  <2>2. CASE queue' = queue
    BY <1>1, <2>1, <2>2 DEF AskedStands
  <2>3. CASE queue' = NoScrub
    BY <2>3 DEF NoScrub, Requests, MemoryAssumption
  <2>4. CASE job.left # {} /\ queue' = [queue EXCEPT !.steps = job.left]
    <3>1. queue' \in [source : Requests, steps : SUBSET Steps, at : 0..MaxAsks] /\ queue'.steps = job.left
      BY <2>1, <2>4 DEF ModelSteps, Steps
    <3> QED BY <2>1, <2>4, <3>1 DEF ModelSteps
  <2> QED BY <1>2, <2>2, <2>3, <2>4
<1>5. AskedStands'
  BY <1>1, <1>2, <1>4 DEF AskedStands
<1>6. Types'
  <2>1. HistoryTypes'
    BY <1>1, <1>2, TypesOf DEF HistoryTypes
  <2>2. state'.read \cup Remembered' \cup notes' \subseteq known'
    BY <1>1, <1>2, TypesOf DEF Remembered
  <2> QED BY <1>1, <1>2, <1>3, <1>4, <2>1, <2>2, TypesOf, WrittenTypes
<1> QED BY <1>3, <1>5, <1>6 DEF Small, Stands

LEMMA ResetSmall ==
  ASSUME MemoryAssumption, Small, Reset
  PROVE  Small'
<1>1. Types /\ Stands
  BY DEF Small, Stands
<1>2. UNCHANGED <<log, next, old, notes, queue, waiting, model, asks, known, due, excused, gone, slipped>>
  BY DEF Reset, counts
<1>3. job.pc = "reset"
  BY <1>1, ResetJob
<1>4. CASE EpochBegins({}, <<>>, "reset", NoSeen) /\ state' = state /\ reset' = reset
  <2>1. job' \in Jobs /\ Still
    BY <1>2, <1>4 DEF EpochBegins, Still
  <2>2. {} \cup ToSet(<<>>) \subseteq Remembered
    BY EmptyLog
  <2>3. Stands'
    BY <1>1, <1>3, <1>4, <2>1, <2>2, PreparesAlone, EpochBeginsStands DEF FromHerState
  <2>4. Types' /\ AskedStands'
    BY <1>1, <1>2, <1>4, <2>1, DroppedTypes, AskedToo
  <2> QED BY <2>3, <2>4 DEF Small, Stands
<1>5. CASE Over /\ state' = [state EXCEPT !.summary = {}, !.pending = "reset"] /\ reset' = known
  <2>1. Stands' /\ job' \in Jobs
    BY <1>5, OverStands DEF Over, Begun
  <2>2. state' \in StateType /\ state'.read = state.read /\ state'.summary = {}
    BY <1>1, <1>5, TypesOf DEF StateType, Pending
  <2>3. Types' /\ AskedStands'
    BY <1>1, <1>2, <1>5, <2>1, <2>2, SummaryTypes, AskedToo
  <2> QED BY <2>1, <2>3 DEF Small, Stands
<1> QED BY <1>1, <1>4, <1>5, ResetJob

-----------------------------------------------------------------------------
(* A turn reads and writes, and messages are deleted *)

\* The job stands through what does not touch it, while she reads.
LEMMA ReadingStands ==
  ASSUME Stands, job.pc = "reading", job' = job, state'.pending = state.pending
  PROVE  Stands'
<1>1. ReadStands'
  BY DEF Stands, ReadStands, Reading
<1>2. EpochStands'
  BY DEF Stands, EpochStands, Starting
<1>3. RunStands'
  BY DEF Stands, RunStands, OfTheRun, SummaryDone
<1> QED BY <1>1, <1>2, <1>3 DEF Stands

LEMMA ReadSmall ==
  ASSUME MemoryAssumption, Small, NEW f \in Facts, Read(f)
  PROVE  Small'
<1>1. Types /\ Stands
  BY DEF Small, Stands
<1>2. /\ job.pc = "reading" /\ known' = known \cup {f} /\ log' = Append(log, f)
      /\ state' = [state EXCEPT !.read = @ \cup {f}]
      /\ UNCHANGED <<next, old, notes, queue, job, waiting, model, counts, due, excused, gone, slipped, reset>>
  BY DEF Read, At
<1>3. /\ state' \in StateType /\ state'.read = state.read \cup {f} /\ state'.pending = state.pending
      /\ state'.summary = state.summary
  BY <1>1, <1>2, TypesOf DEF StateType
<1>4. log' \in Seq(Facts) /\ ToSet(log') = ToSet(log) \cup {f}
  BY <1>1, <1>2, LogAppend, TypesOf
<1>5. HistoryTypes'
  BY <1>1, <1>2, TypesOf DEF HistoryTypes
<1>6. state'.read \cup Remembered' \cup notes' \subseteq known'
  BY <1>1, <1>2, <1>3, <1>4, TypesOf DEF Remembered
<1>7. Types'
  BY <1>1, <1>2, <1>3, <1>4, <1>5, <1>6, TypesOf, WrittenTypes DEF counts
<1>8. Stands'
  BY <1>1, <1>2, <1>3, ReadingStands
<1> QED BY <1>2, <1>7, <1>8, AskedToo DEF Small, Stands

LEMMA NoteDownSmall ==
  ASSUME MemoryAssumption, Small, NEW f \in Facts, NoteDown(f)
  PROVE  Small'
<1>1. Types /\ Stands
  BY DEF Small, Stands
<1>2. /\ job.pc = "reading" /\ notes' = notes \cup {f} /\ f \in Remembered \cap About
      /\ UNCHANGED <<state, log, next, old, queue, job, waiting, model, asks, known, due, gone, slipped, reset>>
      /\ DOMAIN excused' = DOMAIN excused
  BY DEF NoteDown, At, counts
<1>3. HistoryTypes'
  BY <1>1, <1>2, TypesOf DEF HistoryTypes
<1>4. state'.read \cup Remembered' \cup notes' \subseteq known' /\ notes' \subseteq About
  BY <1>1, <1>2, TypesOf DEF Remembered
<1>5. Types'
  BY <1>1, <1>2, <1>3, <1>4, TypesOf, WrittenTypes
<1>6. Stands'
  BY <1>1, <1>2, ReadingStands
<1> QED BY <1>2, <1>5, <1>6, AskedToo DEF Small, Stands

LEMMA ReadNoteSmall ==
  ASSUME MemoryAssumption, Small, NEW f \in Facts, ReadNote(f)
  PROVE  Small'
<1>1. Types /\ Stands
  BY DEF Small, Stands
<1>2. /\ job.pc = "reading" /\ f \in notes /\ log' = Append(log, f)
      /\ reset' = reset \ {f} /\ gone' = gone \ {f}
      /\ due' = IF queue = NoScrub THEN [due EXCEPT !["conversation"] = @ \ {f}] ELSE due
      /\ UNCHANGED <<state, next, old, notes, queue, job, waiting, model, counts, known, slipped>>
      /\ DOMAIN excused' \in {DOMAIN excused, DOMAIN due}
  BY DEF ReadNote, At
<1>3. log' \in Seq(Facts) /\ ToSet(log') = ToSet(log) \cup {f}
  BY <1>1, <1>2, LogAppend, TypesOf
<1>4. HistoryTypes'
  <2>1. /\ DOMAIN due' = {"conversation", "everything"} /\ DOMAIN excused' = DOMAIN due'
        /\ \A r \in DOMAIN due' : due'[r] \subseteq known \cap About
    BY <1>1, <1>2, TypesOf DEF HistoryTypes
  <2> QED BY <1>1, <1>2, <2>1, TypesOf DEF HistoryTypes
<1>5. state'.read \cup Remembered' \cup notes' \subseteq known'
  BY <1>1, <1>2, <1>3, TypesOf DEF Remembered
<1>6. Types'
  BY <1>1, <1>2, <1>3, <1>4, <1>5, TypesOf, WrittenTypes DEF counts
<1>7. Stands'
  BY <1>1, <1>2, ReadingStands
<1> QED BY <1>2, <1>6, <1>7, AskedToo DEF Small, Stands

LEMMA DeletedSmall ==
  ASSUME MemoryAssumption, Small, NEW f \in Facts, Deleted(f)
  PROVE  Small'
<1>1. Types /\ Stands
  BY DEF Small, Stands
<1>2. /\ f \in state.read /\ state' = [state EXCEPT !.deleted = @ \cup {f}] /\ gone' = gone \cup {f}
      /\ UNCHANGED <<log, next, old, notes, queue, job, waiting, model, counts, known, due, excused, slipped, reset>>
  BY DEF Deleted
<1>3. /\ state' \in StateType /\ state'.read = state.read /\ state'.pending = state.pending
      /\ state'.summary = state.summary /\ state'.deleted = state.deleted \cup {f}
  BY <1>1, <1>2, TypesOf DEF StateType
<1>4. HistoryTypes'
  BY <1>1, <1>2, TypesOf DEF HistoryTypes
<1>5. state'.read \cup Remembered' \cup notes' \subseteq known'
  BY <1>1, <1>2, <1>3, TypesOf DEF Remembered
<1>6. Types'
  BY <1>1, <1>2, <1>3, <1>4, <1>5, TypesOf, WrittenTypes DEF counts
<1>7. ReadStands'
  BY <1>1, <1>2, <1>3 DEF Stands, ReadStands, Reading
<1>8. EpochStands'
  BY <1>1, <1>2, <1>3 DEF Stands, EpochStands, Remembered
<1>9. RunStands'
  BY <1>1, <1>2 DEF Stands, RunStands, OfTheRun, SummaryDone
<1> QED BY <1>2, <1>6, <1>7, <1>8, <1>9, AskedToo DEF Small

-----------------------------------------------------------------------------
(* What is small stands *)

LEMMA InitSmall ==
  ASSUME MemoryAssumption, Init
  PROVE  Small
<1>1. job = NoJob /\ job \in Jobs /\ job.pc = "idle" /\ job.kind = "none" /\ job.run = NoRun
      /\ job.left = {} /\ NoRun.steps = {}
  BY NoJobIs DEF Init
<1>2. queue \in [source : Requests, steps : SUBSET Steps, at : 0..MaxAsks]
      /\ (queue # NoScrub => queue.steps = {"summary"}) /\ (queue = NoScrub => queue.steps = {})
  BY DEF Init, LeftOver, NoScrub, Requests, Steps, MemoryAssumption
<1>3. Types
  BY <1>1, <1>2, EmptyLog DEF Init, Types, DiskTypes, HistoryTypes, Pending, Remembered,
     MemoryAssumption
<1>4. ReadStands /\ EpochStands
  BY <1>1 DEF ReadStands, Reading, EpochStands, Starting
<1>5. RunStands
  BY <1>1 DEF RunStands, Scrubbing, Starting
<1>6. AskedStands
  BY <1>2 DEF AskedStands, Init
<1> QED BY <1>3, <1>4, <1>5, <1>6 DEF Small

LEMMA SmallStutters ==
  ASSUME Small, UNCHANGED vars
  PROVE  Small'
<1>1. UNCHANGED <<disk, job, waiting, model, counts, history>>
  BY DEF vars
<1>2. ReadStands' /\ EpochStands' /\ RunStands' /\ AskedStands'
  BY <1>1 DEF Small, ReadStands, Reading, EpochStands, RunStands, AskedStands, Remembered,
     OfTheRun, SummaryDone, disk
<1>3. Types'
  BY <1>1 DEF Small, Types, DiskTypes, HistoryTypes, Remembered, disk, counts, history
<1> QED BY <1>2, <1>3 DEF Small

LEMMA NextSmall ==
  ASSUME MemoryAssumption, Small, [Next]_vars
  PROVE  Small'
<1>1. CASE JobStep
  BY <1>1, PrepareSmall, CondensedSmall, CondenseFailsSmall, CondenseAbortedSmall, EpochLogSmall,
     EpochStateSmall,
     EpochPruneSmall, EndTurnSmall, ScrubReadsSmall, ScrubWithoutModelSmall, ScrubbedSmall, ScrubFailsSmall,
     MidTurnSmall, RestsSmall, EpochLeftSmall, TakeBackSmall, ScrubAbortedSmall, ScrubNotesSmall, VerifySmall, StartEpochNowSmall, DropLogsSmall, ClearSmall,
     ResetSmall DEF JobStep
<1>2. CASE TakeTurn \/ CompactNow \/ Maintain \/ TakeWaiting
  BY <1>2, TakeTurnSmall, CompactNowSmall, MaintainSmall, TakeWaitingSmall
<1>3. CASE \E source \in Requests, limited \in BOOLEAN : Ask(source, limited)
  BY <1>3, AskSmall
<1>4. CASE AskReset \/ BackoffEnds \/ Interrupt \/ Throws \/ Crash
  BY <1>4, AskResetSmall, BackoffEndsSmall, InterruptSmall, ThrowsSmall, CrashSmall
<1>5. CASE \E f \in Facts : Read(f) \/ NoteDown(f) \/ ReadNote(f) \/ Deleted(f)
  BY <1>5, ReadSmall, NoteDownSmall, ReadNoteSmall, DeletedSmall
<1>6. CASE \E m \in {"own", "other", "none"} : ModelChanges(m)
  BY <1>6, ModelChangesSmall
<1>7. CASE UNCHANGED vars
  BY <1>7, SmallStutters
<1> QED BY <1>1, <1>2, <1>3, <1>4, <1>5, <1>6, <1>7 DEF Next
-----------------------------------------------------------------------------
(* Memory is kept: the steps of a job *)

\* What she remembers and what is recorded of it is as it was.
Steady ==
  /\ state'.summary = state.summary /\ state'.pending = state.pending /\ state'.deleted = state.deleted
  /\ log' = log /\ UNCHANGED <<rested, gone, slipped, reset, revived>>
  /\ torn => torn'

LEMMA SteadyMemory ==
  ASSUME MemoryInv, Steady, Small', EpochIsWhole',
         PendingNow' = PendingNow \/ (PendingNow' = "forget" /\ torn'),
         OfTheRun' /\ job'.pc \in {"notes", "verify", "epoch", "drop"} => state.pending = "forget"
  PROVE  MemoryInv'
<1>1. DeletedStands' /\ DeletedIsLeftOut'
  BY DEF MemoryInv, Steady, DeletedStands, DeletedIsLeftOut, Remembered
<1>2. LogIsSummed'
  BY DEF MemoryInv, Steady, LogIsSummed
<1>3. ResetStands'
  BY DEF MemoryInv, Steady, ResetStands
<1> QED BY <1>1, <1>2, <1>3 DEF MemoryInv

\* Away from a failed write the pending epoch is the one written.
LEMMA PendingSame ==
  ASSUME Steady, job.pc # "revert", job'.pc # "revert"
  PROVE  PendingNow' = PendingNow
BY DEF Steady, PendingNow

\* A job that begins, or is over.
LEMMA BegunMemory ==
  ASSUME MemoryAssumption, MemoryInv, Steady, Small', NEW k, NEW p, NEW r, Begun(k, p, r),
         p \in {"idle", "prepare", "reading", "reset", "summary", "notes"}, p = "notes" => "summary" \notin r.steps,
         job.pc = "revert" => torn'
  PROVE  MemoryInv'
<1>1. job'.pc = p /\ job'.run = r /\ job'.left = {}
  BY DEF Begun
<1>2. EpochIsWhole'
  BY <1>1 DEF EpochIsWhole, Starting
<1>3. PendingNow' = PendingNow \/ (PendingNow' = "forget" /\ torn')
  BY <1>1 DEF PendingNow, Steady, MemoryInv, Small, ReadStands
<1>4. OfTheRun' /\ job'.pc \in {"notes", "verify", "epoch", "drop"} => state.pending = "forget"
  BY <1>1 DEF OfTheRun, SummaryDone
<1> QED BY <1>2, <1>3, <1>4, SteadyMemory

LEMMA OverMemory ==
  ASSUME MemoryAssumption, MemoryInv, Steady, Small', Over, job.pc = "revert" => torn'
  PROVE  MemoryInv'
BY BegunMemory DEF Over

LEMMA RunMemory ==
  ASSUME MemoryAssumption, MemoryInv, Steady, Small', NEW k, NEW r, Begun(k, FirstStep(r), r),
         job.pc = "revert" => torn'
  PROVE  MemoryInv'
<1>1. FirstStep(r) \in {"summary", "notes"} /\ (FirstStep(r) = "notes" => "summary" \notin r.steps)
  BY DEF FirstStep
<1> HIDE DEF FirstStep
<1> QED BY <1>1, BegunMemory

\* A job that goes on where it starts no epoch.
LEMMA GoneOnMemory ==
  ASSUME MemoryInv, Steady, Small', job.pc # "revert", job'.pc \notin Starting \cup {"revert"},
         OfTheRun' /\ job'.pc \in {"notes", "verify", "epoch", "drop"} => state.pending = "forget"
  PROVE  MemoryInv'
<1>1. EpochIsWhole'
  BY DEF EpochIsWhole
<1> QED BY <1>1, PendingSame, SteadyMemory

\* The job stands where it stood.
LEMMA SameMemory ==
  ASSUME MemoryInv, Steady, Small', Moved(job.pc), torn' = torn
  PROVE  MemoryInv'
<1>1. job'.pc = job.pc /\ job'.run = job.run /\ job'.left = job.left
      /\ job'.text = job.text /\ job'.kept = job.kept /\ job'.cause = job.cause /\ job'.seen = job.seen
  BY DEF Moved, Stays
<1>2. EpochIsWhole'
  BY <1>1 DEF MemoryInv, EpochIsWhole, Steady, Remembered
<1>3. PendingNow' = PendingNow
  BY <1>1 DEF PendingNow, Steady
<1>4. OfTheRun' /\ job'.pc \in {"notes", "verify", "epoch", "drop"} => state.pending = "forget"
  BY <1>1 DEF MemoryInv, LogIsSummed, OfTheRun, SummaryDone
<1> QED BY <1>2, <1>3, <1>4, SteadyMemory

LEMMA TurnsMemory ==
  ASSUME MemoryAssumption, MemoryInv, TakeTurn \/ CompactNow \/ Maintain \/ TakeWaiting
  PROVE  MemoryInv'
<1>1. Small /\ Types
  BY DEF MemoryInv, Small
<1>2. Small'
  BY <1>1, TakeTurnSmall, CompactNowSmall, MaintainSmall, TakeWaitingSmall
<1>3. Steady /\ job = NoJob
  BY DEF TakeTurn, CompactNow, Maintain, TakeWaiting, Free, Steady, disk, history
<1>4. job.pc # "revert"
  BY <1>3, NoJobIs
<1>5. CASE TakeTurn
  BY <1>1, <1>2, <1>3, <1>4, <1>5, TakeTurnJob, RunMemory, BegunMemory
<1>6. CASE CompactNow
  BY <1>1, <1>2, <1>3, <1>4, <1>6, CompactNowJob, BegunMemory
<1>7. CASE Maintain
  BY <1>1, <1>2, <1>3, <1>4, <1>7, MaintainJob, RunMemory
<1>8. CASE TakeWaiting
  BY <1>1, <1>2, <1>3, <1>4, <1>8, TakeWaitingJob, RunMemory, BegunMemory
<1> QED BY <1>5, <1>6, <1>7, <1>8

LEMMA PrepareMemory ==
  ASSUME MemoryAssumption, MemoryInv, Prepare
  PROVE  MemoryInv'
<1>1. Small /\ Types /\ Small'
  BY PrepareSmall DEF MemoryInv, Small
<1>2. Steady
  BY DEF Prepare, Steady, disk, history
<1>3. job.pc = "prepare"
  BY <1>1, PrepareJob
<1>4. CASE Moved("reading") \/ Looks("condensing")
  <2>1. job'.pc \in {"reading", "condensing"}
    BY <1>4 DEF Moved, Looks
  <2> QED BY <1>1, <1>2, <1>3, <2>1, GoneOnMemory DEF Starting
<1>5. CASE state.pending # "no" /\ EpochBegins(state.summary, <<>>, state.pending, NoSeen)
  <2>1. job'.pc = "log" /\ job'.text = state.summary /\ job'.cause = state.pending
    BY <1>5 DEF EpochBegins
  <2>2. state.pending \in {"no", "forget", "reset"}
    BY <1>1, TypesOf DEF Pending
  <2>3. state.pending = "forget" /\ ~torn => Remembered \subseteq state.summary \cup About
    BY <1>3 DEF MemoryInv, LogIsSummed, PendingNow, Remembered
  <2>4. EpochIsWhole'
    <3>1. Remembered' = Remembered /\ (torn => torn')
      BY <1>2 DEF Steady, Remembered
    <3> QED BY <1>5, <2>1, <2>2, <2>3, <3>1 DEF EpochIsWhole
  <2> QED BY <1>1, <1>2, <1>3, <2>1, <2>4, PendingSame, SteadyMemory
<1>6. CASE EpochBegins(state.summary, KeptOf(SeenNow.turns, Len(SeenNow.turns), state.deleted), "carried", SeenNow)
  <2> DEFINE k == KeptOf(SeenNow.turns, Len(SeenNow.turns), state.deleted)
  <2>1. job'.pc = "log" /\ job'.text = state.summary /\ job'.kept = k /\ job'.cause = "carried"
    BY <1>6 DEF EpochBegins
  <2>2. ToSet(k) = (ToSet(log) \ rested) \ state.deleted
    <3>1. SeenNow.turns \in Seq(Facts) /\ Len(SeenNow.turns) \in Nat /\ ToSet(SeenNow.turns) = ToSet(log) \ rested
      BY <1>1, SeenNowIs
    <3> QED BY <3>1, KeptIs
  <2> HIDE DEF k
  <2>3. EpochIsWhole'
    BY <1>2, <2>1, <2>2 DEF Steady, Remembered, MemoryInv, DeletedStands, EpochIsWhole
  <2> QED BY <1>1, <1>2, <1>3, <2>1, <2>3, PendingSame, SteadyMemory
<1> QED BY <1>1, <1>4, <1>5, <1>6, PrepareJob

LEMMA CondenseMemory ==
  ASSUME MemoryAssumption, MemoryInv, Condensed \/ CondenseFails \/ CondenseAborted
  PROVE  MemoryInv'
<1>1. Small /\ Types
  BY DEF MemoryInv, Small
<1>2. Small'
  BY <1>1, CondensedSmall, CondenseFailsSmall, CondenseAbortedSmall
<1>3. Steady /\ job.pc = "condensing"
  <2>1. CASE Condensed \/ CondenseAborted
    BY <2>1 DEF Condensed, CondenseAborted, Steady, disk, history, At
  <2>2. CASE CondenseFails
    <3>1. state' = [state EXCEPT !.backoff = TRUE] /\ state \in StateType
      BY <1>1, <2>2, TypesOf DEF CondenseFails
    <3>2. state'.summary = state.summary /\ state'.pending = state.pending /\ state'.deleted = state.deleted
      BY <3>1 DEF StateType
    <3> QED BY <2>2, <3>2 DEF CondenseFails, Steady, history, At
  <2> QED BY <2>1, <2>2
<1>4. CASE Condensed
  <2>1. PICK keep \in Nat :
          EpochBegins(Summarised(job.seen, job.seen.deleted), KeptOf(job.seen.turns, keep, job.seen.deleted), "summary",
                      job.seen)
    BY <1>1, <1>4, CondensedJob
  <2>2. /\ job'.pc = "log" /\ job'.text = Summarised(job.seen, job.seen.deleted) /\ job'.cause = "summary"
        /\ job'.seen = job.seen
    BY <2>1 DEF EpochBegins
  <2>3. job.seen.summary = state.summary /\ job.seen.log = log /\ job.seen.deleted \subseteq state.deleted
    BY <1>1, <1>3 DEF Small, ReadStands, Reading
  <2>4. EpochIsWhole'
    BY <1>3, <2>2, <2>3 DEF Steady, Remembered, MemoryInv, DeletedStands, EpochIsWhole, Summarised
  <2> QED BY <1>2, <1>3, <2>2, <2>4, PendingSame, SteadyMemory
<1>5. CASE CondenseFails
  <2>1. job'.pc = "log" /\ job'.cause = "truncated"
    BY <1>1, <1>5, CondenseFailsJob DEF EpochBegins
  <2>2. EpochIsWhole'
    BY <2>1 DEF EpochIsWhole
  <2> QED BY <1>2, <1>3, <2>1, <2>2, PendingSame, SteadyMemory
<1>6. CASE CondenseAborted
  <2>1. Over
    BY <1>6, OverIs DEF CondenseAborted
  <2> QED BY <1>2, <1>3, <2>1, OverMemory
<1> QED BY <1>4, <1>5, <1>6

LEMMA TurnsOverMemory ==
  ASSUME MemoryAssumption, MemoryInv, MidTurnCompaction \/ Rests
  PROVE  MemoryInv'
<1>1. Small /\ Types
  BY DEF MemoryInv, Small
<1>2. Small'
  BY <1>1, MidTurnSmall, RestsSmall
<1>3. Steady /\ job.pc = "reading"
  <2>1. CASE MidTurnCompaction
    <3>1. UNCHANGED <<disk, history>> /\ job.pc = "reading"
      BY <2>1 DEF MidTurnCompaction, At
    <3> QED BY <3>1 DEF Steady, disk, history
  <2>2. CASE Rests
    <3>1. UNCHANGED <<disk, history>> /\ job.pc = "reading"
      BY <2>2 DEF Rests, At
    <3> QED BY <3>1 DEF Steady, disk, history
  <2> QED BY <2>1, <2>2
<1>4. CASE Looks("condensing")
  <2>1. job'.pc = "condensing"
    BY <1>4 DEF Looks
  <2> QED BY <1>2, <1>3, <2>1, GoneOnMemory DEF Starting
<1>5. CASE \E k \in Seq(Facts) : EpochBegins(state.summary, k, "truncated", SeenNow)
  <2>1. job'.pc = "log" /\ job'.cause = "truncated"
    BY <1>5 DEF EpochBegins
  <2>2. EpochIsWhole'
    BY <2>1 DEF EpochIsWhole
  <2> QED BY <1>2, <1>3, <2>1, <2>2, PendingSame, SteadyMemory
<1>6. CASE EpochBegins(Remembered, <<>>, "rest", SeenNow)
  <2>1. job'.pc = "log" /\ job'.cause = "rest" /\ job'.text = Remembered
    BY <1>6 DEF EpochBegins
  <2>2. EpochIsWhole'
    BY <1>3, <2>1 DEF EpochIsWhole, Steady, Remembered
  <2> QED BY <1>2, <1>3, <2>1, <2>2, PendingSame, SteadyMemory
<1> QED BY <1>1, <1>4, <1>5, <1>6, MidTurnJob, RestsJob

LEMMA EpochLogMemory ==
  ASSUME MemoryAssumption, MemoryInv, EpochLog
  PROVE  MemoryInv'
<1>1. Small /\ Types /\ Small'
  BY EpochLogSmall DEF MemoryInv, Small
<1>2. Steady
  BY DEF EpochLog, Steady, history
<1>3. /\ job.pc = "log" /\ job'.pc = "state"
      /\ job'.text = job.text /\ job'.kept = job.kept /\ job'.cause = job.cause /\ job'.seen = job.seen
  BY <1>1, EpochLogJob DEF Moved
<1>4. EpochIsWhole'
  BY <1>2, <1>3 DEF MemoryInv, Starting, EpochIsWhole, Steady, Remembered
<1> QED BY <1>1, <1>2, <1>3, <1>4, PendingSame, SteadyMemory

LEMMA EpochStateMemory ==
  ASSUME MemoryAssumption, MemoryInv, EpochState
  PROVE  MemoryInv'
<1>1. Small /\ Types /\ Small'
  BY EpochStateSmall DEF MemoryInv, Small
<1>2. /\ state' = [state EXCEPT !.summary = job.text, !.pending = "no", !.read = ToSet(job.kept), !.deleted = {}]
      /\ log' = next /\ slipped' = slipped \cup Unlisted(state)
      /\ reset' = IF job.kind = "reset" THEN known ELSE reset
      /\ UNCHANGED <<known, gone, revived, torn>>
  BY DEF EpochState
<1>3. job.pc = "state" /\ job'.pc = "prune"
  BY <1>1, EpochStateJob
<1>4. state'.summary = job.text /\ state'.pending = "no" /\ state'.deleted = {}
  BY <1>1, <1>2, TypesOf DEF StateType
<1>5. /\ job.text \cup ToSet(job.kept) \subseteq Remembered /\ next = job.kept
      /\ job.cause \in FromHerState => state.pending = "no" /\ ToSet(job.kept) \cap job.seen.deleted = {}
      /\ job.cause = "summary" => job.text \cap job.seen.deleted = {}
      /\ job.cause \in {"forget", "reset"} => job.kept = <<>> /\ job.text \subseteq state.summary
      /\ job.cause # "none"
      /\ job.kind = "reset" => job.text = {} /\ job.kept = <<>>
  BY <1>1, <1>3 DEF Small, EpochStands, Starting
<1>6. job.cause \in FromHerState \cup {"forget", "reset"}
  BY <1>1, <1>5, TypesOf, JobTypes DEF Causes, FromHerState
<1>7. DeletedStands' /\ EpochIsWhole' /\ LogIsSummed'
  BY <1>3, <1>4 DEF DeletedStands, EpochIsWhole, LogIsSummed, PendingNow, Starting
<1>8. DeletedIsLeftOut'
  <2>1. SUFFICES ASSUME NEW f \in gone, f \notin slipped, f \notin Unlisted(state), f \in job.text \cup ToSet(job.kept)
                 PROVE  FALSE
    BY <1>2, <1>4, <1>5 DEF DeletedIsLeftOut, Remembered
  <2>2. f \in state.deleted
    BY <1>5, <2>1 DEF MemoryInv, DeletedIsLeftOut
  <2>3. CASE job.cause = "summary"
    BY <1>5, <2>1, <2>2, <2>3 DEF Unlisted, FromHerState
  <2>4. CASE job.cause \in {"carried", "truncated"}
    BY <1>5, <2>1, <2>2, <2>4 DEF Unlisted, FromHerState
  <2>5. CASE job.cause \in {"rest", "forget", "reset"}
    BY <2>1, <2>2, <2>5 DEF Unlisted
  <2> QED BY <1>6, <2>3, <2>4, <2>5 DEF FromHerState
<1>9. ResetStands'
  <2>1. CASE revived
    BY <1>2, <2>1 DEF ResetStands
  <2>2. CASE ~revived
    <3>1. reset \cap state.summary = {} /\ (state.pending = "no" => reset \cap ToSet(log) = {})
      BY <1>3, <2>2 DEF MemoryInv, ResetStands, PendingNow
    <3>2. reset' \cap (job.text \cup ToSet(job.kept)) = {}
      <4>1. CASE job.kind = "reset"
        BY <1>5, <4>1, EmptyLog
      <4>2. CASE job.kind # "reset" /\ job.cause \in FromHerState
        BY <1>2, <1>5, <3>1, <4>2 DEF Remembered
      <4>3. CASE job.kind # "reset" /\ job.cause \in {"forget", "reset"}
        BY <1>2, <1>5, <3>1, <4>3, EmptyLog
      <4> QED BY <1>6, <4>1, <4>2, <4>3
    <3> QED BY <1>2, <1>4, <1>5, <3>2 DEF ResetStands
  <2> QED BY <2>1, <2>2
<1> QED BY <1>1, <1>7, <1>8, <1>9 DEF MemoryInv

LEMMA EndsMemory ==
  ASSUME MemoryAssumption, MemoryInv, EpochPrune \/ EndTurn \/ Clear
  PROVE  MemoryInv'
<1>1. Small /\ Types
  BY DEF MemoryInv, Small
<1>2. Small'
  BY <1>1, EpochPruneSmall, EndTurnSmall, ClearSmall
<1>3. Steady /\ job.pc \in {"prune", "reading", "clear"}
  BY DEF EpochPrune, EndTurn, Clear, Steady, disk, history, At
<1>4. CASE EpochPrune
  <2>1. CASE Moved("clear")
    <3>1. job'.pc = "clear"
      BY <2>1 DEF Moved
    <3> QED BY <1>2, <1>3, <3>1, GoneOnMemory DEF Starting
  <2>2. CASE Over
    BY <1>2, <1>3, <2>2, OverMemory
  <2> QED BY <1>1, <1>4, <2>1, <2>2, GoesOnJob DEF EpochPrune
<1>5. CASE EndTurn
  <2>1. Over
    BY <1>5, OverIs DEF EndTurn
  <2> QED BY <1>2, <1>3, <2>1, OverMemory
<1>6. CASE Clear
  BY <1>1, <1>2, <1>3, <1>6, ClearJob, OverMemory, BegunMemory
<1> QED BY <1>4, <1>5, <1>6
-----------------------------------------------------------------------------
(* Memory is kept: the steps of a scrub *)

\* A scrub that leaves its summary over goes on to where no epoch is due.
LEMMA LeftOverMemory ==
  ASSUME MemoryAssumption, MemoryInv, Small', Steady, job.pc \in {"summary", "writing"}, SummaryWaits
  PROVE  MemoryInv'
<1>1. job'.left = {"summary"} /\ job'.pc = AfterSummary({"summary"}) /\ job'.run = job.run
  BY WaitIs DEF LeavesOut, Stays, MemoryInv, Small, Types
<1>2. job'.pc \notin Starting \cup {"revert"}
  BY <1>1 DEF AfterSummary, Starting
<1>3. ~OfTheRun'
  BY <1>1 DEF OfTheRun, SummaryDone
<1> QED BY <1>2, <1>3, GoneOnMemory

LEMMA ScrubWaitsMemory ==
  ASSUME MemoryAssumption, MemoryInv, ScrubReads \/ ScrubWithoutModel \/ ScrubAborted
  PROVE  MemoryInv'
<1>1. Small /\ Types
  BY DEF MemoryInv, Small
<1>2. Small'
  BY <1>1, ScrubReadsSmall, ScrubWithoutModelSmall, ScrubAbortedSmall
<1>3. Steady
  BY DEF ScrubReads, ScrubWithoutModel, ScrubAborted, Steady, disk, history
<1>4. CASE ScrubReads
  <2>1. job.pc = "summary" /\ job'.pc = "writing"
    BY <1>1, <1>4, ScrubReadsJob DEF Looks
  <2> QED BY <1>2, <1>3, <2>1, GoneOnMemory DEF Starting
<1>5. CASE ScrubWithoutModel \/ ScrubAborted
  <2>1. job.pc \in {"summary", "writing"} /\ SummaryWaits
    BY <1>5 DEF ScrubWithoutModel, ScrubAborted, At
  <2> QED BY <1>2, <1>3, <2>1, LeftOverMemory
<1> QED BY <1>4, <1>5

LEMMA ScrubbedMemory ==
  ASSUME MemoryAssumption, MemoryInv, Scrubbed
  PROVE  MemoryInv'
<1>1. Small /\ Types /\ Small'
  BY ScrubbedSmall DEF MemoryInv, Small
<1> DEFINE s == (state.summary \cup ToSet(log)) \ About
<1>2. job.pc = "writing" /\ job'.pc = AfterSummary({})
  BY <1>1, ScrubbedJob DEF LeavesOut
<1>3. job'.pc \notin Starting \cup {"revert"}
  BY <1>2 DEF AfterSummary, Starting
<1>4. /\ job.seen.summary = state.summary /\ job.seen.log = log /\ job.seen.pending = state.pending
      /\ job.seen.cut = {}
  BY <1>1, <1>2 DEF Small, ReadStands, Reading
<1>5. state'.summary = s /\ state'.pending = "forget" /\ state'.deleted = state.deleted
  BY <1>1, <1>4, TypesOf DEF Scrubbed, Summarised, StateType
<1>6. /\ revived' = (revived \/ torn \/ job.seen.pending = "reset")
      /\ log' = log /\ gone' = gone /\ slipped' = slipped /\ reset' = reset /\ torn' = torn
  BY DEF Scrubbed
<1>7. PendingNow' = "forget"
  BY <1>3, <1>5 DEF PendingNow
<1>8. LogIsSummed' /\ EpochIsWhole'
  BY <1>3, <1>5, <1>6, <1>7 DEF LogIsSummed, EpochIsWhole
<1>9. DeletedStands' /\ DeletedIsLeftOut'
  BY <1>5, <1>6 DEF MemoryInv, DeletedStands, DeletedIsLeftOut, Remembered
<1>10. ResetStands'
  <2>1. CASE revived \/ torn \/ state.pending = "reset"
    BY <1>4, <1>6, <2>1 DEF ResetStands
  <2>2. CASE ~revived /\ ~torn /\ state.pending # "reset"
    <3>1. PendingNow = state.pending /\ state.pending \in {"no", "forget"}
      BY <1>1, <1>2, <2>2, TypesOf DEF PendingNow, Pending
    <3>2. reset \cap (state.summary \cup ToSet(log)) = {}
      BY <2>2, <3>1 DEF MemoryInv, ResetStands
    <3> QED BY <1>5, <1>6, <3>2 DEF ResetStands
  <2> QED BY <2>1, <2>2
<1> QED BY <1>1, <1>8, <1>9, <1>10 DEF MemoryInv

\* A step that only moves the pending epoch, as it will be again.
LEMMA PendingMemory ==
  ASSUME MemoryInv, Small', PendingNow' = PendingNow, job'.pc \notin Starting,
         OfTheRun' => job'.pc \notin {"notes", "verify", "epoch", "drop"},
         state'.summary = state.summary, state'.deleted = state.deleted,
         log' = log, UNCHANGED <<gone, slipped, reset, revived, torn>>
  PROVE  MemoryInv'
<1>1. DeletedStands' /\ DeletedIsLeftOut' /\ EpochIsWhole'
  BY DEF MemoryInv, DeletedStands, DeletedIsLeftOut, Remembered, EpochIsWhole
<1>2. LogIsSummed'
  BY DEF MemoryInv, LogIsSummed
<1>3. ResetStands'
  BY DEF MemoryInv, ResetStands
<1> QED BY <1>1, <1>2, <1>3 DEF MemoryInv

LEMMA ScrubFailsMemory ==
  ASSUME MemoryAssumption, MemoryInv, ScrubFails \/ EpochLeft
  PROVE  MemoryInv'
<1>1. Small /\ Types
  BY DEF MemoryInv, Small
<1>2. Small'
  BY <1>1, ScrubFailsSmall, EpochLeftSmall
<1>3. /\ job.pc \in {"writing", "failing"} /\ job'.seen = job.seen
      /\ (job'.pc = "failing" /\ state'.pending = state.pending) \/ job'.pc = "revert"
  <2>1. CASE ScrubFails
    BY <1>1, <2>1, ScrubFailsJob, TypesOf DEF Moved, ScrubFails, StateType
  <2>2. CASE EpochLeft
    BY <1>1, <2>2, EpochLeftJob DEF Moved
  <2> QED BY <2>1, <2>2
<1>4. job.seen.pending = state.pending
  BY <1>1, <1>3 DEF Small, ReadStands
<1>5. state'.summary = state.summary /\ state'.deleted = state.deleted
  BY <1>1, TypesOf DEF ScrubFails, EpochLeft, StateType
<1>6. PendingNow' = PendingNow
  BY <1>3, <1>4 DEF PendingNow
<1>7. log' = log /\ UNCHANGED <<gone, slipped, reset, revived, torn>>
  BY DEF ScrubFails, EpochLeft, history
<1>8. job'.pc \notin Starting /\ job'.pc \notin {"notes", "verify", "epoch", "drop"}
  BY <1>3 DEF Starting
<1> QED BY <1>2, <1>5, <1>6, <1>7, <1>8, PendingMemory

LEMMA TakeBackMemory ==
  ASSUME MemoryAssumption, MemoryInv, TakeBack
  PROVE  MemoryInv'
<1>1. Small /\ Types /\ Small' /\ job \in Jobs
  BY TakeBackSmall DEF MemoryInv, Small, Types
<1>2. job.pc = "revert" /\ SummaryWaits
  BY DEF TakeBack, At
<1>3. job'.left = {"summary"} /\ job'.pc = AfterSummary({"summary"}) /\ job'.run = job.run
  BY <1>1, <1>2, WaitIs DEF LeavesOut, Stays
<1>4. job'.pc \notin Starting \cup {"revert"}
  BY <1>3 DEF AfterSummary, Starting
<1>5. ~OfTheRun'
  BY <1>3 DEF OfTheRun, SummaryDone
<1>6. state'.summary = job.seen.summary /\ state'.pending = job.seen.pending /\ state'.deleted = state.deleted
  BY <1>1, TypesOf DEF TakeBack, StateType
<1>7. job.seen.summary = state.summary
  BY <1>1, <1>2 DEF Small, ReadStands, Reading
<1>8. PendingNow' = PendingNow
  BY <1>2, <1>4, <1>6 DEF PendingNow
<1>9. log' = log /\ UNCHANGED <<gone, slipped, reset, revived, torn>>
  BY DEF TakeBack, history
<1> QED BY <1>1, <1>4, <1>5, <1>6, <1>7, <1>8, <1>9, PendingMemory

LEMMA NotesMemory ==
  ASSUME MemoryAssumption, MemoryInv, ScrubNotes \/ Verify
  PROVE  MemoryInv'
<1>1. Small /\ Types
  BY DEF MemoryInv, Small
<1>2. Small'
  BY <1>1, ScrubNotesSmall, VerifySmall
<1>3. Steady
  BY DEF ScrubNotes, Verify, Steady, history
<1>4. job.pc \in {"notes", "verify"} /\ job'.pc \in {"verify", "epoch", "clear"} /\ job'.run = job.run
      /\ job'.left \in {job.left, job.left \cup {"notes"}}
  <2>1. CASE ScrubNotes
    BY <1>1, <2>1, ScrubNotesJob DEF Moved, LeavesOut, Stays
  <2>2. CASE Verify
    BY <1>1, <2>2, VerifyJob DEF Moved, Stays
  <2> QED BY <2>1, <2>2
<1>5. OfTheRun' => state.pending = "forget"
  <2>1. OfTheRun' => OfTheRun
    BY <1>4 DEF OfTheRun, SummaryDone
  <2> QED BY <1>4, <2>1 DEF MemoryInv, LogIsSummed
<1>6. job'.pc \notin Starting \cup {"revert"} /\ job.pc # "revert"
  BY <1>4 DEF Starting
<1> QED BY <1>2, <1>3, <1>5, <1>6, GoneOnMemory

LEMMA StartEpochNowMemory ==
  ASSUME MemoryAssumption, MemoryInv, StartEpochNow
  PROVE  MemoryInv'
<1>1. Small /\ Types /\ Small'
  BY StartEpochNowSmall DEF MemoryInv, Small
<1>2. job.pc = "epoch" /\ OfTheRun
  BY <1>1, StartEpochNowJob DEF Small, RunStands
<1>3. state.pending = "forget" /\ PendingNow = "forget"
  BY <1>2 DEF MemoryInv, LogIsSummed, PendingNow
<1>4. log' = log /\ UNCHANGED <<rested, gone, slipped, reset, revived, torn>>
  BY DEF StartEpochNow, history
<1>5. CASE EpochBegins(state.summary, <<>>, "forget", NoSeen) /\ state' = state
  <2>1. Steady
    BY <1>4, <1>5 DEF Steady
  <2>2. job'.pc = "log" /\ job'.text = state.summary /\ job'.cause = "forget"
    BY <1>5 DEF EpochBegins
  <2>3. ~torn => Remembered \subseteq state.summary \cup About
    BY <1>3 DEF MemoryInv, LogIsSummed, Remembered
  <2>4. EpochIsWhole'
    BY <1>4, <1>5, <2>2, <2>3 DEF EpochIsWhole, Remembered
  <2> QED BY <1>1, <1>2, <2>1, <2>2, <2>4, PendingSame, SteadyMemory
<1>6. CASE Moved("drop") /\ state' = [state EXCEPT !.pending = "forget"]
  <2>1. job'.pc = "drop"
    BY <1>6 DEF Moved
  <2>2. Steady
    BY <1>1, <1>3, <1>4, <1>6, TypesOf DEF Steady, StateType
  <2> QED BY <1>1, <1>2, <1>3, <2>1, <2>2, GoneOnMemory DEF Starting
<1> QED BY <1>1, <1>5, <1>6, StartEpochNowJob

LEMMA DropLogsMemory ==
  ASSUME MemoryAssumption, MemoryInv, DropLogs
  PROVE  MemoryInv'
<1>1. Small /\ Types /\ Small'
  BY DropLogsSmall DEF MemoryInv, Small
<1>2. job.pc = "drop" /\ job'.pc = "clear"
  BY <1>1, DropLogsJob DEF Moved
<1>3. log' \in {<<>>, log} /\ state' = state /\ UNCHANGED <<gone, slipped, reset, revived, torn>>
  BY DEF DropLogs, history
<1>4. ToSet(log') \subseteq ToSet(log)
  BY <1>3, EmptyLog
<1>5. PendingNow' = PendingNow
  BY <1>2, <1>3 DEF PendingNow
<1>6. DeletedStands' /\ DeletedIsLeftOut' /\ EpochIsWhole'
  BY <1>2, <1>3, <1>4 DEF MemoryInv, DeletedStands, DeletedIsLeftOut, Remembered, EpochIsWhole,
     Starting
<1>7. LogIsSummed'
  BY <1>2, <1>3, <1>4, <1>5 DEF MemoryInv, LogIsSummed
<1>8. ResetStands'
  BY <1>3, <1>4, <1>5 DEF MemoryInv, ResetStands
<1> QED BY <1>1, <1>6, <1>7, <1>8 DEF MemoryInv

LEMMA ResetMemory ==
  ASSUME MemoryAssumption, MemoryInv, Reset
  PROVE  MemoryInv'
<1>1. Small /\ Types /\ Small'
  BY ResetSmall DEF MemoryInv, Small
<1>2. job.pc = "reset"
  BY <1>1, ResetJob
<1>3. log' = log /\ UNCHANGED <<rested, gone, slipped, revived, torn>>
  BY DEF Reset
<1>4. CASE EpochBegins({}, <<>>, "reset", NoSeen) /\ state' = state /\ reset' = reset
  <2>1. Steady
    BY <1>3, <1>4 DEF Steady
  <2>2. job'.pc = "log" /\ job'.cause = "reset"
    BY <1>4 DEF EpochBegins
  <2>3. EpochIsWhole'
    BY <2>2 DEF EpochIsWhole
  <2> QED BY <1>1, <1>2, <2>1, <2>2, <2>3, PendingSame, SteadyMemory
<1>5. CASE Over /\ state' = [state EXCEPT !.summary = {}, !.pending = "reset"] /\ reset' = known
  <2>1. state'.summary = {} /\ state'.pending = "reset" /\ state'.deleted = state.deleted
    BY <1>1, <1>5, TypesOf DEF StateType
  <2>2. job'.pc = "idle"
    BY <1>5 DEF Over, Begun
  <2>3. DeletedStands' /\ DeletedIsLeftOut' /\ EpochIsWhole'
    BY <1>3, <2>1, <2>2 DEF MemoryInv, DeletedStands, DeletedIsLeftOut, Remembered, EpochIsWhole,
       Starting
  <2>4. LogIsSummed' /\ ResetStands'
    BY <2>1, <2>2 DEF LogIsSummed, ResetStands, PendingNow
  <2> QED BY <1>1, <2>3, <2>4 DEF MemoryInv
<1> QED BY <1>1, <1>4, <1>5, ResetJob

-----------------------------------------------------------------------------
(* Memory is kept: what is asked for, read and deleted, and what the world does *)

LEMMA AsideMemory ==
  ASSUME MemoryAssumption, MemoryInv, Small', Steady, torn' = torn,
         AbortTurn \/ job' = [job EXCEPT !.abort = TRUE] \/ job' = job
  PROVE  MemoryInv'
<1>1. Moved(job.pc)
  BY AbortIs DEF MemoryInv, Small, Types
<1> QED BY <1>1, SameMemory

LEMMA AskMemory ==
  ASSUME MemoryAssumption, MemoryInv,
         AskReset \/ \E source \in Requests, limited \in BOOLEAN : Ask(source, limited)
  PROVE  MemoryInv'
<1>1. Small'
  BY AskResetSmall, AskSmall DEF MemoryInv
<1>2. CASE AskReset
  <2>1. Steady /\ AbortTurn /\ torn' = torn
    BY <1>2 DEF AskReset, Steady, disk, history
  <2> QED BY <1>1, <2>1, AsideMemory
<1>3. CASE \E source \in Requests, limited \in BOOLEAN : Ask(source, limited)
  <2>1. PICK source \in Requests, limited \in BOOLEAN : Ask(source, limited)
    BY <1>3
  <2>2. UNCHANGED <<state, log, rested, gone, slipped, reset, revived, torn>> /\ (AbortTurn \/ job' = job)
    BY <2>1 DEF Ask
  <2> QED BY <1>1, <2>2, AsideMemory DEF Steady
<1> QED BY <1>2, <1>3

LEMMA WorldMemory ==
  ASSUME MemoryAssumption, MemoryInv,
         BackoffEnds \/ Interrupt \/ \E m \in {"own", "other", "none"} : ModelChanges(m)
  PROVE  MemoryInv'
<1>1. Small'
  BY BackoffEndsSmall, InterruptSmall, ModelChangesSmall DEF MemoryInv
<1>2. CASE BackoffEnds
  <2>1. state'.summary = state.summary /\ state'.pending = state.pending /\ state'.deleted = state.deleted
    BY <1>2, TypesOf DEF BackoffEnds, StateType, MemoryInv, Small
  <2>2. Steady /\ torn' = torn /\ job' = job
    BY <1>2, <2>1 DEF BackoffEnds, Steady, history
  <2> QED BY <1>1, <2>2, AsideMemory
<1>3. CASE Interrupt
  <2>1. Steady /\ torn' = torn /\ job' = [job EXCEPT !.abort = TRUE]
    BY <1>3 DEF Interrupt, Steady, disk, history
  <2> QED BY <1>1, <2>1, AsideMemory
<1>4. CASE \E m \in {"own", "other", "none"} : ModelChanges(m)
  <2>1. Steady /\ torn' = torn /\ job' = job
    BY <1>4 DEF ModelChanges, Steady, disk, history
  <2> QED BY <1>1, <2>1, AsideMemory
<1> QED BY <1>2, <1>3, <1>4

LEMMA FallMemory ==
  ASSUME MemoryAssumption, MemoryInv, Throws \/ Crash
  PROVE  MemoryInv'
<1>1. Small /\ Types
  BY DEF MemoryInv, Small
<1>2. Small'
  BY <1>1, ThrowsSmall, CrashSmall
<1>3. state' = state /\ log' = log /\ UNCHANGED <<rested, gone, slipped, reset, revived>>
      /\ torn' = (torn \/ job.pc = "revert")
  BY DEF Throws, Crash, disk, At
<1>4. Steady /\ (job.pc = "revert" => torn')
  BY <1>3 DEF Steady
<1>5. CASE Throws
  BY <1>1, <1>2, <1>4, <1>5, ThrowsJob, OverMemory, BegunMemory
<1>6. CASE Crash
  BY <1>1, <1>2, <1>4, <1>6, CrashJob, OverMemory, RunMemory
<1> QED BY <1>5, <1>6

\* While she reads no epoch is left to start.
LEMMA ReadingMemory ==
  ASSUME MemoryInv, job.pc = "reading", job' = job, state'.pending = state.pending, Small',
         DeletedStands', DeletedIsLeftOut', ResetStands'
  PROVE  MemoryInv'
<1>1. PendingNow' = "no"
  BY DEF PendingNow, MemoryInv, Small, ReadStands
<1> QED BY <1>1 DEF MemoryInv, LogIsSummed, EpochIsWhole, Starting

LEMMA ReadMemory ==
  ASSUME MemoryAssumption, MemoryInv, NEW f \in Facts, Read(f)
  PROVE  MemoryInv'
<1>1. Small /\ Types /\ Small'
  BY ReadSmall DEF MemoryInv, Small
<1>2. job.pc = "reading" /\ f \notin known /\ log' = Append(log, f)
      /\ state' = [state EXCEPT !.read = @ \cup {f}] /\ UNCHANGED <<job, gone, slipped, reset, revived>>
  BY DEF Read, At
<1>3. /\ state'.pending = state.pending /\ state'.summary = state.summary /\ state'.deleted = state.deleted
      /\ ToSet(log') = ToSet(log) \cup {f} /\ f \notin gone /\ f \notin reset
  BY <1>1, <1>2, LogAppend, TypesOf DEF StateType, HistoryTypes
<1>4. DeletedStands' /\ DeletedIsLeftOut'
  BY <1>2, <1>3 DEF MemoryInv, DeletedStands, DeletedIsLeftOut, Remembered
<1>5. ResetStands'
  <2>1. CASE revived
    BY <1>2, <2>1 DEF ResetStands
  <2>2. CASE ~revived
    <3>1. reset \cap state.summary = {} /\ reset \cap ToSet(log) = {}
      BY <1>1, <1>2, <2>2 DEF MemoryInv, ResetStands, PendingNow, Small, ReadStands
    <3> QED BY <1>2, <1>3, <3>1 DEF ResetStands
  <2> QED BY <2>1, <2>2
<1> QED BY <1>1, <1>2, <1>3, <1>4, <1>5, ReadingMemory

LEMMA NoteDownMemory ==
  ASSUME MemoryAssumption, MemoryInv, NEW f \in Facts, NoteDown(f)
  PROVE  MemoryInv'
<1>1. Small'
  BY NoteDownSmall DEF MemoryInv
<1>2. Steady /\ torn' = torn /\ job' = job
  BY DEF NoteDown, Steady
<1> QED BY <1>1, <1>2, AsideMemory

LEMMA ReadNoteMemory ==
  ASSUME MemoryAssumption, MemoryInv, NEW f \in Facts, ReadNote(f)
  PROVE  MemoryInv'
<1>1. Small /\ Types /\ Small'
  BY ReadNoteSmall DEF MemoryInv, Small
<1>2. job.pc = "reading" /\ f \in notes /\ log' = Append(log, f) /\ reset' = reset \ {f} /\ gone' = gone \ {f}
      /\ UNCHANGED <<state, job, slipped, revived>>
  BY DEF ReadNote, At
<1>3. ToSet(log') = ToSet(log) \cup {f} /\ f \in About
  BY <1>1, <1>2, LogAppend, TypesOf
<1>4. DeletedStands' /\ DeletedIsLeftOut'
  BY <1>2, <1>3 DEF MemoryInv, DeletedStands, DeletedIsLeftOut, Remembered
<1>5. ResetStands'
  <2>1. CASE revived
    BY <1>2, <2>1 DEF ResetStands
  <2>2. CASE ~revived
    <3>1. reset \cap state.summary = {} /\ reset \cap ToSet(log) = {}
      BY <1>1, <1>2, <2>2 DEF MemoryInv, ResetStands, PendingNow, Small, ReadStands
    <3> QED BY <1>2, <1>3, <3>1 DEF ResetStands
  <2> QED BY <2>1, <2>2
<1> QED BY <1>1, <1>2, <1>4, <1>5, ReadingMemory

LEMMA DeletedMemory ==
  ASSUME MemoryAssumption, MemoryInv, NEW f \in Facts, Deleted(f)
  PROVE  MemoryInv'
<1>1. Small /\ Types /\ Small'
  BY DeletedSmall DEF MemoryInv, Small
<1>2. /\ state' = [state EXCEPT !.deleted = @ \cup {f}] /\ gone' = gone \cup {f}
      /\ UNCHANGED <<log, job, rested, slipped, reset, revived, torn>>
  BY DEF Deleted
<1>3. /\ state'.pending = state.pending /\ state'.summary = state.summary
      /\ state'.deleted = state.deleted \cup {f}
  BY <1>1, <1>2, TypesOf DEF StateType
<1>4. DeletedStands' /\ DeletedIsLeftOut'
  BY <1>2, <1>3 DEF MemoryInv, DeletedStands, DeletedIsLeftOut, Remembered
<1>5. PendingNow' = PendingNow
  BY <1>2, <1>3 DEF PendingNow
<1>6. EpochIsWhole'
  BY <1>2, <1>3 DEF MemoryInv, EpochIsWhole, Remembered
<1>7. LogIsSummed'
  BY <1>2, <1>3, <1>5 DEF MemoryInv, LogIsSummed, OfTheRun, SummaryDone
<1>8. ResetStands'
  BY <1>2, <1>3, <1>5 DEF MemoryInv, ResetStands
<1> QED BY <1>1, <1>4, <1>6, <1>7, <1>8 DEF MemoryInv

LEMMA InitMemory ==
  ASSUME MemoryAssumption, Init
  PROVE  MemoryInv
<1>1. Small /\ job.pc = "idle"
  BY InitSmall, NoJobIs DEF Init
<1>2. state.pending = "no" /\ state.summary = {} /\ state.deleted = {} /\ gone = {} /\ reset = {}
  BY DEF Init
<1> QED BY <1>1, <1>2 DEF MemoryInv, DeletedStands, LogIsSummed, EpochIsWhole, DeletedIsLeftOut,
           ResetStands,
                          PendingNow, Starting

LEMMA NextMemory ==
  ASSUME MemoryAssumption, MemoryInv, [Next]_vars
  PROVE  MemoryInv'
<1>1. CASE JobStep
  BY <1>1, PrepareMemory, CondenseMemory, TurnsOverMemory, EpochLogMemory, EpochStateMemory, EndsMemory,
     ScrubWaitsMemory, ScrubbedMemory,
     ScrubFailsMemory, TakeBackMemory, NotesMemory, StartEpochNowMemory, DropLogsMemory,
                    ResetMemory DEF JobStep
<1>2. CASE TakeTurn \/ CompactNow \/ Maintain \/ TakeWaiting
  BY <1>2, TurnsMemory
<1>3. CASE \E source \in Requests, limited \in BOOLEAN : Ask(source, limited)
  BY <1>3, AskMemory
<1>4. CASE AskReset \/ BackoffEnds \/ Interrupt \/ Throws \/ Crash
  BY <1>4, AskMemory, WorldMemory, FallMemory
<1>5. CASE \E f \in Facts : Read(f) \/ NoteDown(f) \/ ReadNote(f) \/ Deleted(f)
  BY <1>5, ReadMemory, NoteDownMemory, ReadNoteMemory, DeletedMemory
<1>6. CASE \E m \in {"own", "other", "none"} : ModelChanges(m)
  BY <1>6, WorldMemory
<1>7. CASE UNCHANGED vars
  <2>1. Small' /\ Steady /\ torn' = torn /\ job' = job
    BY <1>7, SmallStutters DEF vars, disk, history, Steady, MemoryInv
  <2> QED BY <2>1, AsideMemory
<1> QED BY <1>1, <1>2, <1>3, <1>4, <1>5, <1>6, <1>7 DEF Next
-----------------------------------------------------------------------------
(* Nothing is lost and nothing comes back *)

LEMMA MemoryIsInvariant == Spec => []MemoryInv
<1>1. Init => MemoryInv
  BY MemoryAssumption, InitMemory
<1>2. MemoryInv /\ [Next]_vars => MemoryInv'
  BY MemoryAssumption, NextMemory
<1> QED BY <1>1, <1>2, PTL DEF Spec

\* A message whose deletion stood on state.json's list (life.ts, deletedReadIds)
\* when a compaction read her state is left out of the summary and the turns her
\* next epoch starts from, or still stands on the list: over failed summaries,
\* carried turns, scrubs and crashes.  Not covered, as `slipped` says: a deletion
\* recorded after that read, and one before an epoch of a summary taken as it is.
THEOREM DeletionIsLeftOut == Spec => []DeletedIsLeftOut
<1>1. MemoryInv => DeletedIsLeftOut
  BY DEF MemoryInv
<1> QED BY <1>1, MemoryIsInvariant, PTL

\* After resetLife (livingCast.ts) nothing read before is in her summary, nor in
\* her log once the fresh epoch has begun: no job that had read it writes it back.
THEOREM ResetIsClean == Spec => []ResetLeavesNothing
<1>1. MemoryInv => ResetLeavesNothing
  <2> SUFFICES ASSUME MemoryInv PROVE ResetLeavesNothing
    OBVIOUS
  <2>1. CASE revived
    BY <2>1 DEF ResetLeavesNothing
  <2>2. CASE ~revived
    <3>1. reset \cap state.summary = {} /\ (PendingNow = "no" => reset \cap ToSet(log) = {})
      BY <2>2 DEF MemoryInv, ResetStands
    <3>2. state.pending = "no" => PendingNow = "no"
      BY DEF MemoryInv, Small, ReadStands, PendingNow
    <3> QED BY <3>1, <3>2 DEF ResetLeavesNothing, ResetIsFinal
  <2> QED BY <2>1, <2>2
<1> QED BY <1>1, MemoryIsInvariant, PTL

\* What the next step may take from her: only what is about the person, deleted, reset, lost with a
\* summary that failed or that could not hold it, or read in a rest turn before her turns carried over.
LEMMA KeptByStep ==
  ASSUME MemoryAssumption, MemoryInv, Next
  PROVE  KeptUnless(torn, rested)
<1>1. Small /\ Types
  BY DEF MemoryInv, Small
<1>2. ASSUME Remembered \subseteq Remembered' PROVE KeptUnless(torn, rested)
  BY <1>2 DEF KeptUnless
<1>3. ASSUME state'.summary = state.summary, log' = log PROVE KeptUnless(torn, rested)
  BY <1>2, <1>3 DEF Remembered
<1>4. CASE EpochState
  <2>1. job.pc = "state" /\ next = job.kept
    BY <1>1, <1>4, EpochStateJob DEF Small, EpochStands
  <2>2. Remembered' = job.text \cup ToSet(job.kept)
    BY <1>1, <1>4, <2>1, TypesOf DEF EpochState, StateType, Remembered
  <2>3. job.cause \in {"carried", "summary", "truncated", "rest", "forget", "reset"}
    BY <1>1, <2>1, TypesOf, JobTypes DEF Small, EpochStands, Starting, Causes
  <2>4. /\ job.cause = "carried" => Remembered \subseteq job.text \cup ToSet(job.kept) \cup gone \cup About \cup rested
        /\ job.cause = "summary" => Remembered \subseteq job.text \cup gone \cup About \cup job.seen.cut
        /\ job.cause = "rest" => Remembered \subseteq job.text
        /\ job.cause = "forget" /\ ~torn => Remembered \subseteq job.text \cup About
    BY <2>1 DEF MemoryInv, EpochIsWhole, Starting
  <2>5. CASE torn \/ job.cause \in {"truncated", "reset"}
    BY <2>5 DEF KeptUnless
  <2>6. CASE job.cause = "carried"
    BY <2>2, <2>4, <2>6 DEF KeptUnless
  <2>7. CASE job.cause = "summary"
    BY <2>2, <2>4, <2>7 DEF KeptUnless
  <2>8. CASE ~torn /\ job.cause \in {"rest", "forget"}
    BY <2>2, <2>4, <2>8 DEF KeptUnless
  <2> QED BY <2>3, <2>5, <2>6, <2>7, <2>8
<1>5. CASE Scrubbed
  <2>1. job.seen.summary = state.summary /\ job.seen.log = log /\ job.seen.cut = {}
    BY <1>1, <1>5 DEF Small, ReadStands, Reading, Scrubbed, At
  <2>2. Remembered \ About \subseteq Remembered' /\ log' = log
    BY <1>1, <1>5, <2>1, TypesOf DEF Scrubbed, Summarised, StateType, Remembered
  <2> QED BY <2>2 DEF KeptUnless
<1>6. CASE TakeBack
  <2>1. job.seen.summary = state.summary
    BY <1>1, <1>6 DEF Small, ReadStands, Reading, TakeBack, At
  <2>2. state'.summary = state.summary /\ log' = log
    BY <1>1, <1>6, <2>1, TypesOf DEF TakeBack, StateType
  <2> QED BY <1>3, <2>2
<1>7. CASE DropLogs
  <2>1. job.pc = "drop" /\ OfTheRun /\ state' = state /\ log' \in {<<>>, log}
    BY <1>1, <1>7 DEF Small, RunStands, DropLogs, At
  <2>2. CASE torn
    BY <2>2 DEF KeptUnless
  <2>3. CASE ~torn
    <3>1. ToSet(log) \subseteq state.summary \cup About
      BY <2>1, <2>3 DEF MemoryInv, LogIsSummed, PendingNow
    <3> QED BY <2>1, <3>1 DEF KeptUnless, Remembered
  <2> QED BY <2>2, <2>3
<1>8. CASE Reset
  <2>1. job.kind = "reset"
    BY <1>1, <1>8, ResetJob DEF Small, EpochStands
  <2> QED BY <2>1 DEF KeptUnless
<1>9. CASE (\E f \in Facts : Read(f)) \/ (\E f \in Facts : ReadNote(f))
  <2>1. PICK f \in Facts : Read(f) \/ ReadNote(f)
    BY <1>9
  <2>2. state'.summary = state.summary /\ log' = Append(log, f)
    BY <1>1, <2>1, TypesOf DEF Read, ReadNote, StateType
  <2>3. ToSet(log) \subseteq ToSet(log')
    BY <1>1, <2>2, LogAppend, TypesOf
  <2> QED BY <1>2, <2>2, <2>3 DEF Remembered
<1>10. CASE CondenseFails \/ ScrubFails \/ EpochLeft \/ StartEpochNow \/ BackoffEnds \/ \E f \in Facts : Deleted(f)
  <2>1. state'.summary = state.summary /\ log' = log
    BY <1>1, <1>10, TypesOf DEF CondenseFails, ScrubFails, EpochLeft, StartEpochNow, BackoffEnds, Deleted,
       StateType
  <2> QED BY <1>3, <2>1
<1>11. CASE \/ Prepare \/ Condensed \/ CondenseAborted \/ MidTurnCompaction \/ Rests \/ EpochLog \/ EpochPrune \/ EndTurn \/ ScrubReads
            \/ ScrubWithoutModel \/ ScrubAborted \/ ScrubNotes \/ Verify \/ Clear
  <2>1. state' = state /\ log' = log
    BY <1>11 DEF Prepare, Condensed, CondenseAborted, MidTurnCompaction, Rests, EpochLog, EpochPrune, EndTurn, ScrubReads,
       ScrubWithoutModel,
                 ScrubAborted, ScrubNotes, Verify, Clear, disk
  <2> QED BY <1>3, <2>1
<1>12. CASE \/ TakeTurn \/ CompactNow \/ Maintain \/ TakeWaiting \/ AskReset \/ Interrupt \/ Throws \/ Crash
            \/ (\E source \in Requests, limited \in BOOLEAN : Ask(source, limited))
            \/ (\E f \in Facts : NoteDown(f)) \/ (\E m \in {"own", "other", "none"} : ModelChanges(m))
  <2>1. state' = state /\ log' = log
    BY <1>12 DEF TakeTurn, CompactNow, Maintain, TakeWaiting, AskReset, Interrupt, Throws, Crash,
       Ask, NoteDown,
                 ModelChanges, disk
  <2> QED BY <1>3, <2>1
<1> QED BY <1>4, <1>5, <1>6, <1>7, <1>8, <1>9, <1>10, <1>11, <1>12 DEF Next, JobStep

\* No forget, no interruption and no crash takes from her what somebody else
\* said: each step of an epoch (compaction.ts), before a turn or inside one, or
\* of a scrub (forget.ts) keeps it in her summary or her log, unless a failed
\* scrub could not be taken back.  What else she may lose is named by KeptUnless:
\* to a failed summary, to one its last result did not fit in, to a rest.
THEOREM MemoryKept == Spec => MemoryIsKept
<1>1. MemoryInv /\ [Next]_vars => [KeptUnless(torn, rested)]_vars
  BY MemoryAssumption, KeptByStep
<1> QED BY <1>1, MemoryIsInvariant, PTL DEF Spec, MemoryIsKept
-----------------------------------------------------------------------------
(* What was asked for is done: the queue and the run *)

\* A run of the queue stays one.
LEMMA RunsStill ==
  ASSUME queue' = queue, Due("everything")' \subseteq Due("everything"), NEW r, RunsQueue(r)
  PROVE  RunsQueue(r)'
BY DEF RunsQueue

LEMMA QueueSame ==
  ASSUME MemoryAssumption, QueueStands, queue' = queue, asks' = asks, waiting' \subseteq waiting \cup {ResetRun},
         job'.run \in {job.run, NoRun}, asks \in Nat, Due("everything")' \subseteq Due("everything")
  PROVE  QueueStands'
<1>1. NoRun.at = 0
  BY NoJobIs
<1>2. queue.at <= asks /\ job'.run.at <= asks
  BY <1>1 DEF QueueStands
<1>3. job'.run # NoRun /\ job'.run.at = queue.at => RunsQueue(job'.run)
  BY DEF QueueStands
<1>4. ASSUME NEW r \in waiting' \ {ResetRun}
      PROVE  r.at \in 1..asks /\ (r.at = queue.at => RunsQueue(r) /\ job'.run.at # r.at)
  <2>1. r \in waiting \ {ResetRun}
    BY <1>4
  <2> HIDE DEF NoRun, ResetRun
  <2> QED BY <1>1, <2>1 DEF QueueStands
<1>5. \A r : RunsQueue(r) => RunsQueue(r)'
  BY RunsStill
<1>6. \A r, s \in waiting' \ {ResetRun} : s.at = r.at => s = r
  <2> HIDE DEF ResetRun
  <2> QED BY DEF QueueStands
<1> HIDE DEF NoRun, ResetRun
<1> QED BY <1>2, <1>3, <1>4, <1>5, <1>6 DEF QueueStands, RunsQueue

LEMMA QueueRuns ==
  ASSUME MemoryAssumption, QueueStands, queue' = queue, asks' = asks, waiting' = {},
         job'.run \in {RunOf(queue), NoRun}, asks \in Nat
  PROVE  QueueStands'
<1>1. NoRun.at = 0 /\ RunOf(queue).at = queue.at
  BY NoJobIs DEF RunOf
<1>2. queue.at <= asks /\ job'.run.at <= asks
  BY <1>1 DEF QueueStands
<1>3. job'.run = RunOf(queue) => RunsQueue(job.run)'
  BY DEF RunsQueue, RunOf
<1> HIDE DEF NoRun, RunOf
<1> QED BY <1>1, <1>2, <1>3 DEF QueueStands

LEMMA QueueTakes ==
  ASSUME MemoryAssumption, Small, QueueStands, TakeWaiting
  PROVE  QueueStands'
<1>1. Types /\ asks \in Nat /\ UNCHANGED <<queue, asks, due, excused>>
  BY TypesOf DEF TakeWaiting, disk, counts, history, Small, MemoryAssumption
<1> DEFINE same == Due("everything")' = Due("everything")
<1>5. same
  BY <1>1 DEF Due
<1>2. PICK run \in waiting :
        /\ waiting' = waiting \ {run}
        /\ \/ run = ResetRun /\ Begun("reset", "reset", NoRun)
           \/ run # ResetRun /\ run \in Runs /\ Begun("forget", FirstStep(run), run)
  BY <1>1, TakeWaitingJob
<1>3. CASE Begun("reset", "reset", NoRun)
  <2>1. job'.run = NoRun
    BY <1>3 DEF Begun
  <2> QED BY <1>1, <1>2, <1>5, <2>1, QueueSame
<1>4. CASE run # ResetRun /\ Begun("forget", FirstStep(run), run)
  <2>1. job'.run = run
    BY <1>4 DEF Begun
  <2>2. /\ run.at \in 1..asks /\ (run.at = queue.at => RunsQueue(run)) /\ queue.at <= asks
        /\ \A r \in waiting \ {ResetRun} : r.at \in 1..asks /\ (r.at = queue.at => RunsQueue(r))
        /\ \A r, s \in waiting \ {ResetRun} : s.at = r.at => s = r
    BY <1>4 DEF QueueStands
  <2>3. ASSUME NEW r \in waiting' \ {ResetRun}, r.at = queue.at PROVE run.at # r.at
    <3>1. r \in waiting \ {ResetRun} /\ run \in waiting \ {ResetRun} /\ r # run
      BY <1>2, <1>4, <2>3
    <3> HIDE DEF ResetRun
    <3> QED BY <2>2, <3>1
  <2>4. run.at <= asks /\ waiting' \subseteq waiting
    BY <1>1, <1>2, <2>2
  <2>5. \A r : RunsQueue(r) => RunsQueue(r)'
    BY <1>1, <1>5, RunsStill
  <2> HIDE DEF NoRun, ResetRun
  <2> QED BY <1>1, <2>1, <2>2, <2>3, <2>4, <2>5 DEF QueueStands, RunsQueue
<1> QED BY <1>2, <1>3, <1>4

Merged(source) == IF Rank[queue.source] > Rank[source] THEN queue.source ELSE source

\* What asking for a forget makes due, and what it excuses.
LEMMA AskIs ==
  ASSUME MemoryAssumption, Small, NEW source \in Requests, NEW limited \in BOOLEAN, Ask(source, limited)
  PROVE /\ queue' = [source |-> Merged(source), steps |-> Steps, at |-> asks + 1] /\ asks' = asks + 1
        /\ Merged(source) \in Requests /\ (Merged(source) = "conversation" => source = "conversation")
        /\ source # "conversation" => Merged(source) # "conversation"
        /\ Merged(source) = "conversation" => queue.source = "conversation"
        /\ DOMAIN due' = {"conversation", "everything"}
        /\ due'["conversation"] = known \cap About /\ excused'["conversation"] = {}
        /\ source = "conversation" => due'["everything"] = due["everything"]
        /\ source # "conversation" => due'["everything"] = known \cap About /\ excused'["everything"] = {}
        /\ source = "conversation" /\ Merged(source) = source => excused'["everything"] = excused["everything"]
        /\ source = "conversation" /\ Merged(source) # source /\ ~limited => excused'["everything"] = due["everything"]
<1>1. DOMAIN due = {"conversation", "everything"} /\ queue.source \in Requests
  BY TypesOf DEF Small, HistoryTypes
<1>2. /\ Merged(source) \in Requests /\ (source # "conversation" => Merged(source) # "conversation")
      /\ Merged(source) = "conversation" => queue.source = "conversation" /\ source = "conversation"
  BY <1>1 DEF Merged, Requests, Rank
<1>3. /\ queue' = [source |-> Merged(source), steps |-> Steps, at |-> asks + 1] /\ asks' = asks + 1
      /\ due' = [r \in DOMAIN due |->
                   IF r = "conversation" \/ source # "conversation" THEN known \cap About ELSE due[r]]
      /\ excused' = [r \in DOMAIN due |->
                       IF r = "conversation" \/ source # "conversation" THEN {}
                       ELSE IF ~limited /\ Merged(source) # source THEN due[r] ELSE excused[r]]
  BY DEF Ask, Merged
<1> HIDE DEF Merged
<1> QED BY <1>1, <1>2, <1>3

LEMMA QueueAsks ==
  ASSUME MemoryAssumption, Small, QueueStands, NEW source \in Requests, NEW limited \in BOOLEAN, Ask(source, limited)
  PROVE  QueueStands'
<1> DEFINE run == [at |-> asks + 1, scope |-> Scope(source), steps |-> Steps]
<1>1. Types /\ asks \in Nat /\ queue.source \in Requests
  BY TypesOf DEF Small, MemoryAssumption
<1>2. queue' = [source |-> Merged(source), steps |-> Steps, at |-> asks + 1] /\ asks' = asks + 1
  BY AskIs
<1>3. run.at = asks + 1 /\ queue'.at = asks + 1
  BY <1>2
<1>4. waiting' \subseteq waiting \cup {run} /\ (limited => waiting' = waiting)
  BY DEF Ask
<1>5. ASSUME NEW r, r = run, ~limited PROVE RunsQueue(r)'
  <2>1. r.steps = queue'.steps /\ r.scope = Scope(source)
    BY <1>2, <1>5
  <2>2. CASE Scope(source) = Scope(Merged(source))
    BY <1>2, <2>1, <2>2 DEF RunsQueue
  <2>3. CASE Scope(source) # Scope(Merged(source))
    <3>1. source = "conversation" /\ Merged(source) # source
      BY <2>3, AskIs DEF Scope
    <3>2. Due("everything")' = {}
      BY <1>5, <3>1, AskIs DEF Due
    <3> QED BY <2>1, <3>2 DEF RunsQueue
  <2> QED BY <2>2, <2>3
<1>7. job'.run = job.run
  <2>1. AbortTurn \/ job' = job
    BY DEF Ask
  <2> QED BY <1>1, <2>1, AbortIs DEF Types, Moved, Stays
<1>8. job.run.at <= asks /\ job.run.at \in Nat /\ \A r \in waiting \ {ResetRun} : r.at \in 1..asks
  BY <1>1, TypesOf, JobTypes DEF QueueStands
<1>9. job'.run.at <= asks' /\ job'.run.at # queue'.at
  BY <1>1, <1>2, <1>3, <1>7, <1>8
<1>10. ASSUME NEW r \in waiting' \ {ResetRun}
       PROVE  r.at \in 1..asks' /\ (r.at = queue'.at => RunsQueue(r)' /\ job'.run.at # r.at)
  <2>1. CASE r = run /\ ~limited
    BY <1>1, <1>2, <1>3, <1>5, <1>9, <2>1
  <2>2. CASE r \in waiting
    <3>1. r.at \in 1..asks
      BY <1>8, <1>10, <2>2
    <3> QED BY <1>1, <1>2, <1>3, <3>1
  <2> QED BY <1>4, <1>10, <2>1, <2>2
<1>11. queue'.at <= asks'
  BY <1>1, <1>2, <1>3
<1>12. ASSUME NEW r \in waiting' \ {ResetRun}, NEW s \in waiting' \ {ResetRun}, s.at = r.at PROVE s = r
  <2>1. \A x \in waiting' \ {ResetRun} : x = run \/ (x \in waiting \ {ResetRun} /\ x.at # run.at)
    <3>1. \A x \in waiting \ {ResetRun} : x.at # asks + 1
      BY <1>1, <1>8
    <3> HIDE DEF ResetRun
    <3> QED BY <1>3, <1>4, <3>1
  <2> HIDE DEF ResetRun, run
  <2> QED BY <1>12, <2>1 DEF QueueStands
<1> HIDE DEF NoRun, ResetRun, run
<1> QED BY <1>9, <1>10, <1>11, <1>12 DEF QueueStands, RunsQueue

LEMMA QueueClears ==
  ASSUME MemoryAssumption, Small, QueueStands, Clear
  PROVE  QueueStands'
<1>1. Types /\ asks \in Nat /\ job.run # NoRun
  <2>1. Types /\ job.run.steps # {}
    BY DEF Clear, At, Small, RunStands, Scrubbing
  <2>2. asks \in Nat
    BY <2>1, TypesOf DEF MemoryAssumption
  <2>3. NoRun.steps = {}
    BY NoJobIs
  <2> HIDE DEF NoRun
  <2> QED BY <2>1, <2>2, <2>3
<1>2. UNCHANGED <<waiting, asks, due, excused>>
      /\ queue' = IF queue.at # job.run.at THEN queue
                  ELSE IF job.left = {} THEN NoScrub ELSE [queue EXCEPT !.steps = job.left]
  BY DEF Clear, counts, history
<1>3. job'.run = NoRun
  BY <1>1, ClearJob DEF Over, Begun
<1>4. CASE queue.at # job.run.at
  <2>1. Due("everything")' = Due("everything")
    BY <1>2 DEF Due
  <2> QED BY <1>1, <1>2, <1>3, <1>4, <2>1, QueueSame
<1>5. CASE queue.at = job.run.at
  <2>1. queue'.at \in {0, queue.at} /\ NoRun.at = 0
    BY <1>1, <1>2, NoJobIs, TypesOf DEF NoScrub
  <2>2. ASSUME NEW r \in waiting \ {ResetRun} PROVE r.at \in 1..asks /\ r.at # queue'.at
    BY <1>5, <2>1, <2>2 DEF QueueStands
  <2>3. queue'.at <= asks
    BY <1>1, <2>1 DEF QueueStands
  <2>4. \A r, s \in waiting \ {ResetRun} : s.at = r.at => s = r
    <3> HIDE DEF ResetRun
    <3> QED BY DEF QueueStands
  <2> HIDE DEF NoRun, ResetRun
  <2> QED BY <1>1, <1>2, <1>3, <2>1, <2>2, <2>3, <2>4 DEF QueueStands
<1> QED BY <1>4, <1>5

-----------------------------------------------------------------------------
(* What a run has done stays done *)

\* A job that runs no scrub, or has only begun one, has done nothing.
LEMMA BegunHasDone ==
  ASSUME MemoryAssumption, NEW k, NEW p, NEW r, Begun(k, p, r),
         p \in {"idle", "prepare", "reading", "reset", "summary", "notes"}, p = "notes" => "summary" \notin r.steps
  PROVE  RunHasDone'
<1>1. job'.pc = p /\ job'.run = r /\ job'.left = {}
  BY DEF Begun
<1> QED BY <1>1 DEF RunHasDone, PastSummary, OfTheRun, SummaryDone

LEMMA FirstHasDone ==
  ASSUME MemoryAssumption, NEW k, NEW r, Begun(k, FirstStep(r), r)
  PROVE  RunHasDone'
<1>1. FirstStep(r) \in {"summary", "notes"} /\ (FirstStep(r) = "notes" => "summary" \notin r.steps)
  BY DEF FirstStep
<1> HIDE DEF FirstStep
<1> QED BY <1>1, BegunHasDone

LEMMA OverHasDone ==
  ASSUME MemoryAssumption, Over
  PROVE  RunHasDone'
BY BegunHasDone DEF Over

LEMMA AloneHasDone ==
  ASSUME MemoryAssumption, job'.run = NoRun, job'.pc \notin {"prune", "drop"}
  PROVE  RunHasDone'
BY NoJobIs DEF RunHasDone, OfTheRun, SummaryDone

LEMMA SameHasDone ==
  ASSUME RunHasDone, Moved(job.pc), state'.summary = state.summary, state'.pending = state.pending,
         UNCHANGED <<log, next, old, notes, unpruned>>
  PROVE  RunHasDone'
<1>1. job'.pc = job.pc /\ job'.run = job.run /\ job'.left = job.left /\ job'.cause = job.cause
  BY DEF Moved, Stays
<1>2. (OfTheRun' <=> OfTheRun) /\ Deletables' = Deletables
  BY <1>1 DEF OfTheRun, SummaryDone, Deletables, Logged
<1> QED BY <1>1, <1>2 DEF RunHasDone, PastSummary

\* A scrub before its summary, and one whose summary is left over.
LEMMA SummaryHasDone ==
  ASSUME job'.run = job.run,
         \/ job'.pc \in {"summary", "writing", "failing", "revert"}
         \/ job'.left = {"summary"} /\ job'.pc = AfterSummary({"summary"})
  PROVE  RunHasDone'
<1>1. CASE job'.pc \in {"summary", "writing", "failing", "revert"}
  BY <1>1 DEF RunHasDone, PastSummary
<1>2. CASE job'.left = {"summary"} /\ job'.pc = AfterSummary({"summary"})
  <2>1. ~OfTheRun' /\ job'.pc \in {"notes", "verify", "clear"}
    BY <1>2 DEF OfTheRun, SummaryDone, AfterSummary
  <2>2. job.run.scope = "everything" /\ "notes" \in job.run.steps => job'.pc = "notes"
    BY <1>2 DEF AfterSummary
  <2> QED BY <2>1, <2>2 DEF RunHasDone
<1> QED BY <1>1, <1>2

LEMMA ScrubbedHasDone ==
  ASSUME MemoryAssumption, Small, Scrubbed
  PROVE  RunHasDone'
<1>1. Types
  BY DEF Small
<1>2. job.pc = "writing" /\ job'.pc = AfterSummary({}) /\ job'.run = job.run /\ job'.left = job.left
  BY <1>1, ScrubbedJob DEF LeavesOut, Stays
<1>3. state'.summary \cap About = {}
  BY <1>1, TypesOf DEF Scrubbed, StateType, Summarised
<1>4. job'.pc \in {"notes", "verify", "epoch"}
  BY <1>2 DEF AfterSummary
<1>5. job.run.scope = "everything" /\ "notes" \in job.run.steps => job'.pc = "notes"
  BY <1>2 DEF AfterSummary
<1> QED BY <1>2, <1>3, <1>4, <1>5 DEF RunHasDone

LEMMA EpochHasDone ==
  ASSUME MemoryAssumption, Small, RunHasDone, EpochLog \/ EpochState \/ EpochPrune
  PROVE  RunHasDone'
<1>1. Types
  BY DEF Small
<1>2. CASE EpochLog
  <2>1. job.pc = "log" /\ job'.pc = "state" /\ job'.run = job.run /\ job'.left = job.left
    BY <1>1, <1>2, EpochLogJob DEF Moved, Stays
  <2>2. state' = state /\ notes' = notes
    BY <1>2 DEF EpochLog
  <2> QED BY <2>1, <2>2 DEF RunHasDone, PastSummary, OfTheRun, SummaryDone
<1>3. CASE EpochState
  <2>1. job.pc = "state" /\ job'.pc = "prune" /\ job'.run = job.run /\ job'.left = job.left /\ job'.cause = job.cause
    BY <1>1, <1>3, EpochStateJob DEF Stays
  <2>2. state'.summary = job.text /\ log' = job.kept /\ notes' = notes
    BY <1>1, <1>3, <2>1, TypesOf DEF EpochState, StateType, Small, EpochStands
  <2>3. job.cause = "forget" => job.kept = <<>> /\ job.text \subseteq state.summary
    BY <2>1 DEF Small, EpochStands, Starting
  <2>4. OfTheRun' => OfTheRun /\ job.cause = "forget"
    <3>1. OfTheRun' <=> OfTheRun
      BY <2>1 DEF OfTheRun, SummaryDone
    <3>2. OfTheRun => job.run # NoRun
      BY NoJobIs DEF OfTheRun, SummaryDone
    <3> QED BY <2>1, <3>1, <3>2 DEF Small, RunStands, Starting
  <2> QED BY <2>1, <2>2, <2>3, <2>4 DEF RunHasDone, PastSummary
<1>4. CASE EpochPrune
  <2>1. job.pc = "prune" /\ GoesOn /\ UNCHANGED <<state, log, next, notes>>
        /\ (job.cause = "forget" => old' = {} \/ (old' = old /\ unpruned' = unpruned \cup old))
    BY <1>4 DEF EpochPrune, At
  <2>2. CASE job.run # NoRun /\ Moved("clear")
    <3>1. job'.pc = "clear" /\ job'.run = job.run /\ job'.left = job.left
      BY <2>2 DEF Moved, Stays
    <3>2. log = <<>> /\ next = <<>> /\ job.cause = "forget"
      BY <2>1, <2>2 DEF RunHasDone, Small, EpochStands, RunStands
    <3>3. Deletables' = {} /\ ToSet(log') = {}
      BY <2>1, <3>2, EmptyLog DEF Deletables, Logged
    <3> QED BY <2>1, <3>1, <3>3 DEF RunHasDone, PastSummary, OfTheRun, SummaryDone
  <2>3. CASE Over
    BY <2>3, OverHasDone
  <2> QED BY <1>1, <2>1, <2>2, <2>3, GoesOnJob
<1> QED BY <1>2, <1>3, <1>4

LEMMA NotesHasDone ==
  ASSUME MemoryAssumption, Small, RunHasDone, ScrubNotes \/ Verify
  PROVE  RunHasDone'
<1>1. Types
  BY DEF Small
<1>2. CASE ScrubNotes
  <2>1. job.pc = "notes" /\ state' = state
    BY <1>2 DEF ScrubNotes, At
  <2>2. CASE Moved("verify") /\ notes' = notes \ About
    <3>1. job'.pc = "verify" /\ job'.run = job.run /\ job'.left = job.left
      BY <2>2 DEF Moved, Stays
    <3> QED BY <2>1, <2>2, <3>1 DEF RunHasDone, PastSummary, OfTheRun, SummaryDone
  <2>3. CASE notes' = notes /\
             LeavesOut(job.left \cup {"notes"},
                       IF "files" \in job.run.steps \/ SummaryDone(job.left) THEN "verify" ELSE "clear")
    <3>1. /\ job'.run = job.run /\ job'.left = job.left \cup {"notes"} /\ job'.pc \in {"verify", "clear"}
          /\ job'.pc = "clear" => ~OfTheRun
      BY <2>3 DEF LeavesOut, Stays, OfTheRun
    <3>2. OfTheRun' <=> OfTheRun
      BY <3>1 DEF OfTheRun, SummaryDone
    <3> QED BY <2>1, <3>1, <3>2 DEF RunHasDone, PastSummary
  <2> QED BY <1>1, <1>2, <2>2, <2>3, ScrubNotesJob
<1>3. CASE Verify
  <2>1. /\ job.pc = "verify" /\ job'.run = job.run /\ job'.left = job.left
        /\ job'.pc = IF OfTheRun THEN "epoch" ELSE "clear"
    BY <1>1, <1>3, VerifyJob DEF Moved, Stays, OfTheRun
  <2>2. state' = state /\ notes' \subseteq notes
    BY <1>3 DEF Verify
  <2>3. OfTheRun' <=> OfTheRun
    BY <2>1 DEF OfTheRun, SummaryDone
  <2> QED BY <2>1, <2>2, <2>3 DEF RunHasDone, PastSummary
<1> QED BY <1>2, <1>3

LEMMA StartHasDone ==
  ASSUME MemoryAssumption, Small, RunHasDone, StartEpochNow \/ DropLogs
  PROVE  RunHasDone'
<1>1. Types
  BY DEF Small
<1>2. CASE StartEpochNow
  <2>1. job.pc = "epoch" /\ notes' = notes
    BY <1>2 DEF StartEpochNow, At
  <2>2. /\ job'.run = job.run /\ job'.left = job.left /\ job'.pc \in {"log", "drop"}
        /\ state'.summary = state.summary /\ (job'.pc = "drop" => state'.pending = "forget")
    BY <1>1, <1>2, StartEpochNowJob, TypesOf DEF EpochBegins, Moved, Stays, StateType
  <2> QED BY <2>1, <2>2 DEF RunHasDone, PastSummary, OfTheRun, SummaryDone
<1>3. CASE DropLogs
  <2>1. job.pc = "drop" /\ job'.pc = "clear" /\ job'.run = job.run /\ job'.left = job.left
    BY <1>1, <1>3, DropLogsJob DEF Moved, Stays
  <2>2. /\ \/ log' = <<>> /\ next' = <<>> /\ old' = {}
           \/ unpruned' = unpruned \cup (Logged \cap About) /\ UNCHANGED <<log, next, old>>
        /\ UNCHANGED <<state, notes>>
    BY <1>3 DEF DropLogs
  <2>3. Deletables' \cap About = {} /\ state'.pending # "no"
    BY <2>1, <2>2, EmptyLog DEF Deletables, Logged, RunHasDone
  <2> QED BY <2>1, <2>2, <2>3 DEF RunHasDone, PastSummary, OfTheRun, SummaryDone
<1> QED BY <1>2, <1>3

\* Only her turns bring back what a run has done away with.
LEMMA NextHasDone ==
  ASSUME MemoryAssumption, Small, RunHasDone, [Next]_vars
  PROVE  RunHasDone'
<1>1. Types /\ Stands /\ job \in Jobs
  BY DEF Small, Stands, Types
<1>2. CASE TakeTurn \/ CompactNow \/ Maintain \/ TakeWaiting
  BY <1>1, <1>2, TakeTurnJob, CompactNowJob, MaintainJob, TakeWaitingJob, FirstHasDone, BegunHasDone
<1>3. CASE Prepare \/ Condensed \/ CondenseFails \/ MidTurnCompaction \/ Rests
  <2>1. /\ job.pc \in {"prepare", "condensing", "reading"} /\ job'.run = job.run
        /\ job'.pc \in {"reading", "condensing", "log"}
    BY <1>1, <1>3, PrepareJob, CondensedJob, CondenseFailsJob, MidTurnJob, RestsJob DEF EpochBegins, Moved, Looks, Stays
  <2> QED BY <1>1, <2>1, PreparesAlone, AloneHasDone
<1>4. CASE CondenseAborted \/ EndTurn
  BY <1>4, OverIs, OverHasDone DEF CondenseAborted, EndTurn
<1>5. CASE EpochLog \/ EpochState \/ EpochPrune
  BY <1>5, EpochHasDone
<1>6. CASE ScrubReads \/ ScrubFails \/ EpochLeft
  <2>1. job'.run = job.run /\ job'.pc \in {"writing", "failing", "revert"}
    BY <1>1, <1>6, ScrubReadsJob, ScrubFailsJob, EpochLeftJob DEF Moved, Looks, Stays
  <2> QED BY <2>1, SummaryHasDone
<1>7. CASE ScrubWithoutModel \/ TakeBack \/ ScrubAborted
  <2>1. SummaryWaits
    BY <1>7 DEF ScrubWithoutModel, TakeBack, ScrubAborted
  <2>2. job'.left = {"summary"} /\ job'.pc = AfterSummary({"summary"}) /\ job'.run = job.run
    BY <1>1, <2>1, WaitIs DEF LeavesOut, Stays
  <2> QED BY <2>2, SummaryHasDone
<1>8. CASE Scrubbed
  BY <1>8, ScrubbedHasDone
<1>9. CASE ScrubNotes \/ Verify
  BY <1>9, NotesHasDone
<1>10. CASE StartEpochNow \/ DropLogs
  BY <1>10, StartHasDone
<1>11. CASE Clear
  BY <1>1, <1>11, ClearJob, OverHasDone, BegunHasDone
<1>12. CASE Reset
  <2>1. job.pc = "reset" /\ ((job'.run = job.run /\ job'.pc = "log") \/ Over)
    BY <1>1, <1>12, ResetJob DEF EpochBegins, Stays
  <2> QED BY <1>1, <2>1, PreparesAlone, AloneHasDone, OverHasDone
<1>13. CASE AskReset \/ Interrupt \/ (\E source \in Requests, limited \in BOOLEAN : Ask(source, limited))
             \/ (\E m \in {"own", "other", "none"} : ModelChanges(m)) \/ UNCHANGED vars
  <2>1. UNCHANGED <<state, log, next, old, notes, unpruned>>
        /\ (AbortTurn \/ job' = [job EXCEPT !.abort = TRUE] \/ job' = job)
    BY <1>13 DEF AskReset, Interrupt, Ask, ModelChanges, vars, disk, history
  <2> QED BY <1>1, <2>1, AbortIs, SameHasDone
<1>14. CASE BackoffEnds
  <2>1. /\ state'.summary = state.summary /\ state'.pending = state.pending
        /\ UNCHANGED <<log, next, old, notes, unpruned, job>>
    BY <1>1, <1>14, TypesOf DEF BackoffEnds, StateType, history
  <2> QED BY <1>1, <2>1, AbortIs, SameHasDone
<1>15. CASE \E f \in Facts : Deleted(f)
  <2>1. /\ state'.summary = state.summary /\ state'.pending = state.pending
        /\ UNCHANGED <<log, next, old, notes, unpruned, job>>
    BY <1>1, <1>15, TypesOf DEF Deleted, StateType, history
  <2> QED BY <1>1, <2>1, AbortIs, SameHasDone
<1>16. CASE Throws
  BY <1>1, <1>16, ThrowsJob, OverHasDone, BegunHasDone
<1>17. CASE Crash
  BY <1>1, <1>17, CrashJob, OverHasDone, FirstHasDone
<1>18. CASE \E f \in Facts : Read(f) \/ NoteDown(f) \/ ReadNote(f)
  <2>1. job.pc = "reading" /\ job' = job /\ job'.pc = "reading"
    BY <1>18 DEF Read, NoteDown, ReadNote, At
  <2> QED BY <1>1, <2>1, PreparesAlone, AloneHasDone
<1> QED BY <1>2, <1>3, <1>4, <1>5, <1>6, <1>7, <1>8, <1>9, <1>10, <1>11, <1>12, <1>13, <1>14,
           <1>15, <1>16, <1>17, <1>18
        DEF Next, JobStep

\* What a turn passes between her memory and her notes.
LEMMA NotedDue ==
  ASSUME Types, NEW f \in Facts, NoteDown(f)
  PROVE /\ Due("conversation")' = Due("conversation") /\ Due("everything")' \subseteq Due("everything")
        /\ LeftWithout("notes") => f \notin Due("everything")'
<1>1. DOMAIN due = {"conversation", "everything"} /\ DOMAIN excused = DOMAIN due
  BY DEF Types, HistoryTypes
<1>2. /\ due' = due
      /\ excused' = IF LeftWithout("notes") THEN [excused EXCEPT !["everything"] = @ \cup ({f} \cap due["everything"])]
                                           ELSE excused
  BY DEF NoteDown
<1> HIDE DEF LeftWithout
<1> QED BY <1>1, <1>2 DEF Due

LEMMA NoteReadDue ==
  ASSUME Types, NEW f \in Facts, ReadNote(f)
  PROVE /\ Due("everything")' \subseteq Due("everything") /\ Due("conversation")' \subseteq Due("conversation")
        /\ queue = NoScrub \/ LeftWithout("summary") => f \notin Due("conversation")'
        /\ queue # NoScrub /\ Due("everything") \subseteq Due("conversation") =>
             Due("everything")' \subseteq Due("conversation")'
<1>1. DOMAIN due = {"conversation", "everything"} /\ DOMAIN excused = DOMAIN due
  BY DEF Types, HistoryTypes
<1>2. /\ due' = IF queue = NoScrub THEN [due EXCEPT !["conversation"] = @ \ {f}] ELSE due
      /\ excused' = IF LeftWithout("summary") THEN [r \in DOMAIN due |-> excused[r] \cup ({f} \cap due[r])] ELSE excused
      /\ LeftWithout("summary") => queue # NoScrub
  BY DEF ReadNote, LeftWithout
<1> HIDE DEF LeftWithout, NoScrub
<1> QED BY <1>1, <1>2 DEF Due

LEMMA NextQueue ==
  ASSUME MemoryAssumption, Small, QueueStands, [Next]_vars
  PROVE  QueueStands'
<1>1. Types /\ Stands /\ job \in Jobs /\ asks \in Nat
  BY TypesOf DEF Small, Stands, Types, MemoryAssumption
<1>10. ASSUME UNCHANGED <<due, excused>> PROVE Due("everything")' \subseteq Due("everything")
  BY <1>10 DEF Due
<1>2. CASE TakeTurn \/ CompactNow \/ Maintain \/ Crash
  <2>1. queue' = queue /\ asks' = asks /\ waiting' = {}
    BY <1>2 DEF TakeTurn, CompactNow, Maintain, Crash, Free, disk, counts
  <2>2. job'.run \in {RunOf(queue), NoRun}
    BY <1>1, <1>2, TakeTurnJob, CompactNowJob, MaintainJob, CrashJob DEF Begun, Over
  <2> HIDE DEF NoRun, RunOf
  <2> QED BY <1>1, <2>1, <2>2, QueueRuns
<1>3. CASE TakeWaiting
  BY <1>3, QueueTakes
<1>4. CASE \E source \in Requests, limited \in BOOLEAN : Ask(source, limited)
  BY <1>4, QueueAsks
<1>5. CASE Clear
  BY <1>5, QueueClears
<1>6. CASE \/ Prepare \/ Condensed \/ CondenseFails \/ MidTurnCompaction \/ Rests \/ EpochLog \/ EpochState
           \/ ScrubReads \/ Scrubbed \/ ScrubFails \/ EpochLeft \/ ScrubNotes \/ Verify \/ StartEpochNow \/ DropLogs
  <2>1. UNCHANGED <<queue, asks, waiting, due, excused>>
    <3>1. CASE Prepare \/ Condensed \/ CondenseFails \/ Rests \/ EpochLog \/ EpochState \/ ScrubReads \/ Scrubbed
      BY <3>1 DEF Prepare, Condensed, CondenseFails, Rests, EpochLog, EpochState, ScrubReads, Scrubbed, disk, counts,
         history
    <3>2. CASE ScrubFails \/ EpochLeft \/ ScrubNotes \/ Verify \/ StartEpochNow \/ DropLogs
      BY <3>2 DEF ScrubFails, EpochLeft, ScrubNotes, Verify, StartEpochNow, DropLogs, disk, counts, history
    <3>3. CASE MidTurnCompaction
      <4>1. UNCHANGED <<disk, waiting, asks, history>>
        BY <3>3 DEF MidTurnCompaction
      <4> QED BY <4>1 DEF disk, history
    <3> QED BY <1>6, <3>1, <3>2, <3>3
  <2>2. job'.run = job.run
    BY <1>1, <1>6, PrepareJob, CondensedJob, CondenseFailsJob, MidTurnJob, RestsJob, EpochLogJob, EpochStateJob,
       ScrubReadsJob, ScrubbedJob, ScrubFailsJob, EpochLeftJob, ScrubNotesJob, VerifyJob, StartEpochNowJob, DropLogsJob
       DEF EpochBegins, Moved, Looks, LeavesOut, Stays
  <2> QED BY <1>1, <1>10, <2>1, <2>2, QueueSame
<1>7. CASE ScrubWithoutModel \/ TakeBack \/ ScrubAborted
  <2>1. UNCHANGED <<queue, asks, waiting, due, excused>> /\ SummaryWaits
    BY <1>7 DEF ScrubWithoutModel, TakeBack, ScrubAborted, disk, counts, history
  <2>2. job'.run = job.run
    BY <1>1, <2>1, WaitIs DEF LeavesOut, Stays
  <2> QED BY <1>1, <1>10, <2>1, <2>2, QueueSame
<1>8. CASE CondenseAborted \/ EndTurn \/ EpochPrune \/ Reset \/ Throws
  <2>1. UNCHANGED <<queue, asks, waiting, due, excused>>
    BY <1>8 DEF CondenseAborted, EndTurn, EpochPrune, Reset, Throws, disk, counts, history
  <2>2. job'.run \in {job.run, NoRun}
    <3>1. CASE CondenseAborted \/ EndTurn
      BY <3>1, OverIs DEF CondenseAborted, EndTurn, Over, Begun
    <3>2. CASE EpochPrune
      BY <1>1, <3>2, GoesOnJob DEF EpochPrune, Over, Begun, Moved, Stays
    <3>3. CASE Reset \/ Throws
      BY <1>1, <3>3, ResetJob, ThrowsJob DEF Over, Begun, EpochBegins, Stays
    <3> QED BY <1>8, <3>1, <3>2, <3>3
  <2> QED BY <1>1, <1>10, <2>1, <2>2, QueueSame
<1>9. CASE \/ AskReset \/ Interrupt \/ BackoffEnds \/ UNCHANGED vars
           \/ (\E f \in Facts : Read(f) \/ Deleted(f)) \/ (\E m \in {"own", "other", "none"} : ModelChanges(m))
  <2>1. /\ UNCHANGED <<due, excused>> /\ queue' = queue /\ asks' = asks /\ waiting' \subseteq waiting \cup {ResetRun}
        /\ AbortTurn \/ job' = [job EXCEPT !.abort = TRUE] \/ job' = job
    BY <1>9 DEF AskReset, Interrupt, BackoffEnds, Read, Deleted, ModelChanges, vars, disk, counts, history
  <2>2. job'.run = job.run
    BY <1>1, <2>1, AbortIs DEF Moved, Stays
  <2> QED BY <1>1, <1>10, <2>1, <2>2, QueueSame
<1>11. CASE \E f \in Facts : NoteDown(f) \/ ReadNote(f)
  <2>1. PICK f \in Facts : NoteDown(f) \/ ReadNote(f)
    BY <1>11
  <2>2. UNCHANGED <<queue, asks, waiting, job>>
    BY <2>1 DEF NoteDown, ReadNote, counts
  <2>3. Due("everything")' \subseteq Due("everything")
    BY <1>1, <2>1, NotedDue, NoteReadDue
  <2> QED BY <1>1, <2>2, <2>3, QueueSame
<1> QED BY <1>2, <1>3, <1>4, <1>5, <1>6, <1>7, <1>8, <1>9, <1>11 DEF Next, JobStep

-----------------------------------------------------------------------------
(* What is no longer queued is done *)

\* Nothing comes back where nothing is added.
LEMMA ShrinksDone ==
  ASSUME Types, StepsAreDone, UNCHANGED <<queue, due, excused>>, notes' \subseteq notes,
         (Held' \cup Deletables') \cap About \subseteq Held \cup Deletables
  PROVE  StepsAreDone'
<1>1. Due("conversation")' = Due("conversation") /\ Due("everything")' = Due("everything")
  BY DEF Due
<1>2. Due("conversation") \subseteq About /\ Due("everything") \subseteq About
  BY DEF Due, Types, HistoryTypes
<1>3. ConversationDone => ConversationDone'
  BY <1>1, <1>2 DEF ConversationDone, OutOfMemory
<1>4. EverythingDone => EverythingDone'
  BY <1>1, <1>2 DEF EverythingDone, OutOfMemory
<1> HIDE DEF Due, Held, Deletables
<1> QED BY <1>1, <1>3, <1>4 DEF StepsAreDone

\* A step that adds nothing to her summary or a log, and leaves an epoch to start if one was to.
LEMMA SmallerHeld ==
  ASSUME state'.summary \subseteq state.summary, log' = log, PendingNow' # "no" \/ PendingNow' = PendingNow
  PROVE  Held' \subseteq Held
<1> HIDE DEF PendingNow
<1> QED BY DEF Held

LEMMA RestsDone ==
  ASSUME Types, StepsAreDone, UNCHANGED <<log, next, old, unpruned, queue, due, excused>>, notes' \subseteq notes,
         state'.summary \subseteq state.summary, PendingNow' # "no" \/ PendingNow' = PendingNow
  PROVE  StepsAreDone'
<1>1. Held' \subseteq Held /\ Deletables' = Deletables
  BY SmallerHeld DEF Deletables, Logged
<1> HIDE DEF Held, Deletables, PendingNow
<1> QED BY <1>1, ShrinksDone

\* What her log, the next one and her summary take over.
LEMMA EpochDone ==
  ASSUME MemoryAssumption, Small, RunHasDone, StepsAreDone, EpochLog \/ EpochState \/ EpochPrune \/ Scrubbed \/ DropLogs
  PROVE  StepsAreDone'
<1>1. Types /\ EpochStands /\ ReadStands /\ UNCHANGED <<queue, due, excused, notes>>
  BY DEF Small, EpochLog, EpochState, EpochPrune, Scrubbed, DropLogs, history
<1>2. ASSUME job.pc \in Starting PROVE job.text \cup ToSet(job.kept) \subseteq Held
  <2>1. /\ job.text \cup ToSet(job.kept) \subseteq Remembered
        /\ job.cause \in FromHerState => state.pending = "no"
        /\ job.cause \in {"forget", "reset"} => job.kept = <<>> /\ job.text \subseteq state.summary
        /\ job.cause # "none"
    BY <1>1, <1>2 DEF EpochStands
  <2>2. job.cause \in FromHerState \cup {"forget", "reset"}
    BY <1>1, <2>1, TypesOf, JobTypes DEF Causes, FromHerState
  <2>3. PendingNow = state.pending
    BY <1>2 DEF PendingNow, Starting
  <2>4. CASE job.cause \in FromHerState
    BY <2>1, <2>3, <2>4 DEF Held, Remembered
  <2>5. CASE job.cause \in {"forget", "reset"}
    BY <2>1, <2>5, EmptyLog DEF Held
  <2> QED BY <2>2, <2>4, <2>5
<1>3. CASE EpochLog
  <2>1. job.pc = "log" /\ job'.pc = "state"
    BY <1>1, <1>3, EpochLogJob DEF Moved
  <2>2. UNCHANGED <<state, log, old, unpruned>> /\ next' = job.kept
    BY <1>3 DEF EpochLog, history
  <2>3. PendingNow' = PendingNow
    BY <2>1, <2>2 DEF PendingNow
  <2>4. Held' = Held
    BY <2>2, <2>3 DEF Held
  <2>5. Deletables' \subseteq Deletables \cup ToSet(job.kept)
    BY <2>2 DEF Deletables, Logged
  <2> HIDE DEF Held, Deletables
  <2> QED BY <1>1, <1>2, <2>1, <2>4, <2>5, ShrinksDone DEF Starting
<1>4. CASE EpochState
  <2>1. job.pc = "state" /\ next = job.kept
    BY <1>1, <1>4 DEF EpochState, At, EpochStands
  <2>2. /\ state'.summary = job.text /\ log' = job.kept /\ next' = <<>> /\ old' = old \cup (ToSet(log) \cap About)
        /\ unpruned' = unpruned
    BY <1>1, <1>4, <2>1, TypesOf DEF EpochState, StateType
  <2>3. Held' \subseteq job.text \cup ToSet(job.kept)
    BY <2>2 DEF Held
  <2>4. Deletables' \subseteq Deletables \cup ToSet(job.kept)
    BY <2>2, EmptyLog DEF Deletables, Logged
  <2> HIDE DEF Held, Deletables
  <2> QED BY <1>1, <1>2, <2>1, <2>3, <2>4, ShrinksDone DEF Starting
<1>5. CASE EpochPrune
  <2>1. /\ job.pc = "prune" /\ GoesOn /\ UNCHANGED <<state, log, next>>
        /\ \/ job.cause = "forget" /\ old' = {}
           \/ old' = old /\ unpruned \subseteq unpruned'
    BY <1>5 DEF EpochPrune, At
  <2>2. job'.pc # "revert"
    BY <1>1, <2>1, GoesOnJob DEF Moved, Over, Begun
  <2>3. PendingNow' = PendingNow
    BY <2>1, <2>2 DEF PendingNow
  <2>4. Held' = Held
    BY <2>1, <2>3 DEF Held
  <2>5. Deletables' \subseteq Deletables
    <3>1. CASE old' = old /\ unpruned \subseteq unpruned'
      BY <2>1, <3>1 DEF Deletables, Logged
    <3>2. CASE job.cause = "forget" /\ old' = {}
      <4>1. log = <<>> /\ next = <<>>
        BY <1>1, <2>1, <3>2 DEF RunHasDone, EpochStands
      <4> QED BY <2>1, <3>2, <4>1, EmptyLog DEF Deletables, Logged
    <3> QED BY <2>1, <3>1, <3>2
  <2> HIDE DEF Held, Deletables
  <2> QED BY <1>1, <2>4, <2>5, ShrinksDone
<1>6. CASE Scrubbed
  <2>1. /\ state'.summary \cap About = {} /\ state'.pending = "forget" /\ UNCHANGED <<log, next, old, unpruned>>
    BY <1>1, <1>6, TypesOf DEF Scrubbed, Summarised, StateType
  <2>2. job'.pc # "revert"
    BY <1>1, <1>6, ScrubbedJob DEF LeavesOut, AfterSummary
  <2>3. Held' \cap About = {} /\ Deletables' = Deletables
    BY <2>1, <2>2 DEF Held, PendingNow, Deletables, Logged
  <2> HIDE DEF Held, Deletables
  <2> QED BY <1>1, <2>3, ShrinksDone
<1>7. CASE DropLogs
  <2>1. job.pc = "drop" /\ job'.pc = "clear"
    BY <1>1, <1>7, DropLogsJob DEF Moved
  <2>2. state.pending = "forget"
    BY <2>1 DEF RunHasDone
  <2>3. /\ state' = state
        /\ \/ log' = <<>> /\ next' = <<>> /\ old' = {}
           \/ unpruned \subseteq unpruned' /\ UNCHANGED <<log, next, old>>
    BY <1>7 DEF DropLogs
  <2>4. Held' \subseteq Held
    BY <2>1, <2>2, <2>3 DEF Held, PendingNow
  <2>5. Deletables' \subseteq Deletables
    BY <2>3, EmptyLog DEF Deletables, Logged
  <2> HIDE DEF Held, Deletables
  <2> QED BY <1>1, <2>4, <2>5, ShrinksDone
<1> QED BY <1>3, <1>4, <1>5, <1>6, <1>7

\* What is asked for has all its steps to run; a weaker request takes nothing from a stronger one's.
LEMMA AskDone ==
  ASSUME MemoryAssumption, Small, StepsAreDone, NEW source \in Requests, NEW limited \in BOOLEAN, Ask(source, limited)
  PROVE  StepsAreDone'
<1>1. Types /\ job \in Jobs /\ "files" \in Steps
  BY DEF Small, Types, Steps
<1>2. queue'.source = Merged(source) /\ queue'.steps = Steps
  BY AskIs
<1>3. CASE Merged(source) = "conversation"
  <2>1. queue.source = "conversation" /\ Due("everything")' = Due("everything")
    BY <1>3, AskIs DEF Due
  <2>2. UNCHANGED <<state, log, next, old, notes, unpruned>> /\ (AbortTurn \/ job' = job)
    BY DEF Ask
  <2>3. PendingNow' = PendingNow
    BY <1>1, <2>2, AbortIs DEF Moved, PendingNow
  <2>4. Held' = Held /\ Deletables' = Deletables
    BY <2>2, <2>3 DEF Held, Deletables, Logged
  <2>5. EverythingDone'
    BY <2>1, <2>2, <2>4 DEF StepsAreDone, EverythingDone, OutOfMemory
  <2> QED BY <1>1, <1>2, <1>3, <2>5 DEF StepsAreDone
<1>4. CASE Merged(source) # "conversation"
  <2>1. Due("conversation")' = known \cap About
    BY AskIs DEF Due
  <2>2. Due("everything")' \subseteq known \cap About
    <3>1. due["everything"] \subseteq known \cap About
      BY <1>1 DEF Types, HistoryTypes
    <3> QED BY <3>1, AskIs DEF Due
  <2> QED BY <1>1, <1>2, <1>4, <2>1, <2>2 DEF StepsAreDone
<1> QED BY <1>3, <1>4

\* What a turn adds is new to her, or excused where no step of the queue looks.
LEMMA ReadingDone ==
  ASSUME MemoryAssumption, Small, StepsAreDone, NEW f \in Facts, Read(f) \/ NoteDown(f) \/ ReadNote(f)
  PROVE  StepsAreDone'
<1>1. Types /\ Due("conversation") \subseteq known /\ Due("everything") \subseteq known
  BY DEF Small, Types, HistoryTypes, Due
<1>2. /\ PendingNow = "no" /\ PendingNow = state.pending /\ PendingNow' = state'.pending
      /\ job' = job /\ queue' = queue
  BY DEF Small, ReadStands, PendingNow, Read, NoteDown, ReadNote, At
<1> DEFINE Added(new) == Held' \cup Deletables' \subseteq Held \cup Deletables \cup new
<1>3. CASE Read(f)
  <2>1. f \notin known /\ log' = Append(log, f) /\ state'.summary = state.summary /\ state'.pending = state.pending
        /\ UNCHANGED <<next, old, notes, unpruned, due, excused>>
    BY <1>1, <1>3, TypesOf DEF Read, StateType
  <2>2. ToSet(log') = ToSet(log) \cup {f}
    BY <1>1, <2>1, LogAppend, TypesOf
  <2>3. Added({f})
    BY <1>2, <2>1, <2>2 DEF Held, Deletables, Logged
  <2>4. Due("conversation")' = Due("conversation") /\ Due("everything")' = Due("everything")
    BY <2>1 DEF Due
  <2>5. (ConversationDone => ConversationDone') /\ (EverythingDone => EverythingDone')
    <3> HIDE DEF Held, Deletables, Due
    <3> QED BY <1>1, <2>1, <2>3, <2>4 DEF ConversationDone, EverythingDone, OutOfMemory
  <2> HIDE DEF ConversationDone, EverythingDone, Due
  <2> QED BY <1>2, <2>1, <2>4, <2>5 DEF StepsAreDone
<1>4. CASE NoteDown(f)
  <2>1. /\ f \in Remembered /\ notes' = notes \cup {f} /\ UNCHANGED <<state, log, next, old, unpruned>>
    BY <1>4 DEF NoteDown
  <2>2. f \in Held /\ Held' = Held /\ Deletables' = Deletables
    BY <1>2, <2>1 DEF Held, Deletables, Logged, Remembered
  <2>3. /\ Due("conversation")' = Due("conversation") /\ Due("everything")' \subseteq Due("everything")
        /\ LeftWithout("notes") => f \notin Due("everything")'
    BY <1>1, <1>4, NotedDue
  <2>4. (ConversationDone => ConversationDone') /\ (EverythingDone => EverythingDone' /\ f \notin Due("everything")')
    <3> HIDE DEF Held, Deletables, Due
    <3> QED BY <2>1, <2>2, <2>3 DEF ConversationDone, EverythingDone, OutOfMemory
  <2>5. {"files", "notes"} \cap queue.steps = {} => LeftWithout("notes") \/ queue.source = "conversation"
    BY DEF LeftWithout, NoScrub
  <2> HIDE DEF ConversationDone, EverythingDone, Due, LeftWithout
  <2> QED BY <1>2, <2>1, <2>3, <2>4, <2>5 DEF StepsAreDone
<1>5. CASE ReadNote(f)
  <2>1. f \in notes /\ log' = Append(log, f) /\ UNCHANGED <<state, next, old, notes, unpruned>>
    BY <1>5 DEF ReadNote
  <2>2. ToSet(log') = ToSet(log) \cup {f}
    BY <1>1, <2>1, LogAppend, TypesOf
  <2>3. Added({f})
    BY <1>2, <2>1, <2>2 DEF Held, Deletables, Logged
  <2>4. /\ Due("everything")' \subseteq Due("everything") /\ Due("conversation")' \subseteq Due("conversation")
        /\ queue = NoScrub \/ LeftWithout("summary") => f \notin Due("conversation")'
        /\ queue # NoScrub /\ Due("everything") \subseteq Due("conversation") =>
             Due("everything")' \subseteq Due("conversation")'
    BY <1>1, <1>5, NoteReadDue
  <2>5. EverythingDone => EverythingDone'
    <3> HIDE DEF Held, Deletables, Due
    <3> QED BY <2>1, <2>3, <2>4 DEF EverythingDone, OutOfMemory
  <2>6. {"files", "summary"} \cap queue.steps = {} => queue = NoScrub \/ LeftWithout("summary")
    BY DEF LeftWithout
  <2>7. ConversationDone /\ f \notin Due("conversation")' => ConversationDone'
    <3> HIDE DEF Held, Deletables, Due
    <3> QED BY <2>3, <2>4 DEF ConversationDone, OutOfMemory
  <2>8. NoScrub.source = "conversation"
    BY DEF NoScrub
  <2> HIDE DEF ConversationDone, EverythingDone, Due, LeftWithout, NoScrub
  <2> QED BY <1>2, <2>1, <2>4, <2>5, <2>6, <2>7, <2>8 DEF StepsAreDone
<1> QED BY <1>3, <1>4, <1>5

\* What ran is dropped for the steps it has done alone.
LEMMA ClearDone ==
  ASSUME MemoryAssumption, Small, QueueStands, RunHasDone, StepsAreDone, Clear
  PROVE  StepsAreDone'
<1>1. Types /\ queue \in [source : Requests, steps : SUBSET Steps, at : 0..MaxAsks]
  BY TypesOf DEF Small
<1>2. Due("conversation") \subseteq About /\ Due("everything") \subseteq About
  BY <1>1 DEF Types, HistoryTypes, Due
<1>3. job.pc = "clear" /\ UNCHANGED <<state, log, next, old, notes, unpruned, due, excused>>
      /\ queue' = IF queue.at # job.run.at THEN queue
                  ELSE IF job.left = {} THEN NoScrub ELSE [queue EXCEPT !.steps = job.left]
  BY DEF Clear, At, history
<1>6. job'.pc # "revert"
  BY <1>1, ClearJob DEF Over, Begun
<1>7. PendingNow = state.pending /\ PendingNow' = PendingNow
  BY <1>3, <1>6 DEF PendingNow
<1>4. CASE queue.at # job.run.at
  BY <1>1, <1>3, <1>4, <1>7, RestsDone
<1>5. CASE queue.at = job.run.at
  <2>1. job.run # NoRun
    <3>1. job.run.steps # {}
      BY <1>3 DEF Small, RunStands, Scrubbing
    <3> QED BY <3>1, NoJobIs
  <2>2. RunsQueue(job.run)
    BY <1>5, <2>1 DEF QueueStands
  <2>3. /\ job.run.steps = queue.steps
        /\ queue.source # "conversation" => job.run.scope = "everything" \/ Due("everything") = {}
    BY <1>1, <2>2 DEF RunsQueue, Scope
  <2>4. queue'.steps = job.left /\ (queue'.source = "conversation" \/ queue'.source = queue.source)
    BY <1>1, <1>3, <1>5 DEF NoScrub
  <2>6. job.left # {} => queue'.source = queue.source
    BY <1>1, <1>3, <1>5
  <2>7. "files" \in queue.steps => queue.steps = Steps
    BY DEF Small, AskedStands
  <2>8. "summary" \notin job.left => ConversationDone
    <3>1. CASE "summary" \in queue.steps /\ "summary" \notin job.left
      <4>1. OfTheRun /\ job.pc \in PastSummary
        BY <1>3, <2>3, <3>1 DEF PastSummary, OfTheRun, SummaryDone
      <4>2. (Held \cup Deletables) \cap About = {}
        BY <1>3, <1>7, <4>1 DEF RunHasDone, Held
      <4> QED BY <1>2, <4>2 DEF ConversationDone, OutOfMemory
    <3>2. CASE "summary" \notin queue.steps
      BY <2>7, <3>2 DEF StepsAreDone, Steps
    <3> QED BY <3>1, <3>2
  <2>9. "notes" \notin job.left => Due("everything") \cap notes = {}
    <3>1. CASE queue.source = "conversation"
      BY <3>1 DEF StepsAreDone, EverythingDone
    <3>2. CASE queue.source # "conversation" /\ "notes" \in queue.steps /\ "notes" \notin job.left
      BY <1>2, <1>3, <2>3, <3>2 DEF RunHasDone
    <3>3. CASE "notes" \notin queue.steps
      BY <2>7, <3>3 DEF StepsAreDone, Steps
    <3> QED BY <3>1, <3>2, <3>3
  <2>10. queue'.source = "conversation" => EverythingDone
    <3>1. CASE queue.source = "conversation"
      BY <3>1 DEF StepsAreDone
    <3>2. CASE queue.source # "conversation" /\ job.left = {}
      <4> HIDE DEF Held, Deletables, Due
      <4> QED BY <2>8, <2>9, <3>2 DEF StepsAreDone, EverythingDone, ConversationDone, OutOfMemory
    <3>3. CASE queue.source # "conversation" /\ job.left # {}
      BY <2>6, <3>3
    <3> QED BY <3>1, <3>2, <3>3
  <2>11. queue'.source # "conversation" => Due("everything") \subseteq Due("conversation")
    BY <2>4 DEF StepsAreDone
  <2>12. /\ Due("conversation")' = Due("conversation") /\ Due("everything")' = Due("everything")
         /\ Held' = Held /\ Deletables' = Deletables
    BY <1>3, <1>7 DEF Due, Held, Deletables, Logged
  <2>13. ConversationDone' = ConversationDone /\ EverythingDone' = EverythingDone
    BY <1>3, <2>12 DEF ConversationDone, EverythingDone, OutOfMemory
  <2> HIDE DEF ConversationDone, EverythingDone, Due
  <2> QED BY <1>3, <2>4, <2>8, <2>9, <2>10, <2>11, <2>12, <2>13 DEF StepsAreDone
<1> QED BY <1>4, <1>5

LEMMA NextDone ==
  ASSUME MemoryAssumption, Small, QueueStands, RunHasDone, StepsAreDone, [Next]_vars
  PROVE  StepsAreDone'
<1>1. Types /\ Stands /\ job \in Jobs
  BY DEF Small, Stands, Types
<1>11. ASSUME state' = state, job.pc # "revert", job'.pc # "revert" PROVE PendingNow' = PendingNow
  BY <1>11 DEF PendingNow
<1>2. CASE EpochLog \/ EpochState \/ EpochPrune \/ Scrubbed \/ DropLogs
  BY <1>2, EpochDone
<1>3. CASE \E source \in Requests, limited \in BOOLEAN : Ask(source, limited)
  BY <1>3, AskDone
<1>4. CASE \E f \in Facts : Read(f) \/ NoteDown(f) \/ ReadNote(f)
  BY <1>4, ReadingDone
<1>5. CASE Clear
  BY <1>5, ClearDone
<1>6. CASE TakeBack
  <2>1. job.pc = "revert" /\ job.seen.summary = state.summary /\ SummaryWaits
    BY <1>6 DEF Small, ReadStands, Reading, TakeBack, At
  <2>2. job'.pc # "revert"
    BY <1>1, <2>1, WaitIs DEF LeavesOut, AfterSummary
  <2>3. state'.summary = state.summary /\ state'.pending = job.seen.pending
        /\ UNCHANGED <<log, next, old, notes, unpruned, queue, due, excused>>
    BY <1>1, <1>6, <2>1, TypesOf DEF TakeBack, StateType, history
  <2>4. PendingNow' = PendingNow
    BY <2>1, <2>2, <2>3 DEF PendingNow
  <2> QED BY <1>1, <2>3, <2>4, RestsDone
<1>7. CASE CondenseFails \/ ScrubFails \/ EpochLeft \/ StartEpochNow \/ Reset
  <2>1. state'.summary \subseteq state.summary /\ UNCHANGED <<log, next, old, notes, unpruned, queue, due, excused>>
    BY <1>1, <1>7, TypesOf DEF CondenseFails, ScrubFails, EpochLeft, StartEpochNow, Reset, StateType, history
  <2>2. PendingNow' # "no" \/ PendingNow' = PendingNow
    <3>1. CASE CondenseFails \/ ScrubFails
      <4>1. job.pc # "revert" /\ job'.pc # "revert" /\ state'.pending = state.pending
        BY <1>1, <3>1, CondenseFailsJob, ScrubFailsJob, TypesOf DEF EpochBegins, Moved, CondenseFails, ScrubFails, StateType
      <4> QED BY <4>1 DEF PendingNow
    <3>2. CASE EpochLeft
      <4>1. job.pc = "failing" /\ job'.pc = "revert" /\ job'.seen = job.seen
        BY <1>1, <3>2, EpochLeftJob DEF Moved
      <4> QED BY <4>1 DEF PendingNow, Small, ReadStands
    <3>3. CASE StartEpochNow
      <4>1. job.pc = "epoch" /\ job'.pc # "revert" /\ (state'.pending = "forget" \/ state' = state)
        BY <1>1, <3>3, StartEpochNowJob, TypesOf DEF EpochBegins, Moved, StateType
      <4> QED BY <4>1 DEF PendingNow
    <3>4. CASE Reset
      <4>1. job.pc = "reset" /\ job'.pc # "revert"
        BY <1>1, <3>4, ResetJob DEF EpochBegins, Over, Begun
      <4>2. state'.pending = "reset" \/ state' = state
        BY <1>1, <3>4, TypesOf DEF Reset, StateType
      <4> QED BY <4>1, <4>2 DEF PendingNow
    <3> QED BY <1>7, <3>1, <3>2, <3>3, <3>4
  <2> QED BY <1>1, <2>1, <2>2, RestsDone
<1>8. CASE BackoffEnds \/ \E f \in Facts : Deleted(f)
  <2>1. /\ state'.summary = state.summary /\ state'.pending = state.pending
        /\ UNCHANGED <<job, log, next, old, notes, unpruned, queue, due, excused>>
    BY <1>1, <1>8, TypesOf DEF BackoffEnds, Deleted, StateType, history
  <2>2. PendingNow' = PendingNow
    BY <2>1 DEF PendingNow
  <2> QED BY <1>1, <2>1, <2>2, RestsDone
<1>9. CASE \/ TakeTurn \/ CompactNow \/ Maintain \/ TakeWaiting \/ Prepare \/ Condensed \/ CondenseAborted \/ EndTurn
           \/ MidTurnCompaction \/ Rests \/ ScrubReads \/ ScrubWithoutModel \/ ScrubAborted \/ ScrubNotes \/ Verify
  <2>1. UNCHANGED <<state, log, next, old, unpruned, queue, due, excused>> /\ notes' \subseteq notes
    <3>1. CASE \/ TakeTurn \/ CompactNow \/ Maintain \/ TakeWaiting \/ Prepare \/ Condensed \/ CondenseAborted \/ EndTurn
      BY <3>1 DEF TakeTurn, CompactNow, Maintain, TakeWaiting, Prepare, Condensed, CondenseAborted, EndTurn, disk, history
    <3>2. CASE Rests \/ ScrubReads \/ ScrubWithoutModel \/ ScrubAborted \/ ScrubNotes \/ Verify
      BY <3>2 DEF Rests, ScrubReads, ScrubWithoutModel, ScrubAborted, ScrubNotes, Verify, disk, history
    <3>3. CASE MidTurnCompaction
      <4>1. UNCHANGED <<disk, history>>
        BY <3>3 DEF MidTurnCompaction
      <4> QED BY <4>1 DEF disk, history
    <3> QED BY <1>9, <3>1, <3>2, <3>3
  <2>2. job.pc # "revert"
    <3>1. CASE \/ TakeTurn \/ CompactNow \/ Maintain \/ TakeWaiting
      BY <1>1, <3>1, TakeTurnJob, CompactNowJob, MaintainJob, TakeWaitingJob, NoJobIs
    <3>2. CASE \/ Prepare \/ Condensed \/ CondenseAborted \/ EndTurn \/ MidTurnCompaction \/ Rests
               \/ ScrubReads \/ ScrubWithoutModel \/ ScrubAborted \/ ScrubNotes \/ Verify
      BY <3>2 DEF Prepare, Condensed, CondenseAborted, EndTurn, MidTurnCompaction, Rests,
         ScrubReads, ScrubWithoutModel, ScrubAborted, ScrubNotes, Verify, At
    <3> QED BY <1>9, <3>1, <3>2
  <2>3. job'.pc # "revert"
    <3>1. CASE \/ TakeTurn \/ CompactNow \/ Maintain \/ TakeWaiting
      BY <1>1, <3>1, TakeTurnJob, CompactNowJob, MaintainJob, TakeWaitingJob, FirstIs DEF Begun
    <3>2. CASE \/ Prepare \/ Condensed \/ MidTurnCompaction \/ Rests \/ ScrubReads \/ ScrubNotes \/ Verify
      BY <1>1, <3>2, PrepareJob, CondensedJob, MidTurnJob, RestsJob, ScrubReadsJob, ScrubNotesJob, VerifyJob
         DEF EpochBegins, Moved, Looks, LeavesOut
    <3>3. CASE CondenseAborted \/ EndTurn
      BY <3>3, OverIs DEF CondenseAborted, EndTurn, Over, Begun
    <3>4. CASE ScrubWithoutModel \/ ScrubAborted
      <4>1. SummaryWaits
        BY <3>4 DEF ScrubWithoutModel, ScrubAborted
      <4> QED BY <1>1, <4>1, WaitIs DEF LeavesOut, AfterSummary
    <3> QED BY <1>9, <3>1, <3>2, <3>3, <3>4
  <2> QED BY <1>1, <1>11, <2>1, <2>2, <2>3, RestsDone
<1>10. CASE \/ AskReset \/ Interrupt \/ Throws \/ Crash \/ UNCHANGED vars
            \/ (\E m \in {"own", "other", "none"} : ModelChanges(m))
  <2>1. UNCHANGED <<state, log, next, old, notes, unpruned, queue, due, excused>>
    BY <1>10 DEF AskReset, Interrupt, Throws, Crash, ModelChanges, vars, disk, history
  <2>2. CASE Throws \/ Crash
    <3>1. job'.pc # "revert"
      BY <1>1, <2>2, ThrowsJob, CrashJob, FirstIs DEF Over, Begun
    <3>2. PendingNow' = PendingNow \/ PendingNow' = "forget"
      BY <1>1, <2>1, <3>1 DEF PendingNow, Stands, ReadStands
    <3> QED BY <1>1, <2>1, <3>2, RestsDone
  <2>3. CASE ~(Throws \/ Crash)
    <3>1. AbortTurn \/ job' = [job EXCEPT !.abort = TRUE] \/ job' = job
      BY <1>10, <2>3 DEF AskReset, Interrupt, ModelChanges, vars, disk
    <3>2. PendingNow' = PendingNow
      BY <1>1, <2>1, <3>1, AbortIs DEF Moved, PendingNow
    <3> QED BY <1>1, <2>1, <3>2, RestsDone
  <2> QED BY <2>2, <2>3
<1> QED BY <1>2, <1>3, <1>4, <1>5, <1>6, <1>7, <1>8, <1>9, <1>10 DEF Next, JobStep

LEMMA InitScrub ==
  ASSUME MemoryAssumption, Init
  PROVE  ScrubInv
<1>1. Small
  BY InitSmall
<1>2. job.pc = "idle" /\ job.run = NoRun /\ job.left = {} /\ NoRun.at = 0
  BY NoJobIs DEF Init
<1>3. queue.at = 0 /\ asks = 0 /\ waiting = {} /\ queue.source \in {"conversation", "everything"}
  BY DEF Init, LeftOver, NoScrub
<1>4. QueueStands
  <2> HIDE DEF NoRun
  <2> QED BY <1>2, <1>3 DEF QueueStands
<1>5. RunHasDone
  BY <1>2 DEF RunHasDone, PastSummary
<1>6. Due("conversation") = {} /\ Due("everything") = {}
  BY DEF Init, Due
<1>7. StepsAreDone
  BY <1>6 DEF StepsAreDone, EverythingDone, ConversationDone, OutOfMemory
<1> QED BY <1>1, <1>4, <1>5, <1>7 DEF ScrubInv

-----------------------------------------------------------------------------
(* What was to be forgotten is gone *)

\* A scrub that has left the queue (orchestration/dm/forgotten.ts) has left
\* nothing of the person in her summary and in the logs that could be deleted, and
\* a whole one nothing in her notes, whatever ended it before; a reset left
\* nothing read before it.  The facts the code does lose hold of are in excused,
\* unpruned and revived, each at the step that loses it (README, Disagreements).
THEOREM ForgetLeavesNothing == Spec => []ForgottenIsGone
<1>1. Init => ScrubInv
  BY MemoryAssumption, InitScrub
<1>2. ScrubInv /\ [Next]_vars => ScrubInv'
  BY MemoryAssumption, NextSmall, NextQueue, NextHasDone, NextDone DEF ScrubInv
<1>3. ScrubInv /\ ResetLeavesNothing => ForgottenIsGone
  <2> SUFFICES ASSUME ScrubInv, ResetLeavesNothing PROVE ForgottenIsGone
    OBVIOUS
  <2>1. TypeOK
    <3>1. Types /\ job \in Jobs
      BY DEF ScrubInv, Small, Types
    <3> QED BY <3>1, JobTypes DEF TypeOK, Types, DiskTypes, Pending
  <2>2. AskedIsDone
    BY DEF ScrubInv, StepsAreDone, EverythingDone, ConversationDone, OutOfMemory, Held, Deletables, AskedIsDone, NoScrub
  <2> QED BY <2>1, <2>2 DEF ForgottenIsGone
<1> QED BY <1>1, <1>2, <1>3, ResetIsClean, PTL DEF Spec
=============================================================================
