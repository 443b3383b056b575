---------------------------- MODULE Intake_proofs ----------------------------
(***************************************************************************)
(* Proofs about Intake for any number of messages, pauses, restarts,       *)
(* faults and upsets.                                                      *)
(***************************************************************************)
EXTENDS Intake, FiniteSetTheorems, TLAPS

Point == 0..Len(author)    \* a time so far
Heard(m) == woken[m] > 0 \/ m <= cursor
HeldBack == {h[1] : h \in held}
Reached == HeldBack \cup routed
InBursts(m) == m \in burst \cup castBurst.ids \/ \E f \in firing : m \in f.ids
Active(c) == catchUp[c].at # "done"
Reading == \E c \in Run : catchUp[c].at = "read"

\* Messages on their way to be held: in flight, looked up, on a page or with the
\* handler that asks who they are for.
Coming ==
  {m \in Posted : \/ m \in inFlight \cup looking /\ m \notin seen
                  \/ \E c \in Run : m \in catchUp[c].todo /\ m \notin seen
                  \/ phase[m] = "cast"}

Burst == [ids : SUBSET Posted, direct : BOOLEAN, at : {"ask", "settle"}, routed : BOOLEAN]
CatchUp == [at : {"done", "read", "take", "clear"}, since : Point \cup {None}, queued : SUBSET Posted,
            cursor : Point, todo : SUBSET Posted, own : Point]

Typed ==
  /\ author \in Seq({"person", "cast"}) /\ Len(author) <= MaxMessages
  /\ up \in BOOLEAN /\ paused \in BOOLEAN /\ raced \in BOOLEAN
  /\ inFlight \subseteq Posted /\ seen \subseteq Posted /\ looking \subseteq Posted
  /\ routed \subseteq Posted /\ gap \subseteq Posted /\ queue \subseteq Posted /\ burst \subseteq Posted
  /\ phase \in [Message -> {"idle", "cast", "route"}]
  /\ held \subseteq Posted \X {"routing", "burst"}
  /\ castBurst \in [ids : SUBSET Posted, direct : BOOLEAN] /\ firing \subseteq Burst
  /\ mark \in Point /\ savedMark \in Point /\ cursor \in Point /\ (up => savedMark <= mark)
  /\ pausedAt \in Point \cup {None} /\ resumingSince \in Point \cup {None} /\ savedPause \in Point \cup {None}
  /\ catchUp \in [Run -> CatchUp] /\ woken \in [Message -> 0..2]
  /\ pauses \in Run /\ restarts \in Nat

\* A taken message is with its handler or in one burst.
OnePlace ==
  /\ \A m \in Message : phase[m] # "idle" => m \in seen /\ ~InBursts(m)
  /\ burst \cup castBurst.ids \subseteq seen /\ burst \cap castBurst.ids = {}
  /\ \A f \in firing : f.ids # {} /\ f.ids \subseteq seen /\ f.ids \cap (burst \cup castBurst.ids) = {}
  /\ \A f, g \in firing : f # g => f.ids \cap g.ids = {}

\* What holds a message back is there, and what waits for a decision is held.
HoldsStand ==
  /\ \A h \in held : \/ h[2] = "routing" /\ phase[h[1]] = "route"
                     \/ h[2] = "burst" /\ InBursts(h[1])
  /\ \A m \in Message : phase[m] = "route" => <<m, "routing">> \in held
  /\ \A m \in burst : <<m, "burst">> \in held
  /\ ~castBurst.direct => \A m \in castBurst.ids : <<m, "burst">> \in held
  /\ \A f \in firing : f.at = "ask" /\ ~f.direct => \A m \in f.ids : <<m, "burst">> \in held

\* A process that is down has nothing in memory.
DownIsEmpty ==
  ~up => /\ inFlight = {} /\ looking = {} /\ held = {} /\ mark = 0
         /\ \A m \in Message : phase[m] = "idle" /\ ~InBursts(m)
         /\ \A c \in Run : ~Active(c)

PauseIsSaved == (paused => savedPause # None) /\ (pausedAt # None => paused)

\* A message that waits out a pause was not taken; one that is queued was decided.
GapIsUntaken ==
  /\ \A m \in gap : m \notin seen /\ woken[m] = 0
  /\ \A m \in Message : woken[m] > 0 => m \in Posted
  /\ \A m \in queue : woken[m] > 0
  /\ \A c \in Run : \A m \in catchUp[c].queued : woken[m] > 0

\* A page is taken oldest first.
PagesInOrder ==
  \A c \in Run :
    /\ catchUp[c].cursor <= cursor
    /\ catchUp[c].at # "take" => catchUp[c].todo = {} /\ catchUp[c].own = 0
    /\ catchUp[c].at = "done" => catchUp[c] = NotRunning
    /\ \A m \in catchUp[c].todo : catchUp[c].own < m

\* Without a restart: what was decided is over, but for the hold of its burst.
DecidedIsOver ==
  restarts = 0 => \A m \in Message :
    /\ woken[m] <= 1
    /\ woken[m] > 0 => /\ m \in seen /\ phase[m] = "idle"
                       /\ <<m, "burst">> \in held => \E f \in firing : f.at = "settle" /\ m \in f.ids

(* What follows holds in a schedule without a race. *)

\* The mark is before whatever is held or still waits for it.
MarkIsBehind ==
  /\ \A m \in HeldBack : mark < m
  /\ \A m \in routed : mark < m /\ (Heard(m) \/ m \in HeldBack) /\ \E k \in HeldBack : k <= m

\* Messages are held in their order: whatever is older was heard or is held.
HeldInOrder == \A k \in Reached, m \in Posted : m < k => Heard(m) \/ m \in HeldBack

\* What is still to be held is newer than whatever was.
ComingIsNewer == \A m \in Coming : mark < m /\ \A k \in Reached : k < m

\* What was taken is heard, held or about to be, and so is what was posted, but
\* while the page that has it is not read.
NothingIsMissed ==
  /\ \A m \in seen : Heard(m) \/ m \in HeldBack \/ phase[m] = "cast"
  /\ up /\ ~paused /\ ~Reading => \A m \in Posted : Heard(m) \/ m \in HeldBack \/ m \in Coming

BurstsAreRouted ==
  /\ \A m \in Message : InBursts(m) =>
       /\ m \in Reached \/ m <= mark
       /\ woken[m] > 0 \/ <<m, "burst">> \in held
  /\ \A f \in firing : f.routed /\ (f.at = "settle" => \A m \in f.ids : woken[m] > 0)

\* No pause start that a catch-up goes back to is after a message not heard.
SinceIsHeard ==
  \A m \in Posted :
    m <= savedPause \/ m <= pausedAt \/ m <= resumingSince \/ (\E c \in Run : m <= catchUp[c].since)
      => Heard(m)

\* Nothing is under way during a pause, nor when a catch-up begins; a catch-up is
\* alone with the message it takes.
CatchUpIsAlone ==
  /\ paused \/ Reading =>
       /\ looking = {} /\ \A m \in Message : phase[m] = "idle" /\ ~InBursts(m)
  /\ paused => ~CatchingUp
  /\ \A c, d \in Run : Active(c) /\ Active(d) => c = d
  /\ CatchingUp => looking = {} /\ \A m \in Message : phase[m] # "idle" =>
                                      \E c \in Run : catchUp[c].own = m

\* What came during a pause is on the page of the catch-up after it.
GapInPage ==
  /\ \A m \in gap : m <= cursor \/ (savedPause # None /\ savedPause < m)
  /\ \A c \in Run, m \in gap :
       /\ catchUp[c].at = "take" => m <= cursor \/ m \in catchUp[c].todo
       /\ catchUp[c].at = "clear" => m <= cursor

Calm ==
  /\ MarkIsRouted /\ MarkIsBehind /\ HeldInOrder /\ ComingIsNewer /\ NothingIsMissed
  /\ BurstsAreRouted /\ SinceIsHeard /\ CatchUpIsAlone /\ GapInPage

Standing ==
  /\ Typed /\ OnePlace /\ HoldsStand /\ DownIsEmpty /\ PauseIsSaved /\ GapIsUntaken
  /\ PagesInOrder /\ DecidedIsOver

IInv == Standing /\ (raced \/ Calm)

-----------------------------------------------------------------------------
(* Numbers, and the mark *)

\* A set of naturals has a smallest member.
LEMMA SmallestOf ==
  ASSUME NEW S \in SUBSET Nat, S # {}
  PROVE  \E m \in S : \A n \in S : m <= n
<1> DEFINE T == {1..n : n \in S}
           R == StrictSubsetOrdering(Nat)
<1>1. IsWellFoundedOn(R, FiniteSubsetsOf(Nat))
  BY FS_StrictSubsetOrderingWellFounded
<1>2. T \subseteq FiniteSubsetsOf(Nat) /\ T # {}
  <2>1. ASSUME NEW n \in S PROVE 1..n \in FiniteSubsetsOf(Nat)
    BY FS_Interval DEF FiniteSubsetsOf
  <2> QED BY <2>1
<1>3. PICK x \in T : \A y \in T : <<y, x>> \notin R
  <2> HIDE DEF R, T
  <2> QED BY <1>1, <1>2, WFMin
<1>4. PICK m \in S : x = 1..m
  OBVIOUS
<1>5. ASSUME NEW n \in S, n < m PROVE FALSE
  <2>1. 1..n \subseteq 1..m /\ m \in 1..m /\ m \notin 1..n
    BY <1>5
  <2>2. <<1..n, x>> \in R
    BY <2>1, <1>4 DEF StrictSubsetOrdering
  <2> QED BY <2>2, <1>3
<1> QED BY <1>5

LEMMA MinIs ==
  ASSUME NEW s \in SUBSET Nat, s # {}
  PROVE  Min(s) \in s /\ \A x \in s : Min(s) <= x
<1>1. \E m \in s : \A n \in s : m <= n
  BY SmallestOf
<1> QED BY <1>1 DEF Min

LEMMA MaxIs ==
  ASSUME NEW n \in Nat, NEW s \in SUBSET (-1..n), s # {}
  PROVE  Max(s) \in s /\ \A x \in s : x <= Max(s)
<1> DEFINE t == {n - x : x \in s}
<1>1. t \in SUBSET Nat /\ t # {}
  <2>1. \A x \in s : x \in Int /\ n - x \in Nat
    OBVIOUS
  <2> QED BY <2>1
<1>2. PICK d \in t : \A e \in t : d <= e
  <2> HIDE DEF t
  <2> QED BY <1>1, SmallestOf
<1>3. PICK y \in s : d = n - y
  BY <1>2
<1>4. \A x \in s : n - x \in t /\ x \in Int
  OBVIOUS
<1>5. \A x \in s : y >= x
  <2> TAKE x \in s
  <2>1. n - y <= n - x
    BY <1>2, <1>3, <1>4
  <2> QED BY <2>1, <1>4
<1> QED BY <1>5, <1>4 DEF Max

LEMMA Numbers ==
  ASSUME Typed
  PROVE  /\ Len(author) \in Nat /\ MaxMessages \in Nat
         /\ Posted \subseteq Message /\ Posted \subseteq Point /\ Message \subseteq Nat \ {0}
         /\ \A m \in Nat \ {0} : m \in Posted <=> m <= Len(author)
         /\ \A m \in Posted : m \in Nat \ {0}
         /\ \A p \in Point : p \in Nat /\ p <= Len(author)
         /\ 0 \in Point /\ mark \in Nat /\ savedMark \in Nat /\ cursor \in Nat
BY IntakeAssumption DEF Typed, Posted, Point, Message

\* What MarkIsRouted says of the two marks.
LEMMA MarkedIsHeard ==
  ASSUME NEW a \in Nat, NEW b \in Nat, NEW x \in Nat
  PROVE  x <= Max({a, b}) <=> x <= a \/ x <= b
<1>1. {a, b} \in SUBSET (-1..(a + b)) /\ {a, b} # {} /\ a + b \in Nat
  OBVIOUS
<1>2. Max({a, b}) \in {a, b} /\ \A y \in {a, b} : y <= Max({a, b})
  BY <1>1, MaxIs
<1> QED BY <1>2

LEMMA Advancing ==
  ASSUME Typed, ~paused, NEW ids \in SUBSET Posted, NEW kept \in SUBSET (Posted \X {"routing", "burst"}),
         AdvanceMark(ids, kept)
  PROVE  /\ mark' \in Point /\ mark <= mark' /\ routed' \subseteq routed \cup ids
         /\ \A m \in routed \cup ids : m \in routed' \/ m <= mark'
         /\ mark' = mark \/ (mark' \in routed \cup ids /\ \A h \in kept : mark' < h[1])
         /\ \A m \in routed' : \E h \in kept : h[1] <= m
<1> DEFINE waiting == routed \cup ids
           markable == {m \in waiting : \A h \in kept : m < h[1]}
           s == {mark} \cup markable
<1>1. mark' = Max(s) /\ routed' = waiting \ markable
  BY DEF AdvanceMark
<1>2. Len(author) \in Nat /\ s \in SUBSET (-1..Len(author)) /\ s # {} /\ mark \in s
  <2>1. waiting \subseteq Posted /\ Posted \subseteq Point /\ mark \in Point /\ Len(author) \in Nat
    BY Numbers DEF Typed
  <2>2. Point \subseteq -1..Len(author)
    BY <2>1 DEF Point
  <2> QED BY <2>1, <2>2
<1>3. mark' \in s /\ \A x \in s : x <= mark'
  <2> HIDE DEF s
  <2> QED BY <1>1, <1>2, MaxIs
<1>4. \A h \in kept : h[1] \in Nat
  BY Numbers
<1>5. waiting \subseteq Nat /\ waiting \subseteq Posted
  BY Numbers DEF Typed
<1>6. mark' \in Point
  BY <1>3, <1>5, Numbers DEF Typed
<1>7. \A m \in waiting : m \in routed' \/ m <= mark'
  BY <1>1, <1>3
<1>8. \A m \in routed' : \E h \in kept : h[1] <= m
  <2> TAKE m \in routed'
  <2>1. m \in waiting /\ \E h \in kept : ~(m < h[1])
    BY <1>1
  <2> QED BY <2>1, <1>4, <1>5
<1>9. mark' = mark \/ (mark' \in waiting /\ \A h \in kept : mark' < h[1])
  BY <1>3
<1> QED BY <1>1, <1>2, <1>3, <1>6, <1>7, <1>8, <1>9

LEMMA AdvanceKeeps ==
  ASSUME Typed, NEW ids \in SUBSET Posted, NEW kept \in SUBSET (Posted \X {"routing", "burst"}),
         AdvanceMark(ids, kept)
  PROVE  /\ mark' \in Point /\ mark <= mark' /\ routed' \subseteq Posted
         /\ \A m \in routed : m \in routed' \/ m <= mark'
<1>1. CASE paused
  BY <1>1, Numbers DEF AdvanceMark, Typed
<1>2. CASE ~paused
  BY <1>2, Advancing DEF Typed
<1> QED BY <1>1, <1>2

\* The mark moves over what was let go and no further.
LEMMA AdvanceInOrder ==
  ASSUME Typed, MarkIsRouted, MarkIsBehind, HeldInOrder, ComingIsNewer, ~paused,
         author' = author, cursor' = cursor, savedMark' = savedMark,
         held' \subseteq Posted \X {"routing", "burst"},
         HeldBack' \subseteq HeldBack, Coming' \subseteq Coming,
         \A m \in Message : woken[m] > 0 => woken'[m] > 0,
         \A m \in HeldBack : m \in HeldBack' \/ woken'[m] > 0,
         NEW ids \in SUBSET Posted,
         \A m \in ids : (m \in Reached \/ m <= mark) /\ (m \in HeldBack' \/ woken'[m] > 0),
         AdvanceMark(ids, held')
  PROVE  (MarkIsRouted /\ MarkIsBehind /\ HeldInOrder /\ ComingIsNewer)'
<1>1. /\ mark' \in Point /\ mark <= mark' /\ routed' \subseteq routed \cup ids
      /\ mark' = mark \/ (mark' \in routed \cup ids /\ \A h \in held' : mark' < h[1])
      /\ \A m \in routed' : \E h \in held' : h[1] <= m
  BY Advancing
<1>2. /\ Posted' = Posted /\ Posted \subseteq Message /\ \A m \in Posted : m \in Nat \ {0}
      /\ mark \in Nat /\ savedMark \in Nat /\ mark' \in Nat /\ savedMark' \in Nat
  BY <1>1, Numbers DEF Posted
<1>3. \A m \in Posted : Heard(m) \/ woken'[m] > 0 => Heard(m)'
  BY <1>2 DEF Heard
<1>4. HeldBack \subseteq Posted /\ HeldBack' \subseteq Posted /\ Reached \subseteq Posted /\ routed \subseteq Posted
  BY DEF HeldBack, Reached, Typed
<1>5. \A k : k \in HeldBack' <=> \E h \in held' : h[1] = k
  BY DEF HeldBack
<1>6. /\ \A m \in HeldBack : mark < m
      /\ \A m \in routed : mark < m /\ (Heard(m) \/ m \in HeldBack)
  BY DEF MarkIsBehind
<1>7. mark' = mark \/ (mark' \in Reached /\ \A k \in HeldBack' : mark' < k)
  <2>1. mark' \in routed \cup ids => mark' \in Reached \/ mark' <= mark
    BY DEF Reached
  <2> QED BY <2>1, <1>1, <1>2, <1>5
<1>8. \A k \in HeldBack' : mark' < k
  BY <1>6, <1>7
<1>9. \A m \in routed' : mark' < m /\ \E k \in HeldBack' : k <= m
  <2> TAKE m \in routed'
  <2>1. PICK k \in HeldBack' : k <= m
    BY <1>1, <1>5
  <2>2. mark' < k /\ m \in Nat /\ k \in Nat
    BY <2>1, <1>1, <1>2, <1>4, <1>8
  <2> QED BY <2>1, <2>2, <1>2
<1>10. Reached' \subseteq Reached
  <2>1. ASSUME NEW m \in routed', m \notin Reached PROVE FALSE
    <3>1. m \in ids /\ m <= mark
      BY <2>1, <1>1 DEF Reached
    <3>2. mark' < m /\ m \in Nat
      BY <1>9, <3>1, <1>2
    <3> QED BY <3>1, <3>2, <1>1, <1>2
  <2>2. Reached' = HeldBack' \cup routed' /\ HeldBack' \subseteq Reached
    BY DEF Reached
  <2> QED BY <2>1, <2>2
<1>11. \A m \in HeldBack : m \in HeldBack' \/ Heard(m)'
  BY <1>3, <1>4
<1>12. MarkIsRouted'
  <2>1. \A m \in Posted : m <= mark \/ m <= savedMark => Heard(m)
    BY <1>2, MarkedIsHeard DEF MarkIsRouted, Heard
  <2>2. ASSUME NEW m \in Posted, m <= mark' \/ m <= savedMark' PROVE Heard(m)'
    <3>1. CASE m <= mark \/ m <= savedMark
      BY <3>1, <2>1, <1>3
    <3>2. CASE ~(m <= mark \/ m <= savedMark)
      <4>1. m <= mark' /\ mark' # mark /\ mark' \in Reached
        BY <3>2, <2>2, <1>7
      <4>2. m \notin HeldBack'
        BY <4>1, <1>2, <1>8
      <4>3. Heard(m) \/ m \in HeldBack
        <5>1. CASE m < mark'
          BY <4>1, <5>1 DEF HeldInOrder
        <5>2. CASE m = mark'
          BY <4>1, <5>2, <1>6 DEF Reached
        <5> QED BY <4>1, <5>1, <5>2, <1>2
      <4> QED BY <4>2, <4>3, <1>3, <1>11
    <3> QED BY <3>1, <3>2
  <2> QED BY <2>2, <1>2, MarkedIsHeard DEF MarkIsRouted, Heard
<1>13. MarkIsBehind'
  <2>1. \A m \in routed' : Heard(m)' \/ m \in HeldBack'
    <3> TAKE m \in routed'
    <3>1. CASE m \in routed
      BY <3>1, <1>3, <1>4, <1>6, <1>11
    <3>2. CASE m \in ids
      BY <3>2, <1>3
    <3> QED BY <3>1, <3>2, <1>1
  <2> QED BY <2>1, <1>8, <1>9 DEF MarkIsBehind
<1>14. HeldInOrder'
  <2> SUFFICES ASSUME NEW k \in Reached', NEW m \in Posted, m < k PROVE Heard(m)' \/ m \in HeldBack'
    BY <1>2 DEF HeldInOrder
  <2>1. Heard(m) \/ m \in HeldBack
    BY <1>10 DEF HeldInOrder
  <2> QED BY <2>1, <1>3, <1>11
<1>15. ComingIsNewer'
  <2> SUFFICES ASSUME NEW m \in Coming' PROVE mark' < m /\ \A k \in Reached' : k < m
    BY DEF ComingIsNewer
  <2>1. mark < m /\ \A k \in Reached : k < m
    BY DEF ComingIsNewer
  <2> QED BY <2>1, <1>7, <1>10
<1> QED BY <1>12, <1>13, <1>14, <1>15

-----------------------------------------------------------------------------
(* The bursts *)

LEMMA BurstFields ==
  ASSUME Typed, NEW f \in firing
  PROVE  /\ f.ids \subseteq Posted /\ f.direct \in BOOLEAN /\ f.at \in {"ask", "settle"} /\ f.routed \in BOOLEAN
         /\ f = [ids |-> f.ids, direct |-> f.direct, at |-> f.at, routed |-> f.routed]
BY DEF Typed, Burst

\* A burst that fires takes its messages along.
LEMMA FireKeeps ==
  ASSUME Typed, OnePlace, HoldsStand, UNCHANGED <<author, seen, phase, held>>,
         NEW F, NEW G, firing' = firing \cup F \cup G,
         \/ burst' = burst /\ F = {}
         \/ burst' = {} /\ F = Fired(burst, FALSE),
         \/ castBurst' = castBurst /\ G = {}
         \/ castBurst' = NoBurst /\ G = Fired(castBurst.ids, castBurst.direct)
  PROVE  /\ burst' \subseteq Posted /\ castBurst' \in [ids : SUBSET Posted, direct : BOOLEAN]
         /\ firing' \subseteq Burst /\ firing \subseteq firing'
         /\ \A m : InBursts(m)' <=> InBursts(m)
         /\ \A f \in firing' : f \in firing \/ (f.at = "ask" /\ f.routed = TRUE)
         /\ OnePlace' /\ HoldsStand'
<1> DEFINE b == [ids |-> burst, direct |-> FALSE, at |-> "ask", routed |-> TRUE]
           c == [ids |-> castBurst.ids, direct |-> castBurst.direct, at |-> "ask", routed |-> TRUE]
<1>1. /\ b \in Burst /\ b.ids = burst /\ b.direct = FALSE /\ b.at = "ask" /\ b.routed = TRUE
  BY DEF Typed, Burst
<1>2. castBurst.ids \subseteq Posted /\ castBurst.direct \in BOOLEAN
  BY DEF Typed
<1>3. /\ c \in Burst /\ c.ids = castBurst.ids /\ c.direct = castBurst.direct /\ c.at = "ask" /\ c.routed = TRUE
  BY <1>2 DEF Burst
<1>4. NoBurst.ids = {} /\ NoBurst.direct = FALSE /\ NoBurst \in [ids : SUBSET Posted, direct : BOOLEAN]
  BY DEF NoBurst
<1>5. /\ (burst' = burst /\ F = {}) \/ (burst' = {} /\ (burst = {} => F = {}) /\ (burst # {} => F = {b}))
      /\ \/ castBurst' = castBurst /\ G = {}
         \/ /\ castBurst' = NoBurst /\ (castBurst.ids = {} => G = {})
            /\ castBurst.ids # {} => G = {c}
  BY DEF Fired
<1> HIDE DEF b, c
<1>6. /\ F \subseteq {b} /\ (F # {} => burst' = {} /\ burst # {}) /\ burst' \subseteq burst
      /\ burst = burst' \cup UNION {f.ids : f \in F}
  BY <1>1, <1>5
<1>7. /\ G \subseteq {c} /\ (G # {} => castBurst'.ids = {} /\ castBurst.ids # {})
      /\ castBurst'.ids \subseteq castBurst.ids
      /\ castBurst.ids = castBurst'.ids \cup UNION {f.ids : f \in G}
      /\ ~castBurst'.direct => castBurst'.ids = {} \/ ~castBurst.direct
  BY <1>3, <1>4, <1>5
<1>8. castBurst' \in [ids : SUBSET Posted, direct : BOOLEAN]
  BY <1>4, <1>5 DEF Typed
<1>9. burst' \subseteq Posted /\ firing' \subseteq Burst /\ firing \subseteq firing'
  BY <1>1, <1>3, <1>6, <1>7 DEF Typed
<1>10. \A f \in firing' : f \in firing \/ (f = b /\ b \in F) \/ (f = c /\ c \in G)
  BY <1>6, <1>7
<1>11. \A m : InBursts(m)' <=> InBursts(m)
  BY <1>1, <1>3, <1>6, <1>7 DEF InBursts
<1>12. OnePlace'
  <2>1. \A m \in Message : phase'[m] # "idle" => m \in seen' /\ ~InBursts(m)'
    BY <1>11 DEF OnePlace
  <2>2. burst' \cup castBurst'.ids \subseteq seen' /\ burst' \cap castBurst'.ids = {}
    BY <1>6, <1>7 DEF OnePlace
  <2>3. \A f \in firing' : f.ids # {} /\ f.ids \subseteq seen' /\ f.ids \cap (burst' \cup castBurst'.ids) = {}
    <3> TAKE f \in firing'
    <3>1. CASE f \in firing
      BY <3>1, <1>6, <1>7 DEF OnePlace
    <3>2. CASE f = b /\ b \in F
      BY <3>2, <1>1, <1>6, <1>7 DEF OnePlace
    <3>3. CASE f = c /\ c \in G
      BY <3>3, <1>3, <1>6, <1>7 DEF OnePlace
    <3> QED BY <3>1, <3>2, <3>3, <1>10
  <2>4. \A f, g \in firing' : f # g => f.ids \cap g.ids = {}
    <3>1. \A f, g \in firing : f # g => f.ids \cap g.ids = {}
      BY DEF OnePlace
    <3>2. \A f \in firing : f.ids \cap b.ids = {} /\ f.ids \cap c.ids = {}
      BY <1>1, <1>3 DEF OnePlace
    <3>3. b.ids \cap c.ids = {}
      BY <1>1, <1>3 DEF OnePlace
    <3> QED BY <3>1, <3>2, <3>3, <1>10
  <2> QED BY <2>1, <2>2, <2>3, <2>4 DEF OnePlace
<1>13. HoldsStand'
  <2>1. \A h \in held' : \/ h[2] = "routing" /\ phase'[h[1]] = "route"
                         \/ h[2] = "burst" /\ InBursts(h[1])'
    BY <1>11 DEF HoldsStand
  <2>2. \A m \in Message : phase'[m] = "route" => <<m, "routing">> \in held'
    BY DEF HoldsStand
  <2>3. \A m \in burst' : <<m, "burst">> \in held'
    BY <1>6 DEF HoldsStand
  <2>4. ~castBurst'.direct => \A m \in castBurst'.ids : <<m, "burst">> \in held'
    BY <1>7 DEF HoldsStand
  <2>5. ASSUME NEW f \in firing', f.at = "ask", ~f.direct, NEW m \in f.ids PROVE <<m, "burst">> \in held'
    <3>1. CASE f \in firing
      BY <3>1, <2>5 DEF HoldsStand
    <3>2. CASE f = b /\ b \in F
      BY <3>2, <2>5, <1>1 DEF HoldsStand
    <3>3. CASE f = c /\ c \in G
      BY <3>3, <2>5, <1>3 DEF HoldsStand
    <3> QED BY <3>1, <3>2, <3>3, <1>10
  <2> QED BY <2>1, <2>2, <2>3, <2>4, <2>5 DEF HoldsStand
<1>14. \A f \in firing' : f \in firing \/ (f.at = "ask" /\ f.routed = TRUE)
  BY <1>1, <1>3, <1>10
<1> QED BY <1>8, <1>9, <1>11, <1>12, <1>13, <1>14

\* A burst that was decided keeps its messages until it settles.
LEMMA DecideKeeps ==
  ASSUME Typed, OnePlace, HoldsStand, UNCHANGED <<author, seen, phase, held, burst, castBurst>>,
         NEW f \in firing, f.at = "ask", NEW g \in Burst, g.ids = f.ids, g.at = "settle",
         firing' = (firing \ {f}) \cup {g}
  PROVE  /\ firing' \subseteq Burst
         /\ \A m : InBursts(m)' <=> InBursts(m)
         /\ \A h \in firing : h.at = "settle" => h \in firing'
         /\ OnePlace' /\ HoldsStand'
<1>1. firing' \subseteq Burst
  BY DEF Typed
<1>2. \A m : InBursts(m)' <=> InBursts(m)
  BY DEF InBursts
<1>3. \A h \in firing : h.at = "settle" => h \in firing'
  OBVIOUS
<1>4. \A h \in firing' : h = g \/ (h \in firing /\ h # f)
  OBVIOUS
<1>5. OnePlace'
  <2>1. \A m \in Message : phase'[m] # "idle" => m \in seen' /\ ~InBursts(m)'
    BY <1>2 DEF OnePlace
  <2>2. burst' \cup castBurst'.ids \subseteq seen' /\ burst' \cap castBurst'.ids = {}
    BY DEF OnePlace
  <2>3. \A h \in firing' : h.ids # {} /\ h.ids \subseteq seen' /\ h.ids \cap (burst' \cup castBurst'.ids) = {}
    BY <1>4 DEF OnePlace
  <2>4. \A h, k \in firing' : h # k => h.ids \cap k.ids = {}
    BY <1>4 DEF OnePlace
  <2> QED BY <2>1, <2>2, <2>3, <2>4 DEF OnePlace
<1>6. HoldsStand'
  <2>1. \A h \in held' : \/ h[2] = "routing" /\ phase'[h[1]] = "route"
                         \/ h[2] = "burst" /\ InBursts(h[1])'
    BY <1>2 DEF HoldsStand
  <2>2. /\ \A m \in Message : phase'[m] = "route" => <<m, "routing">> \in held'
        /\ \A m \in burst' : <<m, "burst">> \in held'
        /\ ~castBurst'.direct => \A m \in castBurst'.ids : <<m, "burst">> \in held'
    BY DEF HoldsStand
  <2>3. \A h \in firing' : h.at = "ask" /\ ~h.direct => \A m \in h.ids : <<m, "burst">> \in held'
    BY <1>4 DEF HoldsStand
  <2> QED BY <2>1, <2>2, <2>3 DEF HoldsStand
<1> QED BY <1>1, <1>2, <1>3, <1>5, <1>6

\* Who is held, and why.
LEMMA HeldBackIs ==
  ASSUME held \subseteq Posted \X {"routing", "burst"}
  PROVE  \A x : x \in HeldBack <=> <<x, "routing">> \in held \/ <<x, "burst">> \in held
<1>1. \A h \in held : h = <<h[1], "routing">> \/ h = <<h[1], "burst">>
  OBVIOUS
<1>2. \A x : <<x, "routing">>[1] = x /\ <<x, "burst">>[1] = x
  OBVIOUS
<1>3. \A x : x \in HeldBack <=> \E h \in held : h[1] = x
  BY DEF HeldBack
<1>4. ASSUME NEW x, x \in HeldBack PROVE <<x, "routing">> \in held \/ <<x, "burst">> \in held
  BY <1>4, <1>1, <1>3
<1>5. ASSUME NEW x, <<x, "routing">> \in held \/ <<x, "burst">> \in held PROVE x \in HeldBack
  BY <1>5, <1>2, <1>3
<1> QED BY <1>4, <1>5

LEMMA HeldBackWillBe ==
  ASSUME held' \subseteq Posted \X {"routing", "burst"}
  PROVE  \A x : x \in HeldBack' <=> <<x, "routing">> \in held' \/ <<x, "burst">> \in held'
<1>1. \A h \in held' : h = <<h[1], "routing">> \/ h = <<h[1], "burst">>
  OBVIOUS
<1>2. \A x : <<x, "routing">>[1] = x /\ <<x, "burst">>[1] = x
  OBVIOUS
<1>3. \A x : x \in HeldBack' <=> \E h \in held' : h[1] = x
  BY DEF HeldBack
<1>4. ASSUME NEW x, x \in HeldBack' PROVE <<x, "routing">> \in held' \/ <<x, "burst">> \in held'
  BY <1>4, <1>1, <1>3
<1>5. ASSUME NEW x, <<x, "routing">> \in held' \/ <<x, "burst">> \in held' PROVE x \in HeldBack'
  BY <1>5, <1>2, <1>3
<1> QED BY <1>4, <1>5

LEMMA DecidedIs ==
  ASSUME Typed, NEW ids, Decided(ids)
  PROVE  /\ woken' \in [Message -> 0..2]
         /\ \A x \in Message : /\ woken[x] <= woken'[x] /\ (x \notin ids => woken'[x] = woken[x])
                               /\ x \in ids => woken'[x] > 0 /\ (woken[x] = 0 => woken'[x] = 1)
BY DEF Decided, Typed

\* A cast member's message joins her burst: it is decided at once, held for the
\* detector or, while paused, dropped.
CastMoves(m) ==
  /\ phase[m] = "route" /\ phase' = [phase EXCEPT ![m] = "idle"]
  /\ \/ /\ paused /\ woken' = woken /\ queue' = queue /\ held' = held \ {<<m, "routing">>}
        /\ castBurst' = [ids |-> castBurst.ids \cup {m}, direct |-> TRUE]
     \/ /\ Decided({m}) /\ queue' \subseteq queue \cup {m} /\ held' = held \ {<<m, "routing">>}
        /\ castBurst' = [ids |-> castBurst.ids \cup {m}, direct |-> TRUE]
     \/ /\ woken' = woken /\ queue' = queue /\ held' = (held \ {<<m, "routing">>}) \cup {<<m, "burst">>}
        /\ ~castBurst.direct /\ castBurst' = [ids |-> castBurst.ids \cup {m}, direct |-> FALSE]
  /\ AdvanceMark({m}, held')
  /\ UNCHANGED <<discord, seen, looking, burst, firing, pausing, cursor, counters,
                 up, savedMark, catchUp, gap, raced>>

\* A catch-up begins.
LEMMA StartIs ==
  ASSUME Typed, NEW c \in Run, NEW since \in Point \cup {None}, StartCatchUp(c, since)
  PROVE  /\ catchUp' \in [Run -> CatchUp]
         /\ catchUp'[c].at = "read" /\ catchUp'[c].since = since /\ catchUp'[c].queued = queue
         /\ catchUp'[c].cursor = cursor /\ catchUp'[c].todo = {} /\ catchUp'[c].own = 0
         /\ \A d \in Run : d # c => catchUp'[d] = catchUp[d]
<1> DEFINE r == [NotRunning EXCEPT !.at = "read", !.since = since, !.queued = queue, !.cursor = cursor]
<1>1. /\ r \in CatchUp /\ r.at = "read" /\ r.since = since /\ r.queued = queue
      /\ r.cursor = cursor /\ r.todo = {} /\ r.own = 0
  <2>1. queue \subseteq Posted /\ cursor \in Point /\ 0 \in Point
    BY Numbers DEF Typed
  <2>2. NotRunning \in CatchUp /\ NotRunning.todo = {} /\ NotRunning.own = 0
    BY <2>1 DEF NotRunning, CatchUp
  <2> QED BY <2>1, <2>2 DEF CatchUp
<1>2. catchUp' = [catchUp EXCEPT ![c] = r] /\ catchUp \in [Run -> CatchUp]
  BY DEF StartCatchUp, Typed
<1> HIDE DEF r
<1> QED BY <1>1, <1>2

\* Nothing is held while nothing is under way.
LEMMA QuietHoldsNothing ==
  ASSUME Typed, HoldsStand, MarkIsBehind, \A m \in Message : phase[m] = "idle" /\ ~InBursts(m)
  PROVE  held = {} /\ HeldBack = {} /\ routed = {} /\ Reached = {}
<1>1. held = {}
  <2>1. \A h \in held : h[1] \in Message
    BY Numbers DEF Typed
  <2> QED BY <2>1 DEF HoldsStand
<1>2. HeldBack = {}
  BY <1>1 DEF HeldBack
<1>3. routed = {}
  BY <1>2 DEF MarkIsBehind
<1> QED BY <1>1, <1>2, <1>3 DEF Reached

LEMMA PostKeeps ==
  ASSUME IInv, NEW who \in {"person", "cast"}, Post(who)
  PROVE  IInv'
<1>1. Typed /\ OnePlace /\ HoldsStand /\ DownIsEmpty /\ PauseIsSaved /\ GapIsUntaken
      /\ PagesInOrder /\ DecidedIsOver
  BY DEF IInv, Standing
<1>2. UNCHANGED <<up, seen, looking, phase, held, routed, burst, castBurst, firing, mark, catchUp,
                pausedAt, resumingSince, paused, savedPause, savedMark, queue, cursor, woken,
                raced, pauses, restarts, faults>>
  BY DEF Post, discord, handlers, holding, bursts, pausing, her, counters
<1>3. /\ (\A i : Heard(i)' <=> Heard(i))
      /\ HeldBack' = HeldBack
      /\ Reached' = Reached
      /\ (\A i : InBursts(i)' <=> InBursts(i))
      /\ (\A c \in Run : Active(c)' <=> Active(c)) /\ (Reading' <=> Reading) /\ (CatchingUp' <=> CatchingUp)
  BY <1>2 DEF Heard, HeldBack, Reached, InBursts, Active, Reading, CatchingUp
<1> DEFINE n == Len(author) + 1
<1>4. /\ n <= MaxMessages /\ author' = Append(author, who)
      /\ inFlight' \subseteq inFlight \cup {n} /\ inFlight \subseteq inFlight'
      /\ up => n \in inFlight'
      /\ ~up => inFlight' = inFlight
      /\ gap' = gap \/ (paused /\ gap' = gap \cup {n})
  <2>1. n <= MaxMessages /\ author' = Append(author, who)
    BY <1>1, Numbers DEF Post
  <2>2. inFlight' = IF up THEN inFlight \cup {n} ELSE inFlight
    BY DEF Post
  <2>3. gap' = IF paused THEN gap \cup {n} ELSE gap
    BY DEF Post
  <2> HIDE DEF n
  <2> QED BY <2>1, <2>2, <2>3
<1>5. /\ author' \in Seq({"person", "cast"}) /\ Len(author') = n /\ n \in Nat /\ n \in Message
      /\ \A p \in Point : p < n
  BY <1>1, <1>4, Numbers DEF Typed, Message
<1>6. Posted' = Posted \cup {n} /\ n \notin Posted /\ Point \subseteq Point' /\ Posted \subseteq Posted'
  BY <1>1, <1>5, Numbers DEF Posted, Point
<1> HIDE DEF n
<1>7. woken[n] = 0
  BY <1>1, <1>5, <1>6 DEF GapIsUntaken, Typed
<1>8. n \notin seen /\ phase[n] = "idle" /\ \A p \in Posted : p < n
  BY <1>1, <1>5, <1>6, Numbers DEF Typed, OnePlace
<1>9. Coming' = Coming \cup ({n} \cap inFlight')
  <2>1. \A c \in Run : catchUp[c].todo \subseteq Posted
    BY <1>1 DEF Typed, CatchUp
  <2>2. looking \subseteq Posted /\ inFlight \subseteq Posted
    BY <1>1 DEF Typed
  <2> QED BY <2>1, <2>2, <1>2, <1>4, <1>6, <1>8 DEF Coming
<1>10. Typed'
  <2>1. firing' \subseteq Burst'
    <3>1. Burst \subseteq Burst'
      BY <1>6 DEF Burst
    <3> QED BY <3>1, <1>1, <1>2 DEF Typed
  <2>2. catchUp' \in [Run -> CatchUp']
    <3>1. CatchUp \subseteq CatchUp'
      BY <1>6 DEF CatchUp
    <3>2. catchUp \in [Run -> CatchUp]
      BY <1>1 DEF Typed
    <3> QED BY <3>1, <3>2, <1>2
  <2>3. held' \subseteq Posted' \X {"routing", "burst"} /\ castBurst' \in [ids : SUBSET Posted', direct : BOOLEAN]
    BY <1>1, <1>2, <1>6 DEF Typed
  <2>4. inFlight' \subseteq Posted' /\ gap' \subseteq Posted'
    BY <1>1, <1>4, <1>6 DEF Typed
  <2> QED BY <2>1, <2>2, <2>3, <2>4, <1>1, <1>2, <1>4, <1>5, <1>6 DEF Typed
<1>11. DownIsEmpty'
  BY <1>1, <1>2, <1>3, <1>4, <1>5, <1>6, <1>7, <1>8, <1>9 DEF DownIsEmpty
<1>12. GapIsUntaken'
  BY <1>1, <1>2, <1>4, <1>6, <1>7, <1>8 DEF GapIsUntaken
<1>13. (OnePlace /\ HoldsStand /\ PauseIsSaved /\ PagesInOrder /\ DecidedIsOver)'
  BY <1>1, <1>2, <1>3 DEF OnePlace, HoldsStand, PauseIsSaved, PagesInOrder, DecidedIsOver
<1>14. ASSUME ~raced' PROVE Calm'
  <2>1. /\ ~raced
        /\ MarkIsRouted /\ MarkIsBehind /\ HeldInOrder /\ ComingIsNewer /\ NothingIsMissed
        /\ BurstsAreRouted /\ SinceIsHeard /\ CatchUpIsAlone /\ GapInPage
    BY <1>2, <1>4, <1>5, <1>6, <1>7, <1>8, <1>9, <1>14 DEF IInv, Calm
  <2>2. MarkIsRouted'
    <3>1. ~(n <= mark \/ n <= savedMark)
      BY <1>1, <1>5, Numbers DEF Typed
    <3>2. mark \in Nat /\ savedMark \in Nat /\ n \in Nat
      BY <1>1, <1>5, Numbers
    <3>3. ~(n <= Max({mark, savedMark}))
      BY <3>1, <3>2, MarkedIsHeard
    <3> QED BY <3>3, <2>1, <1>2, <1>6 DEF MarkIsRouted
  <2>3. HeldInOrder'
    <3>1. Reached \subseteq Posted
      BY <1>1 DEF Reached, HeldBack, Typed
    <3>2. \A k \in Reached : ~(n < k)
      BY <3>1, <1>1, <1>8, <1>5, Numbers
    <3> QED BY <3>2, <2>1, <1>2, <1>3, <1>6 DEF HeldInOrder
  <2>4. ComingIsNewer'
    <3>1. Reached \subseteq Posted
      BY <1>1 DEF Reached, HeldBack, Typed
    <3>2. mark < n /\ \A k \in Reached : k < n
      BY <3>1, <1>1, <1>5, <1>8 DEF Typed
    <3> QED BY <3>2, <2>1, <1>2, <1>3, <1>9 DEF ComingIsNewer
  <2>5. NothingIsMissed'
    BY <2>1, <1>2, <1>3, <1>4, <1>6, <1>9 DEF NothingIsMissed
  <2>6. SinceIsHeard'
    <3>1. ~(n <= savedPause \/ n <= pausedAt \/ n <= resumingSince \/ (\E c \in Run : n <= catchUp[c].since))
      <4>1. \A p \in Point \cup {None} : ~(n <= p)
        BY <1>1, <1>5, Numbers DEF None
      <4>2. \A c \in Run : catchUp[c].since \in Point \cup {None}
        BY <1>1 DEF Typed, CatchUp
      <4> QED BY <4>1, <4>2, <1>1 DEF Typed
    <3> QED BY <3>1, <2>1, <1>2, <1>3, <1>6 DEF SinceIsHeard
  <2>7. GapInPage'
    <3>1. paused => savedPause # None /\ savedPause < n
      BY <1>1, <1>5 DEF PauseIsSaved, Typed
    <3>2. paused => \A c \in Run : catchUp[c].at = "done"
      BY <2>1 DEF CatchUpIsAlone, CatchingUp
    <3> QED BY <3>1, <3>2, <2>1, <1>2, <1>4 DEF GapInPage
  <2>8. (MarkIsBehind /\ BurstsAreRouted /\ CatchUpIsAlone)'
    BY <1>2, <1>3, <2>1 DEF MarkIsBehind, BurstsAreRouted, CatchUpIsAlone
  <2> QED BY <2>2, <2>3, <2>4, <2>5, <2>6, <2>7, <2>8 DEF Calm
<1> QED BY <1>10, <1>11, <1>12, <1>13, <1>14 DEF IInv, Standing

LEMMA DeliverKeeps ==
  ASSUME IInv, NEW m \in Message, Deliver(m)
  PROVE  IInv'
<1>1. Typed /\ OnePlace /\ HoldsStand /\ DownIsEmpty /\ PauseIsSaved /\ GapIsUntaken
      /\ PagesInOrder /\ DecidedIsOver
  BY DEF IInv, Standing
<1>2. UNCHANGED <<author, up, seen, phase, held, routed, burst, castBurst, firing, mark, catchUp,
                pausedAt, resumingSince, paused, savedPause, savedMark, queue, cursor, woken,
                gap, pauses, restarts, faults>>
  BY DEF Deliver, discord, handlers, holding, bursts, pausing, her, counters
<1>3. /\ Posted' = Posted /\ Point' = Point /\ Burst' = Burst /\ CatchUp' = CatchUp
      /\ (\A i : Heard(i)' <=> Heard(i))
      /\ HeldBack' = HeldBack
      /\ Reached' = Reached
      /\ (\A i : InBursts(i)' <=> InBursts(i))
      /\ (\A c \in Run : Active(c)' <=> Active(c)) /\ (Reading' <=> Reading) /\ (CatchingUp' <=> CatchingUp)
  BY <1>2 DEF Posted, Point, Burst, CatchUp, Heard, HeldBack, Reached, InBursts, Active, Reading, CatchingUp
<1>4. /\ up /\ m \in inFlight /\ inFlight' = inFlight \ {m} /\ raced' \in BOOLEAN
      /\ looking' = IF paused \/ m \in seen THEN looking ELSE looking \cup {m}
  <2>1. up /\ inFlight # {} /\ m = Min(inFlight) /\ inFlight' = inFlight \ {m}
    BY DEF Deliver
  <2>2. inFlight \in SUBSET Nat
    BY <1>1, Numbers DEF Typed
  <2>3. m \in inFlight
    BY <2>1, <2>2, MinIs
  <2>4. raced' \in BOOLEAN
    BY <1>1, Zenon DEF Deliver, RaceIf, Typed
  <2> QED BY <2>1, <2>3, <2>4 DEF Deliver
<1>5. ~raced' => ~raced /\ ~CatchingUp
  BY Zenon DEF Deliver, RaceIf
<1>6. m \in Posted /\ looking \subseteq looking' /\ looking' \subseteq looking \cup {m}
  BY <1>1, <1>4 DEF Typed
<1>7. Coming' \subseteq Coming /\ (~paused => Coming' = Coming)
  <2>1. looking' # looking => m \notin seen
    BY <1>4
  <2>2. Coming' \subseteq Coming
    BY <2>1, <1>2, <1>3, <1>4, <1>6 DEF Coming
  <2>3. ~paused => m \in seen \/ m \in looking'
    BY <1>4
  <2>4. ~paused => Coming \subseteq Coming'
    BY <2>3, <1>2, <1>3, <1>4, <1>6 DEF Coming
  <2> QED BY <2>2, <2>4
<1>8. Typed'
  BY <1>1, <1>2, <1>3, <1>4, <1>5, <1>6, <1>7 DEF Typed
<1>9. DownIsEmpty'
  BY <1>2, <1>4 DEF DownIsEmpty
<1>10. (OnePlace /\ HoldsStand /\ PauseIsSaved /\ GapIsUntaken /\ PagesInOrder /\ DecidedIsOver)'
  BY <1>1, <1>2, <1>3 DEF OnePlace, HoldsStand, PauseIsSaved, GapIsUntaken, PagesInOrder, DecidedIsOver
<1>11. ASSUME ~raced' PROVE Calm'
  <2>1. /\ ~raced
        /\ MarkIsRouted /\ MarkIsBehind /\ HeldInOrder /\ ComingIsNewer /\ NothingIsMissed
        /\ BurstsAreRouted /\ SinceIsHeard /\ CatchUpIsAlone /\ GapInPage
    BY <1>2, <1>4, <1>5, <1>6, <1>7, <1>11 DEF IInv, Calm
  <2>2. ComingIsNewer'
    BY <1>1, <1>2, <1>3, <1>4, <1>5, <1>6, <1>7, <2>1 DEF ComingIsNewer
  <2>3. NothingIsMissed'
    BY <1>1, <1>2, <1>3, <1>4, <1>5, <1>6, <1>7, <2>1 DEF NothingIsMissed
  <2>4. CatchUpIsAlone'
    <3>1. paused \/ Reading => looking' = looking
      BY <1>4, <1>5, <1>11 DEF Reading, CatchingUp
    <3> QED BY <3>1, <2>1, <1>2, <1>3, <1>5, <1>11 DEF CatchUpIsAlone
  <2>5. (MarkIsRouted /\ MarkIsBehind /\ HeldInOrder /\ BurstsAreRouted /\ SinceIsHeard /\ GapInPage)'
    BY <1>2, <1>3, <2>1 DEF MarkIsRouted, MarkIsBehind, HeldInOrder, BurstsAreRouted, SinceIsHeard, GapInPage
  <2> QED BY <2>2, <2>3, <2>4, <2>5 DEF Calm
<1> QED BY <1>8, <1>9, <1>10, <1>11 DEF IInv, Standing

LEMMA TakeLiveKeeps ==
  ASSUME IInv, NEW m \in Message, TakeLive(m)
  PROVE  IInv'
<1>1. Typed /\ OnePlace /\ HoldsStand /\ DownIsEmpty /\ PauseIsSaved /\ GapIsUntaken
      /\ PagesInOrder /\ DecidedIsOver
  BY DEF IInv, Standing
<1>2. UNCHANGED <<author, inFlight, up, held, routed, burst, castBurst, firing, mark, catchUp,
                pausedAt, resumingSince, paused, savedPause, savedMark, queue, cursor, woken,
                raced, pauses, restarts, faults>>
  BY DEF TakeLive, discord, handlers, holding, bursts, pausing, her, counters
<1>3. /\ Posted' = Posted /\ Point' = Point /\ Burst' = Burst /\ CatchUp' = CatchUp
      /\ (\A i : Heard(i)' <=> Heard(i))
      /\ HeldBack' = HeldBack
      /\ Reached' = Reached
      /\ (\A i : InBursts(i)' <=> InBursts(i))
      /\ (\A c \in Run : Active(c)' <=> Active(c)) /\ (Reading' <=> Reading) /\ (CatchingUp' <=> CatchingUp)
  BY <1>2 DEF Posted, Point, Burst, CatchUp, Heard, HeldBack, Reached, InBursts, Active, Reading, CatchingUp
<1>4. /\ m \in looking /\ looking' = looking \ {m}
      /\ \/ m \in seen /\ seen' = seen /\ phase' = phase /\ gap' = gap
         \/ /\ m \notin seen /\ seen' = seen \cup {m}
            /\ phase' = [phase EXCEPT ![m] = "cast"] /\ gap' = gap \ {m}
  BY DEF TakeLive
<1>5. up /\ m \in Posted
  BY <1>1, <1>4 DEF DownIsEmpty, Typed
<1>6. m \notin seen => phase[m] = "idle" /\ ~InBursts(m)
  BY <1>1 DEF OnePlace, InBursts
<1>7. /\ phase' \in [Message -> {"idle", "cast", "route"}]
      /\ \A k \in Message : phase'[k] = phase[k] \/ (k = m /\ m \notin seen /\ phase'[k] = "cast")
      /\ m \notin seen => phase'[m] = "cast"
  BY <1>1, <1>4 DEF Typed
<1>8. seen' = seen \cup {m} /\ gap' = gap \ {m}
  BY <1>1, <1>4 DEF GapIsUntaken
<1>9. Coming' = Coming
  <2>1. phase[m] = "cast" => m \in seen
    BY <1>1 DEF OnePlace
  <2>2. ASSUME NEW x \in Posted PROVE x \in Coming' <=> x \in Coming
    <3>1. CASE x = m
      BY <3>1, <1>2, <1>3, <1>4, <1>5, <1>7, <1>8 DEF Coming
    <3>2. CASE x # m
      BY <3>2, <1>1, <1>2, <1>3, <1>4, <1>7, <1>8, Numbers DEF Coming
    <3> QED BY <3>1, <3>2
  <2> QED BY <2>2, <1>3 DEF Coming
<1>10. Typed'
  BY <1>1, <1>2, <1>3, <1>4, <1>5, <1>7, <1>8 DEF Typed
<1>11. OnePlace'
  BY <1>1, <1>2, <1>3, <1>6, <1>7, <1>8 DEF OnePlace
<1>12. HoldsStand'
  <2>1. \A h \in held : h[1] \in Message
    BY <1>1, Numbers DEF Typed
  <2> QED BY <2>1, <1>1, <1>2, <1>3, <1>6, <1>7 DEF HoldsStand
<1>13. DownIsEmpty'
  BY <1>2, <1>5 DEF DownIsEmpty
<1>14. GapIsUntaken'
  BY <1>1, <1>2, <1>3, <1>8 DEF GapIsUntaken
<1>15. DecidedIsOver'
  BY <1>1, <1>2, <1>7, <1>8 DEF DecidedIsOver
<1>16. (PauseIsSaved /\ PagesInOrder)'
  BY <1>1, <1>2, <1>3 DEF PauseIsSaved, PagesInOrder
<1>17. ASSUME ~raced' PROVE Calm'
  <2>1. /\ ~raced
        /\ MarkIsRouted /\ MarkIsBehind /\ HeldInOrder /\ ComingIsNewer /\ NothingIsMissed
        /\ BurstsAreRouted /\ SinceIsHeard /\ CatchUpIsAlone /\ GapInPage
    BY <1>2, <1>4, <1>5, <1>6, <1>7, <1>8, <1>9, <1>17 DEF IInv, Calm
  <2>2. ComingIsNewer'
    BY <1>1, <1>2, <1>3, <1>4, <1>5, <1>6, <1>7, <1>8, <1>9, <2>1 DEF ComingIsNewer
  <2>3. NothingIsMissed'
    <3>1. \A x \in seen' : Heard(x) \/ x \in HeldBack \/ phase'[x] = "cast"
      <4> TAKE x \in seen'
      <4>1. CASE x \in seen
        <5>1. x \in Message /\ phase'[x] = phase[x]
          BY <4>1, <1>1, <1>7, Numbers DEF Typed
        <5> QED BY <5>1, <4>1, <2>1 DEF NothingIsMissed
      <4>2. CASE x \notin seen
        BY <4>2, <1>7, <1>8
      <4> QED BY <4>1, <4>2
    <3> QED BY <3>1, <2>1, <1>2, <1>3, <1>9 DEF NothingIsMissed
  <2>4. CatchUpIsAlone'
    <3>1. ~paused /\ ~Reading /\ ~CatchingUp
      BY <2>1, <1>4 DEF CatchUpIsAlone
    <3> QED BY <3>1, <2>1, <1>2, <1>3 DEF CatchUpIsAlone
  <2>5. GapInPage'
    BY <2>1, <1>2, <1>8 DEF GapInPage
  <2>6. (MarkIsRouted /\ MarkIsBehind /\ HeldInOrder /\ BurstsAreRouted /\ SinceIsHeard)'
    BY <1>2, <1>3, <2>1 DEF MarkIsRouted, MarkIsBehind, HeldInOrder, BurstsAreRouted, SinceIsHeard
  <2> QED BY <2>2, <2>3, <2>4, <2>5, <2>6 DEF Calm
<1> QED BY <1>10, <1>11, <1>12, <1>13, <1>14, <1>15, <1>16, <1>17 DEF IInv, Standing

LEMMA LookupMissesKeeps ==
  ASSUME IInv, NEW m \in Message, LookupMisses(m)
  PROVE  IInv'
<1>1. Typed /\ OnePlace /\ HoldsStand /\ DownIsEmpty /\ PauseIsSaved /\ GapIsUntaken
      /\ PagesInOrder /\ DecidedIsOver
  BY DEF IInv, Standing
<1>2. UNCHANGED <<author, inFlight, up, seen, phase, held, routed, burst, castBurst, firing, mark,
                catchUp, pausedAt, resumingSince, paused, savedPause, savedMark, queue, cursor,
                woken, gap, pauses, restarts>>
  BY DEF LookupMisses, discord, handlers, holding, bursts, pausing, her, counters
<1>3. /\ Posted' = Posted /\ Point' = Point /\ Burst' = Burst /\ CatchUp' = CatchUp
      /\ (\A i : Heard(i)' <=> Heard(i))
      /\ HeldBack' = HeldBack
      /\ Reached' = Reached
      /\ (\A i : InBursts(i)' <=> InBursts(i))
      /\ (\A c \in Run : Active(c)' <=> Active(c)) /\ (Reading' <=> Reading) /\ (CatchingUp' <=> CatchingUp)
  BY <1>2 DEF Posted, Point, Burst, CatchUp, Heard, HeldBack, Reached, InBursts, Active, Reading, CatchingUp
<1>4. m \in looking /\ looking' = looking \ {m}
  BY DEF LookupMisses
<1>5. raced' \in BOOLEAN /\ raced'
  BY <1>1, Zenon DEF LookupMisses, RaceIf, Typed
<1>6. Typed'
  BY <1>1, <1>2, <1>3, <1>4, <1>5 DEF Typed
<1>7. DownIsEmpty'
  BY <1>1, <1>2, <1>3, <1>4, <1>5 DEF DownIsEmpty
<1>8. (OnePlace /\ HoldsStand /\ PauseIsSaved /\ GapIsUntaken /\ PagesInOrder /\ DecidedIsOver)'
  BY <1>1, <1>2, <1>3 DEF OnePlace, HoldsStand, PauseIsSaved, GapIsUntaken, PagesInOrder, DecidedIsOver
<1>9. raced'
  BY <1>5
<1> QED BY <1>6, <1>7, <1>8, <1>9 DEF IInv, Standing

LEMMA HoldKeeps ==
  ASSUME IInv, NEW m \in Message, Hold(m)
  PROVE  IInv'
<1>1. Typed /\ OnePlace /\ HoldsStand /\ DownIsEmpty /\ PauseIsSaved /\ GapIsUntaken
      /\ PagesInOrder /\ DecidedIsOver
  BY DEF IInv, Standing
<1>2. UNCHANGED <<author, inFlight, up, seen, looking, routed, burst, castBurst, firing, mark,
                catchUp, pausedAt, resumingSince, paused, savedPause, savedMark, queue, cursor,
                woken, gap, pauses, restarts, faults>>
  BY DEF Hold, discord, handlers, holding, bursts, pausing, her, counters
<1>3. /\ Posted' = Posted /\ Point' = Point /\ Burst' = Burst /\ CatchUp' = CatchUp
      /\ (\A i : Heard(i)' <=> Heard(i))
      /\ (\A i : InBursts(i)' <=> InBursts(i))
      /\ (\A c \in Run : Active(c)' <=> Active(c)) /\ (Reading' <=> Reading) /\ (CatchingUp' <=> CatchingUp)
  BY <1>2 DEF Posted, Point, Burst, CatchUp, Heard, InBursts, Active, Reading, CatchingUp
<1>4. /\ phase[m] = "cast" /\ phase' = [phase EXCEPT ![m] = "route"]
      /\ held' = held \cup {<<m, "routing">>}
  BY DEF Hold
<1>5. raced' \in BOOLEAN
  BY <1>1, Zenon DEF Hold, RaceIf, Typed
<1>6. ~raced' => ~raced /\ \A k \in 1..(m - 1) : k \notin (inFlight \cup looking) \ seen /\ phase[k] # "cast"
  BY Zenon DEF Hold, RaceIf
<1>7. m \in seen /\ m \in Posted /\ ~InBursts(m) /\ up
  BY <1>1, <1>4 DEF OnePlace, DownIsEmpty, Typed
<1>8. /\ phase' \in [Message -> {"idle", "cast", "route"}] /\ phase'[m] = "route"
      /\ \A k \in Message : k # m => phase'[k] = phase[k]
  BY <1>1, <1>4 DEF Typed
<1>9. HeldBack' = HeldBack \cup {m} /\ Reached' = Reached \cup {m}
  <2>1. held \subseteq Posted \X {"routing", "burst"} /\ held' \subseteq Posted \X {"routing", "burst"}
    BY <1>1, <1>4, <1>7 DEF Typed
  <2>2. \A x : x \in HeldBack' <=> x \in HeldBack \/ x = m
    <3>1. \A x : /\ <<x, "routing">> \in held' <=> <<x, "routing">> \in held \/ x = m
                 /\ <<x, "burst">> \in held' <=> <<x, "burst">> \in held
      BY <1>4
    <3> QED BY <3>1, <2>1, HeldBackIs, HeldBackWillBe
  <2> QED BY <2>2, <1>2 DEF Reached
<1>10. Coming' = Coming \ {m} /\ m \in Coming
  <2>1. \A k \in Posted : k # m => (phase'[k] = "cast" <=> phase[k] = "cast")
    BY <1>1, <1>8, Numbers
  <2> QED BY <2>1, <1>2, <1>3, <1>4, <1>7, <1>8 DEF Coming
<1>11. Typed'
  BY <1>1, <1>2, <1>3, <1>4, <1>5, <1>7, <1>8 DEF Typed
<1>12. OnePlace'
  BY <1>1, <1>2, <1>3, <1>7, <1>8 DEF OnePlace
<1>13. HoldsStand'
  <2>1. \A h \in held : h[1] \in Message
    BY <1>1, Numbers DEF Typed
  <2>2. \A h \in held' : h \in held \/ h = <<m, "routing">>
    BY <1>4
  <2>3. \A h \in held : h[2] = "routing" => phase'[h[1]] = "route"
    BY <2>1, <1>1, <1>8 DEF HoldsStand
  <2>4. \A h \in held' : \/ h[2] = "routing" /\ phase'[h[1]] = "route"
                         \/ h[2] = "burst" /\ InBursts(h[1])
    BY <2>2, <2>3, <1>1, <1>8 DEF HoldsStand
  <2>5. \A k \in Message : phase'[k] = "route" => <<k, "routing">> \in held'
    BY <1>1, <1>4, <1>8 DEF HoldsStand
  <2> QED BY <2>4, <2>5, <1>1, <1>2, <1>3, <1>4 DEF HoldsStand
<1>14. DownIsEmpty'
  BY <1>2, <1>7 DEF DownIsEmpty
<1>15. DecidedIsOver'
  <2>1. \A k \in Message : <<k, "burst">> \in held' => <<k, "burst">> \in held
    BY <1>4
  <2> QED BY <2>1, <1>1, <1>2, <1>4, <1>8 DEF DecidedIsOver
<1>16. (PauseIsSaved /\ GapIsUntaken /\ PagesInOrder)'
  BY <1>1, <1>2, <1>3 DEF PauseIsSaved, GapIsUntaken, PagesInOrder
<1>17. ASSUME ~raced' PROVE Calm'
  <2>1. /\ ~raced
        /\ MarkIsRouted /\ MarkIsBehind /\ HeldInOrder /\ ComingIsNewer /\ NothingIsMissed
        /\ BurstsAreRouted /\ SinceIsHeard /\ CatchUpIsAlone /\ GapInPage
    BY <1>2, <1>4, <1>5, <1>6, <1>7, <1>8, <1>9, <1>10, <1>17 DEF IInv, Calm
  <2>2. /\ ~paused /\ ~Reading /\ mark < m /\ \A k \in Reached : k < m
    BY <2>1, <1>4, <1>10 DEF CatchUpIsAlone, ComingIsNewer
  \* Whatever is still to come is newer: on a page because it is taken in order.
  <2>3. \A k \in Coming' : m < k
    <3> SUFFICES ASSUME NEW k \in Coming', ~(m < k) PROVE FALSE
      OBVIOUS
    <3>1. k \in 1..(m - 1) /\ k \in Posted /\ k # m
      <4>1. k \in Posted /\ k # m
        BY <1>10 DEF Coming
      <4>2. k \in Nat \ {0} /\ m \in Nat \ {0}
        BY <4>1, <1>1, <1>7, Numbers
      <4> QED BY <4>1, <4>2
    <3>2. k \notin (inFlight \cup looking) \ seen /\ phase[k] # "cast"
      BY <3>1, <1>6, <1>17
    <3>3. PICK c \in Run : k \in catchUp[c].todo
      BY <3>1, <3>2, <1>10 DEF Coming
    <3>4. Active(c) /\ catchUp[c].own < k
      BY <3>3, <1>1 DEF PagesInOrder, Active
    <3>5. PICK d \in Run : catchUp[d].own = m
      BY <3>4, <2>1, <1>4 DEF CatchUpIsAlone, CatchingUp, Active
    <3>6. Active(d)
      BY <3>5, <1>1, Numbers DEF PagesInOrder, Active
    <3>7. c = d
      BY <3>4, <3>6, <2>1 DEF CatchUpIsAlone
    <3> QED BY <3>4, <3>5, <3>7
  <2>4. \A k \in Posted : Heard(k) \/ k \in HeldBack \/ k \in Coming
    BY <2>1, <2>2, <1>7 DEF NothingIsMissed
  <2>5. MarkIsBehind'
    BY <2>1, <2>2, <1>2, <1>3, <1>9 DEF MarkIsBehind
  <2>6. HeldInOrder'
    <3> SUFFICES ASSUME NEW k \in Reached', NEW x \in Posted, x < k PROVE Heard(x) \/ x \in HeldBack'
      BY <1>3 DEF HeldInOrder
    <3>1. CASE k \in Reached
      BY <3>1, <2>1, <1>9 DEF HeldInOrder
    <3>2. CASE k = m
      <4>1. x \notin Coming
        BY <3>2, <2>3, <1>1, <1>7, <1>10, Numbers
      <4> QED BY <4>1, <2>4, <1>9
    <3> QED BY <3>1, <3>2, <1>9
  <2>7. ComingIsNewer'
    BY <2>1, <2>3, <1>2, <1>9, <1>10 DEF ComingIsNewer
  <2>8. NothingIsMissed'
    <3>1. \A x \in seen : Heard(x) \/ x \in HeldBack' \/ phase'[x] = "cast"
      BY <2>1, <1>1, <1>8, <1>9, Numbers DEF NothingIsMissed, Typed
    <3>2. \A x \in Posted : Heard(x) \/ x \in HeldBack' \/ x \in Coming'
      BY <2>4, <1>9, <1>10
    <3> QED BY <3>1, <3>2, <1>2, <1>3 DEF NothingIsMissed
  <2>9. BurstsAreRouted'
    BY <2>1, <1>2, <1>3, <1>4, <1>9 DEF BurstsAreRouted
  <2>10. CatchUpIsAlone'
    BY <2>1, <2>2, <1>2, <1>3, <1>4, <1>8 DEF CatchUpIsAlone
  <2>11. (MarkIsRouted /\ SinceIsHeard /\ GapInPage)'
    BY <1>2, <1>3, <2>1 DEF MarkIsRouted, SinceIsHeard, GapInPage
  <2> QED BY <2>5, <2>6, <2>7, <2>8, <2>9, <2>10, <2>11 DEF Calm
<1> QED BY <1>11, <1>12, <1>13, <1>14, <1>15, <1>16, <1>17 DEF IInv, Standing

LEMMA JoinBurstKeeps ==
  ASSUME IInv, NEW m \in Message, JoinBurst(m)
  PROVE  IInv'
<1>1. Typed /\ OnePlace /\ HoldsStand /\ DownIsEmpty /\ PauseIsSaved /\ GapIsUntaken
      /\ PagesInOrder /\ DecidedIsOver
  BY DEF IInv, Standing
<1>2. UNCHANGED <<author, inFlight, up, seen, looking, castBurst, firing, catchUp, pausedAt,
                resumingSince, paused, savedPause, savedMark, queue, cursor, woken, gap, raced,
                pauses, restarts, faults>>
  BY DEF JoinBurst, discord, handlers, holding, bursts, pausing, her, counters
<1>3. /\ Posted' = Posted /\ Point' = Point /\ Burst' = Burst /\ CatchUp' = CatchUp
      /\ (\A i : Heard(i)' <=> Heard(i))
      /\ (\A c \in Run : Active(c)' <=> Active(c)) /\ (Reading' <=> Reading) /\ (CatchingUp' <=> CatchingUp)
  BY <1>2 DEF Posted, Point, Burst, CatchUp, Heard, Active, Reading, CatchingUp
<1>4. /\ phase[m] = "route" /\ phase' = [phase EXCEPT ![m] = "idle"]
      /\ burst' = burst \cup {m} /\ held' = (held \ {<<m, "routing">>}) \cup {<<m, "burst">>}
      /\ AdvanceMark({}, held')
  BY DEF JoinBurst
<1>5. /\ m \in seen /\ m \in Posted /\ ~InBursts(m) /\ up
      /\ m \notin burst /\ m \notin castBurst.ids /\ \A f \in firing : m \notin f.ids
  BY <1>1, <1>4 DEF OnePlace, DownIsEmpty, Typed, InBursts
<1>6. /\ phase' \in [Message -> {"idle", "cast", "route"}] /\ phase'[m] = "idle"
      /\ \A k \in Message : k # m => phase'[k] = phase[k]
  BY <1>1, <1>4 DEF Typed
<1>7. \A k : InBursts(k)' <=> InBursts(k) \/ k = m
  BY <1>2, <1>4 DEF InBursts
<1>8. held' \in SUBSET (Posted \X {"routing", "burst"}) /\ HeldBack' = HeldBack /\ m \in HeldBack
  <2>1. <<m, "routing">> \in held
    BY <1>1, <1>4 DEF HoldsStand
  <2>2. held' \in SUBSET (Posted \X {"routing", "burst"})
    BY <1>1, <1>4, <1>5 DEF Typed
  <2>3. \A x : /\ <<x, "routing">> \in held' <=> <<x, "routing">> \in held /\ x # m
               /\ <<x, "burst">> \in held' <=> <<x, "burst">> \in held \/ x = m
    BY <1>4
  <2>4. \A x : x \in HeldBack' <=> x \in HeldBack
    BY <2>1, <2>2, <2>3, <1>1, HeldBackIs, HeldBackWillBe DEF Typed
  <2> QED BY <2>1, <2>2, <2>4, <1>1, HeldBackIs DEF Typed, HeldBack
<1>9. /\ mark' \in Point /\ mark <= mark' /\ routed' \subseteq Posted
      /\ \A k \in routed : k \in routed' \/ k <= mark'
  BY <1>1, <1>4, <1>8, AdvanceKeeps
<1>10. Coming' = Coming
  <2>1. \A k \in Posted : phase'[k] = "cast" <=> phase[k] = "cast"
    BY <1>1, <1>4, <1>6, Numbers
  <2> QED BY <2>1, <1>2, <1>3 DEF Coming
<1>11. Typed'
  <2>1. up => savedMark <= mark'
    BY <1>1, <1>9, Numbers DEF Typed
  <2> QED BY <2>1, <1>1, <1>2, <1>3, <1>4, <1>5, <1>6, <1>8, <1>9 DEF Typed
<1>12. OnePlace'
  <2>1. \A k \in Message : phase'[k] # "idle" => k \in seen /\ ~InBursts(k)'
    BY <1>1, <1>6, <1>7 DEF OnePlace
  <2> QED BY <2>1, <1>1, <1>2, <1>4, <1>5 DEF OnePlace
<1>13. HoldsStand'
  <2>1. \A h \in held : h[1] \in Message /\ h = <<h[1], h[2]>>
    BY <1>1, Numbers DEF Typed
  <2>2. \A h \in held' : (h \in held /\ h # <<m, "routing">>) \/ h = <<m, "burst">>
    BY <1>4
  <2>3. \A h \in held : h[2] = "routing" /\ h # <<m, "routing">> => phase'[h[1]] = "route"
    BY <2>1, <1>1, <1>6 DEF HoldsStand
  <2>4. \A h \in held' : \/ h[2] = "routing" /\ phase'[h[1]] = "route"
                         \/ h[2] = "burst" /\ InBursts(h[1])'
    BY <2>2, <2>3, <1>1, <1>7 DEF HoldsStand
  <2>5. \A k \in Message : phase'[k] = "route" => <<k, "routing">> \in held'
    BY <1>1, <1>4, <1>6 DEF HoldsStand
  <2>6. \A k : <<k, "burst">> \in held \/ k = m => <<k, "burst">> \in held'
    BY <1>4
  <2> QED BY <2>4, <2>5, <2>6, <1>1, <1>2, <1>4 DEF HoldsStand
<1>14. DownIsEmpty'
  BY <1>2, <1>5 DEF DownIsEmpty
<1>15. DecidedIsOver'
  <2>1. \A k \in Message : <<k, "burst">> \in held' => <<k, "burst">> \in held \/ k = m
    BY <1>4
  <2>2. restarts = 0 => ~(woken[m] > 0)
    BY <1>1, <1>4 DEF DecidedIsOver
  <2> QED BY <2>1, <2>2, <1>1, <1>2, <1>6 DEF DecidedIsOver
<1>16. (PauseIsSaved /\ GapIsUntaken /\ PagesInOrder)'
  BY <1>1, <1>2, <1>3 DEF PauseIsSaved, GapIsUntaken, PagesInOrder
<1>17. ASSUME ~raced' PROVE Calm'
  <2>1. /\ ~raced
        /\ MarkIsRouted /\ MarkIsBehind /\ HeldInOrder /\ ComingIsNewer /\ NothingIsMissed
        /\ BurstsAreRouted /\ SinceIsHeard /\ CatchUpIsAlone /\ GapInPage
    BY <1>2, <1>4, <1>5, <1>6, <1>7, <1>8, <1>9, <1>10, <1>17 DEF IInv, Calm
  <2>2. ~paused /\ ~Reading
    BY <2>1, <1>4 DEF CatchUpIsAlone
  <2>3. (MarkIsRouted /\ MarkIsBehind /\ HeldInOrder /\ ComingIsNewer)'
    BY <2>1, <2>2, <1>1, <1>2, <1>4, <1>8, <1>10, AdvanceInOrder
  <2>4. NothingIsMissed'
    <3>1. \A x \in seen : phase[x] = "cast" => phase'[x] = "cast"
      BY <1>1, <1>4, <1>6, Numbers DEF Typed
    <3> QED BY <3>1, <2>1, <1>2, <1>3, <1>8, <1>10 DEF NothingIsMissed
  <2>5. BurstsAreRouted'
    <3>1. ASSUME NEW x \in Message, InBursts(x) \/ x = m
          PROVE  (x \in Reached' \/ x <= mark') /\ (woken[x] > 0 \/ <<x, "burst">> \in held')
      <4>1. CASE x = m
        BY <4>1, <1>4, <1>8 DEF Reached
      <4>2. CASE InBursts(x)
        <5>1. (x \in Reached \/ x <= mark) /\ (woken[x] > 0 \/ <<x, "burst">> \in held)
          BY <4>2, <2>1 DEF BurstsAreRouted
        <5>2. x \in Reached' \/ x <= mark'
          BY <5>1, <1>1, <1>8, <1>9, Numbers DEF Reached
        <5>3. <<x, "burst">> \in held => <<x, "burst">> \in held'
          BY <1>4
        <5> QED BY <5>1, <5>2, <5>3
      <4> QED BY <3>1, <4>1, <4>2
    <3> QED BY <3>1, <2>1, <1>2, <1>7 DEF BurstsAreRouted
  <2>6. CatchUpIsAlone'
    <3>1. \A x \in Message : phase'[x] # "idle" => phase[x] # "idle"
      BY <1>6
    <3> QED BY <3>1, <2>1, <2>2, <1>2, <1>3 DEF CatchUpIsAlone
  <2>7. (SinceIsHeard /\ GapInPage)'
    BY <1>2, <1>3, <2>1 DEF SinceIsHeard, GapInPage
  <2> QED BY <2>4, <2>5, <2>6, <2>7, <2>3 DEF Calm
<1> QED BY <1>11, <1>12, <1>13, <1>14, <1>15, <1>16, <1>17 DEF IInv, Standing

LEMMA CastMovesKeeps ==
  ASSUME IInv, NEW m \in Message, CastMoves(m)
  PROVE  IInv'
<1>1. Typed /\ OnePlace /\ HoldsStand /\ DownIsEmpty /\ PauseIsSaved /\ GapIsUntaken
      /\ PagesInOrder /\ DecidedIsOver
  BY DEF IInv, Standing
<1>2. UNCHANGED <<author, inFlight, up, seen, looking, burst, firing, catchUp, pausedAt,
                resumingSince, paused, savedPause, savedMark, cursor, gap, raced, pauses,
                restarts, faults>>
  BY DEF CastMoves, discord, handlers, holding, bursts, pausing, her, counters
<1>3. /\ Posted' = Posted /\ Point' = Point /\ Burst' = Burst /\ CatchUp' = CatchUp
      /\ (\A c \in Run : Active(c)' <=> Active(c)) /\ (Reading' <=> Reading) /\ (CatchingUp' <=> CatchingUp)
  BY <1>2 DEF Posted, Point, Burst, CatchUp, Active, Reading, CatchingUp
<1>4. /\ phase[m] = "route" /\ phase' = [phase EXCEPT ![m] = "idle"] /\ AdvanceMark({m}, held')
  BY DEF CastMoves
<1>5. /\ m \in seen /\ m \in Posted /\ ~InBursts(m) /\ up
      /\ m \notin burst /\ m \notin castBurst.ids /\ \A f \in firing : m \notin f.ids
  BY <1>1, <1>4 DEF OnePlace, DownIsEmpty, Typed, InBursts
<1>6. /\ phase' \in [Message -> {"idle", "cast", "route"}] /\ phase'[m] = "idle"
      /\ \A k \in Message : k # m => phase'[k] = phase[k]
  BY <1>1, <1>4 DEF Typed
<1>7. /\ castBurst' \in [ids : SUBSET Posted, direct : BOOLEAN] /\ castBurst'.ids = castBurst.ids \cup {m}
      /\ ~castBurst'.direct => ~castBurst.direct /\ held' = (held \ {<<m, "routing">>}) \cup {<<m, "burst">>}
  <2>1. castBurst.ids \cup {m} \subseteq Posted
    BY <1>1, <1>5 DEF Typed
  <2>2. \/ castBurst' = [ids |-> castBurst.ids \cup {m}, direct |-> TRUE]
        \/ /\ ~castBurst.direct /\ castBurst' = [ids |-> castBurst.ids \cup {m}, direct |-> FALSE]
           /\ held' = (held \ {<<m, "routing">>}) \cup {<<m, "burst">>}
    BY DEF CastMoves
  <2>3. ASSUME NEW d \in BOOLEAN, castBurst' = [ids |-> castBurst.ids \cup {m}, direct |-> d]
        PROVE  /\ castBurst' \in [ids : SUBSET Posted, direct : BOOLEAN]
               /\ castBurst'.ids = castBurst.ids \cup {m} /\ castBurst'.direct = d
    BY <2>1, <2>3
  <2>4. CASE castBurst' = [ids |-> castBurst.ids \cup {m}, direct |-> TRUE]
    BY <2>3, <2>4
  <2>5. CASE /\ ~castBurst.direct /\ castBurst' = [ids |-> castBurst.ids \cup {m}, direct |-> FALSE]
             /\ held' = (held \ {<<m, "routing">>}) \cup {<<m, "burst">>}
    BY <2>3, <2>5
  <2> QED BY <2>2, <2>4, <2>5
<1>8. \A k : InBursts(k)' <=> InBursts(k) \/ k = m
  BY <1>2, <1>7 DEF InBursts
<1>9. /\ held' \in SUBSET (Posted \X {"routing", "burst"})
      /\ <<m, "routing">> \in held /\ <<m, "routing">> \notin held' /\ <<m, "burst">> \notin held
      /\ \A h : h \in held' <=> (h \in held /\ h # <<m, "routing">>) \/ (h = <<m, "burst">> /\ h \in held')
      /\ <<m, "burst">> \in held' => woken' = woken
      /\ <<m, "burst">> \in held' \/ woken'[m] > 0 \/ paused
  <2>1. <<m, "routing">> \in held /\ <<m, "burst">> \notin held
    BY <1>1, <1>4, <1>5 DEF HoldsStand
  <2>2. held' = held \ {<<m, "routing">>} \/ held' = (held \ {<<m, "routing">>}) \cup {<<m, "burst">>}
    BY DEF CastMoves
  <2>3. held' \in SUBSET (Posted \X {"routing", "burst"})
    BY <2>2, <1>1, <1>5 DEF Typed
  <2>4. /\ <<m, "burst">> \in held' => woken' = woken
        /\ <<m, "burst">> \in held' \/ Decided({m}) \/ paused
    BY <2>1 DEF CastMoves
  <2> QED BY <2>1, <2>2, <2>3, <2>4, <1>1, DecidedIs
<1>10. HeldBack' \subseteq HeldBack /\ m \in HeldBack /\ \A k \in HeldBack : k \in HeldBack' \/ k = m
  <2>1. \A x : /\ <<x, "routing">> \in held' <=> <<x, "routing">> \in held /\ x # m
               /\ <<x, "burst">> \in held' => <<x, "burst">> \in held \/ x = m
               /\ <<x, "burst">> \in held => <<x, "burst">> \in held'
    BY <1>9
  <2>2. \A x : x \in HeldBack <=> <<x, "routing">> \in held \/ <<x, "burst">> \in held
    BY <1>1, HeldBackIs DEF Typed
  <2>3. \A x : x \in HeldBack' <=> <<x, "routing">> \in held' \/ <<x, "burst">> \in held'
    BY <1>9, HeldBackWillBe
  <2> QED BY <2>1, <2>2, <2>3, <1>9
<1>11. /\ mark' \in Point /\ mark <= mark' /\ routed' \subseteq Posted
       /\ \A k \in routed : k \in routed' \/ k <= mark'
  BY <1>1, <1>4, <1>5, <1>9, AdvanceKeeps
<1>12. /\ woken' \in [Message -> 0..2] /\ \A k \in Message : k # m => woken'[k] = woken[k]
       /\ \A k \in Message : woken[k] > 0 => woken'[k] > 0
       /\ woken[m] = 0 => woken'[m] \in {0, 1}
       /\ queue' = queue \/ (queue' \subseteq queue \cup {m} /\ woken'[m] > 0)
  <2>1. (woken' = woken /\ queue' = queue) \/ (Decided({m}) /\ queue' \subseteq queue \cup {m})
    BY DEF CastMoves
  <2>2. CASE woken' = woken /\ queue' = queue
    BY <2>2, <1>1 DEF Typed
  <2>3. CASE Decided({m}) /\ queue' \subseteq queue \cup {m}
    <3>1. /\ woken' \in [Message -> 0..2]
          /\ \A x \in Message : /\ woken[x] <= woken'[x] /\ (x \notin {m} => woken'[x] = woken[x])
                                /\ x \in {m} => woken'[x] > 0 /\ (woken[x] = 0 => woken'[x] = 1)
      BY <2>3, <1>1, DecidedIs
    <3> QED BY <3>1, <2>3, <1>1 DEF Typed
  <2> QED BY <2>1, <2>2, <2>3
<1>13. Coming' = Coming
  <2>1. \A k \in Posted : phase'[k] = "cast" <=> phase[k] = "cast"
    BY <1>1, <1>4, <1>6, Numbers
  <2> QED BY <2>1, <1>2, <1>3 DEF Coming
<1>14. Typed'
  <2>1. up => savedMark <= mark'
    BY <1>1, <1>11, Numbers DEF Typed
  <2>2. queue' \subseteq Posted
    BY <1>1, <1>5, <1>12 DEF Typed
  <2>3. held' \subseteq Posted \X {"routing", "burst"}
    BY <1>9
  <2> QED BY <2>1, <2>2, <2>3, <1>1, <1>2, <1>3, <1>6, <1>7, <1>11, <1>12 DEF Typed
<1>15. OnePlace'
  <2>1. \A k \in Message : phase'[k] # "idle" => k \in seen /\ ~InBursts(k)'
    BY <1>1, <1>6, <1>8 DEF OnePlace
  <2> QED BY <2>1, <1>1, <1>2, <1>5, <1>7 DEF OnePlace
<1>16. HoldsStand'
  <2>1. \A h \in held : h[1] \in Message /\ h = <<h[1], h[2]>>
    BY <1>1, Numbers DEF Typed
  <2>2. \A h \in held : h[2] = "routing" /\ h # <<m, "routing">> => phase'[h[1]] = "route"
    BY <2>1, <1>1, <1>6 DEF HoldsStand
  <2>3. \A h \in held' : \/ h[2] = "routing" /\ phase'[h[1]] = "route"
                         \/ h[2] = "burst" /\ InBursts(h[1])'
    BY <2>2, <1>1, <1>8, <1>9 DEF HoldsStand
  <2>4. \A k \in Message : phase'[k] = "route" => <<k, "routing">> \in held'
    BY <1>1, <1>6, <1>9 DEF HoldsStand
  <2>5. \A k : <<k, "burst">> \in held => <<k, "burst">> \in held'
    BY <1>9
  <2>6. ~castBurst'.direct => \A k \in castBurst'.ids : <<k, "burst">> \in held'
    BY <2>5, <1>1, <1>7 DEF HoldsStand
  <2> QED BY <2>3, <2>4, <2>5, <2>6, <1>1, <1>2 DEF HoldsStand
<1>17. DownIsEmpty'
  BY <1>2, <1>5 DEF DownIsEmpty
<1>18. GapIsUntaken'
  <2>1. queue \subseteq Message /\ gap \subseteq Message /\ \A c \in Run : catchUp[c].queued \subseteq Message
    BY <1>1, Numbers DEF Typed, CatchUp
  <2>2. \A k \in gap : woken'[k] = 0
    BY <2>1, <1>1, <1>5, <1>12 DEF GapIsUntaken
  <2>3. \A k \in Message : woken'[k] > 0 => k \in Posted
    BY <1>1, <1>5, <1>12 DEF GapIsUntaken
  <2>4. \A k \in queue' : woken'[k] > 0
    BY <2>1, <1>1, <1>12 DEF GapIsUntaken
  <2>5. \A c \in Run : \A k \in catchUp[c].queued : woken'[k] > 0
    BY <2>1, <1>1, <1>12 DEF GapIsUntaken
  <2> QED BY <2>2, <2>3, <2>4, <2>5, <1>1, <1>2, <1>3 DEF GapIsUntaken
<1>19. DecidedIsOver'
  <2> SUFFICES ASSUME restarts = 0, NEW k \in Message
               PROVE  /\ woken'[k] <= 1
                      /\ woken'[k] > 0 => /\ k \in seen /\ phase'[k] = "idle"
                                          /\ <<k, "burst">> \in held' => \E f \in firing : f.at = "settle" /\ k \in f.ids
    BY <1>2 DEF DecidedIsOver
  <2>1. CASE k = m
    <3>1. woken[m] = 0
      <4>1. woken[m] \in 0..2
        BY <1>1 DEF Typed
      <4>2. ~(woken[m] > 0)
        BY <1>1, <1>4 DEF DecidedIsOver
      <4> QED BY <4>1, <4>2
    <3>2. woken'[m] > 0 => <<m, "burst">> \notin held'
      BY <3>1, <1>9
    <3> QED BY <3>1, <3>2, <2>1, <1>5, <1>6, <1>12
  <2>2. CASE k # m
    BY <2>2, <1>1, <1>6, <1>9, <1>12 DEF DecidedIsOver
  <2> QED BY <2>1, <2>2
<1>20. (PauseIsSaved /\ PagesInOrder)'
  BY <1>1, <1>2, <1>3 DEF PauseIsSaved, PagesInOrder
<1>21. ASSUME ~raced' PROVE Calm'
  <2>1. /\ ~raced
        /\ MarkIsRouted /\ MarkIsBehind /\ HeldInOrder /\ ComingIsNewer /\ NothingIsMissed
        /\ BurstsAreRouted /\ SinceIsHeard /\ CatchUpIsAlone /\ GapInPage
    BY <1>2, <1>4, <1>5, <1>6, <1>7, <1>8, <1>9, <1>10, <1>11, <1>12, <1>13, <1>21 DEF IInv, Calm
  <2>2. ~paused /\ ~Reading
    BY <2>1, <1>4 DEF CatchUpIsAlone
  <2>3. m \in HeldBack' \/ woken'[m] > 0
    BY <2>2, <1>1, <1>9, HeldBackWillBe
  <2>4. (MarkIsRouted /\ MarkIsBehind /\ HeldInOrder /\ ComingIsNewer)'
    <3>1. {m} \in SUBSET Posted /\ \A k \in {m} : (k \in Reached \/ k <= mark) /\ (k \in HeldBack' \/ woken'[k] > 0)
      BY <2>3, <1>5, <1>10 DEF Reached
    <3>2. \A k \in HeldBack : k \in HeldBack' \/ woken'[k] > 0
      BY <2>3, <1>10
    <3>3. Coming' \subseteq Coming /\ held' \subseteq Posted \X {"routing", "burst"}
      BY <1>9, <1>13
    <3> QED BY <3>1, <3>2, <3>3, <2>1, <2>2, <1>1, <1>2, <1>4, <1>10, <1>12, AdvanceInOrder
  <2>5. \A k \in Posted : Heard(k) => Heard(k)'
    BY <1>1, <1>2, <1>12, Numbers DEF Heard
  <2>6. m \in HeldBack' \/ Heard(m)'
    BY <2>3 DEF Heard
  <2>7. NothingIsMissed'
    <3>1. \A x \in seen : phase[x] = "cast" => phase'[x] = "cast"
      BY <1>1, <1>4, <1>6, Numbers DEF Typed
    <3>2. \A x \in Posted : Heard(x) \/ x \in HeldBack => Heard(x)' \/ x \in HeldBack'
      BY <2>5, <2>6, <1>10
    <3> QED BY <3>1, <3>2, <2>1, <1>1, <1>2, <1>3, <1>13 DEF NothingIsMissed, Typed
  <2>8. BurstsAreRouted'
    <3>1. m \in Reached' \/ m <= mark'
      BY <2>2, <1>1, <1>4, <1>5, <1>9, Advancing DEF Reached
    <3>2. ASSUME NEW x \in Message, InBursts(x) \/ x = m
          PROVE  (x \in Reached' \/ x <= mark') /\ (woken'[x] > 0 \/ <<x, "burst">> \in held')
      <4>1. CASE x = m
        BY <4>1, <3>1, <2>2, <1>9
      <4>2. CASE x # m
        <5>1. (x \in Reached \/ x <= mark) /\ (woken[x] > 0 \/ <<x, "burst">> \in held)
          BY <3>2, <4>2, <2>1 DEF BurstsAreRouted
        <5>2. x \in Reached' \/ x <= mark'
          BY <5>1, <4>2, <1>1, <1>10, <1>11, Numbers DEF Reached
        <5>3. woken'[x] > 0 \/ <<x, "burst">> \in held'
          BY <5>1, <4>2, <1>9, <1>12
        <5> QED BY <5>2, <5>3
      <4> QED BY <4>1, <4>2
    <3>3. \A f \in firing : f.routed /\ (f.at = "settle" => \A x \in f.ids : woken'[x] > 0)
      <4>1. \A f \in firing : f.ids \subseteq Message
        BY <1>1, BurstFields, Numbers
      <4> QED BY <4>1, <2>1, <1>12 DEF BurstsAreRouted
    <3> QED BY <3>2, <3>3, <1>2, <1>8 DEF BurstsAreRouted
  <2>9. SinceIsHeard'
    BY <2>1, <2>5, <1>2, <1>3 DEF SinceIsHeard
  <2>10. CatchUpIsAlone'
    <3>1. \A x \in Message : phase'[x] # "idle" => phase[x] # "idle"
      BY <1>6
    <3> QED BY <3>1, <2>1, <2>2, <1>2, <1>3 DEF CatchUpIsAlone
  <2>11. (GapInPage)'
    BY <1>2, <1>3, <2>1 DEF GapInPage
  <2> QED BY <2>7, <2>8, <2>9, <2>10, <2>11, <2>4 DEF Calm
<1> QED BY <1>14, <1>15, <1>16, <1>17, <1>18, <1>19, <1>20, <1>21 DEF IInv, Standing

LEMMA RouteFailsKeeps ==
  ASSUME IInv, NEW m \in Message, RouteFails(m)
  PROVE  IInv'
<1>1. Typed /\ OnePlace /\ HoldsStand /\ DownIsEmpty /\ PauseIsSaved /\ GapIsUntaken
      /\ PagesInOrder /\ DecidedIsOver
  BY DEF IInv, Standing
<1>2. UNCHANGED <<author, inFlight, up, seen, looking, burst, castBurst, firing, catchUp, pausedAt,
                resumingSince, paused, savedPause, savedMark, queue, cursor, woken, gap, pauses,
                restarts>>
  BY DEF RouteFails, discord, handlers, holding, bursts, pausing, her, counters
<1>3. /\ Posted' = Posted /\ Point' = Point /\ Burst' = Burst /\ CatchUp' = CatchUp
      /\ (\A i : Heard(i)' <=> Heard(i))
      /\ (\A i : InBursts(i)' <=> InBursts(i))
      /\ (\A c \in Run : Active(c)' <=> Active(c)) /\ (Reading' <=> Reading) /\ (CatchingUp' <=> CatchingUp)
  BY <1>2 DEF Posted, Point, Burst, CatchUp, Heard, InBursts, Active, Reading, CatchingUp
<1>4. /\ phase[m] = "route" /\ phase' = [phase EXCEPT ![m] = "idle"]
      /\ held' = held \ {<<m, "routing">>} /\ AdvanceMark({}, held')
  BY DEF RouteFails
<1>5. raced' \in BOOLEAN /\ raced'
  BY <1>1, Zenon DEF RouteFails, RaceIf, Typed
<1>6. /\ phase' \in [Message -> {"idle", "cast", "route"}] /\ phase'[m] = "idle"
      /\ \A k \in Message : k # m => phase'[k] = phase[k]
  BY <1>1, <1>4 DEF Typed
<1>7. held' \in SUBSET (Posted \X {"routing", "burst"}) /\ up
  BY <1>1, <1>4 DEF Typed, DownIsEmpty
<1>8. /\ mark' \in Point /\ mark <= mark' /\ routed' \subseteq Posted
  BY <1>1, <1>4, <1>7, AdvanceKeeps
<1>9. Typed'
  <2>1. up => savedMark <= mark'
    BY <1>1, <1>8, Numbers DEF Typed
  <2>2. held' \subseteq Posted \X {"routing", "burst"}
    BY <1>7
  <2> QED BY <2>1, <2>2, <1>1, <1>2, <1>3, <1>5, <1>6, <1>8 DEF Typed
<1>10. OnePlace'
  <2>1. \A k \in Message : phase'[k] # "idle" => k \in seen /\ ~InBursts(k)
    BY <1>1, <1>6 DEF OnePlace
  <2> QED BY <2>1, <1>1, <1>2, <1>3 DEF OnePlace
<1>11. HoldsStand'
  <2>1. \A h \in held : h[1] \in Message /\ h = <<h[1], h[2]>>
    BY <1>1, Numbers DEF Typed
  <2>2. \A h \in held : h[2] = "routing" /\ h # <<m, "routing">> => phase'[h[1]] = "route"
    BY <2>1, <1>1, <1>6 DEF HoldsStand
  <2>3. \A h \in held' : \/ h[2] = "routing" /\ phase'[h[1]] = "route"
                         \/ h[2] = "burst" /\ InBursts(h[1])
    BY <2>2, <1>1, <1>4 DEF HoldsStand
  <2>4. \A k \in Message : phase'[k] = "route" => <<k, "routing">> \in held'
    BY <1>1, <1>4, <1>6 DEF HoldsStand
  <2>5. \A k : <<k, "burst">> \in held => <<k, "burst">> \in held'
    BY <1>4
  <2> QED BY <2>3, <2>4, <2>5, <1>1, <1>2, <1>3 DEF HoldsStand
<1>12. DownIsEmpty'
  BY <1>2, <1>7 DEF DownIsEmpty
<1>13. DecidedIsOver'
  <2>1. \A k \in Message : <<k, "burst">> \in held' => <<k, "burst">> \in held
    BY <1>4
  <2> QED BY <2>1, <1>1, <1>2, <1>6 DEF DecidedIsOver
<1>14. (PauseIsSaved /\ GapIsUntaken /\ PagesInOrder)'
  BY <1>1, <1>2, <1>3 DEF PauseIsSaved, GapIsUntaken, PagesInOrder
<1>15. raced'
  BY <1>5
<1> QED BY <1>9, <1>10, <1>11, <1>12, <1>13, <1>14, <1>15 DEF IInv, Standing

LEMMA FireBurstKeeps ==
  ASSUME IInv, FireBurst
  PROVE  IInv'
<1>1. Typed /\ OnePlace /\ HoldsStand /\ DownIsEmpty /\ PauseIsSaved /\ GapIsUntaken
      /\ PagesInOrder /\ DecidedIsOver
  BY DEF IInv, Standing
<1>2. UNCHANGED <<author, inFlight, up, seen, looking, phase, held, routed, castBurst, mark,
                catchUp, pausedAt, resumingSince, paused, savedPause, savedMark, queue, cursor,
                woken, gap, raced, pauses, restarts, faults>>
  BY DEF FireBurst, discord, handlers, holding, bursts, pausing, her, counters
<1>3. /\ Posted' = Posted /\ Point' = Point /\ Burst' = Burst /\ CatchUp' = CatchUp
      /\ (\A i : Heard(i)' <=> Heard(i))
      /\ HeldBack' = HeldBack
      /\ Reached' = Reached
      /\ (\A c \in Run : Active(c)' <=> Active(c)) /\ (Reading' <=> Reading) /\ (CatchingUp' <=> CatchingUp)
      /\ Coming' = Coming
  BY <1>2 DEF Posted, Point, Burst, CatchUp, Heard, HeldBack, Reached, Active, Reading, CatchingUp, Coming
<1>4. firing' = firing \cup Fired(burst, FALSE) /\ burst' = {} /\ UNCHANGED <<author, seen, phase, held>>
  BY <1>2 DEF FireBurst
<1>5. /\ burst' \subseteq Posted /\ castBurst' \in [ids : SUBSET Posted, direct : BOOLEAN]
      /\ firing' \subseteq Burst /\ firing \subseteq firing'
      /\ \A m : InBursts(m)' <=> InBursts(m)
      /\ \A f \in firing' : f \in firing \/ (f.at = "ask" /\ f.routed = TRUE)
      /\ OnePlace' /\ HoldsStand'
  <2>1. firing' = firing \cup Fired(burst, FALSE) \cup {}
    BY <1>4
  <2> QED BY <2>1, <1>1, <1>2, <1>4, FireKeeps
<1>6. Typed'
  BY <1>1, <1>2, <1>3, <1>5 DEF Typed
<1>7. OnePlace'
  BY <1>5
<1>8. HoldsStand'
  BY <1>5
<1>9. DownIsEmpty'
  BY <1>1, <1>2, <1>3, <1>5 DEF DownIsEmpty
<1>10. DecidedIsOver'
  <2>1. \A f \in firing : f \in firing'
    BY <1>5
  <2> QED BY <2>1, <1>1, <1>2 DEF DecidedIsOver
<1>11. (PauseIsSaved /\ GapIsUntaken /\ PagesInOrder)'
  BY <1>1, <1>2, <1>3 DEF PauseIsSaved, GapIsUntaken, PagesInOrder
<1>12. ASSUME ~raced' PROVE Calm'
  <2>1. /\ ~raced
        /\ MarkIsRouted /\ MarkIsBehind /\ HeldInOrder /\ ComingIsNewer /\ NothingIsMissed
        /\ BurstsAreRouted /\ SinceIsHeard /\ CatchUpIsAlone /\ GapInPage
    BY <1>2, <1>4, <1>5, <1>12 DEF IInv, Calm
  <2>2. BurstsAreRouted'
    <3>1. \A f \in firing' : f.routed /\ (f.at = "settle" => \A m \in f.ids : woken[m] > 0)
      BY <2>1, <1>5 DEF BurstsAreRouted
    <3> QED BY <3>1, <2>1, <1>2, <1>3, <1>5 DEF BurstsAreRouted
  <2>3. CatchUpIsAlone'
    BY <2>1, <1>2, <1>3, <1>5 DEF CatchUpIsAlone
  <2>4. (MarkIsRouted /\ MarkIsBehind /\ HeldInOrder /\ ComingIsNewer /\ NothingIsMissed /\ SinceIsHeard /\ GapInPage)'
    BY <1>2, <1>3, <2>1 DEF MarkIsRouted, MarkIsBehind, HeldInOrder, ComingIsNewer, NothingIsMissed, SinceIsHeard, GapInPage
  <2> QED BY <2>2, <2>3, <2>4 DEF Calm
<1> QED BY <1>6, <1>7, <1>8, <1>9, <1>10, <1>11, <1>12 DEF IInv, Standing

LEMMA FireCastBurstKeeps ==
  ASSUME IInv, FireCastBurst
  PROVE  IInv'
<1>1. Typed /\ OnePlace /\ HoldsStand /\ DownIsEmpty /\ PauseIsSaved /\ GapIsUntaken
      /\ PagesInOrder /\ DecidedIsOver
  BY DEF IInv, Standing
<1>2. UNCHANGED <<author, inFlight, up, seen, looking, phase, held, routed, burst, mark, catchUp,
                pausedAt, resumingSince, paused, savedPause, savedMark, queue, cursor, woken,
                gap, raced, pauses, restarts, faults>>
  BY DEF FireCastBurst, discord, handlers, holding, bursts, pausing, her, counters
<1>3. /\ Posted' = Posted /\ Point' = Point /\ Burst' = Burst /\ CatchUp' = CatchUp
      /\ (\A i : Heard(i)' <=> Heard(i))
      /\ HeldBack' = HeldBack
      /\ Reached' = Reached
      /\ (\A c \in Run : Active(c)' <=> Active(c)) /\ (Reading' <=> Reading) /\ (CatchingUp' <=> CatchingUp)
      /\ Coming' = Coming
  BY <1>2 DEF Posted, Point, Burst, CatchUp, Heard, HeldBack, Reached, Active, Reading, CatchingUp, Coming
<1>4. firing' = firing \cup Fired(castBurst.ids, castBurst.direct) /\ castBurst' = NoBurst /\ UNCHANGED <<author, seen, phase, held>>
  BY <1>2 DEF FireCastBurst
<1>5. /\ burst' \subseteq Posted /\ castBurst' \in [ids : SUBSET Posted, direct : BOOLEAN]
      /\ firing' \subseteq Burst /\ firing \subseteq firing'
      /\ \A m : InBursts(m)' <=> InBursts(m)
      /\ \A f \in firing' : f \in firing \/ (f.at = "ask" /\ f.routed = TRUE)
      /\ OnePlace' /\ HoldsStand'
  <2>1. firing' = firing \cup {} \cup Fired(castBurst.ids, castBurst.direct)
    BY <1>4
  <2> QED BY <2>1, <1>1, <1>2, <1>4, FireKeeps
<1>6. Typed'
  BY <1>1, <1>2, <1>3, <1>5 DEF Typed
<1>7. OnePlace'
  BY <1>5
<1>8. HoldsStand'
  BY <1>5
<1>9. DownIsEmpty'
  BY <1>1, <1>2, <1>3, <1>5 DEF DownIsEmpty
<1>10. DecidedIsOver'
  <2>1. \A f \in firing : f \in firing'
    BY <1>5
  <2> QED BY <2>1, <1>1, <1>2 DEF DecidedIsOver
<1>11. (PauseIsSaved /\ GapIsUntaken /\ PagesInOrder)'
  BY <1>1, <1>2, <1>3 DEF PauseIsSaved, GapIsUntaken, PagesInOrder
<1>12. ASSUME ~raced' PROVE Calm'
  <2>1. /\ ~raced
        /\ MarkIsRouted /\ MarkIsBehind /\ HeldInOrder /\ ComingIsNewer /\ NothingIsMissed
        /\ BurstsAreRouted /\ SinceIsHeard /\ CatchUpIsAlone /\ GapInPage
    BY <1>2, <1>4, <1>5, <1>12 DEF IInv, Calm
  <2>2. BurstsAreRouted'
    <3>1. \A f \in firing' : f.routed /\ (f.at = "settle" => \A m \in f.ids : woken[m] > 0)
      BY <2>1, <1>5 DEF BurstsAreRouted
    <3> QED BY <3>1, <2>1, <1>2, <1>3, <1>5 DEF BurstsAreRouted
  <2>3. CatchUpIsAlone'
    BY <2>1, <1>2, <1>3, <1>5 DEF CatchUpIsAlone
  <2>4. (MarkIsRouted /\ MarkIsBehind /\ HeldInOrder /\ ComingIsNewer /\ NothingIsMissed /\ SinceIsHeard /\ GapInPage)'
    BY <1>2, <1>3, <2>1 DEF MarkIsRouted, MarkIsBehind, HeldInOrder, ComingIsNewer, NothingIsMissed, SinceIsHeard, GapInPage
  <2> QED BY <2>2, <2>3, <2>4 DEF Calm
<1> QED BY <1>6, <1>7, <1>8, <1>9, <1>10, <1>11, <1>12 DEF IInv, Standing

LEMMA FlushBurstsKeeps ==
  ASSUME IInv, NEW c \in Run, FlushBursts(c)
  PROVE  IInv'
<1>1. Typed /\ OnePlace /\ HoldsStand /\ DownIsEmpty /\ PauseIsSaved /\ GapIsUntaken
      /\ PagesInOrder /\ DecidedIsOver
  BY DEF IInv, Standing
<1>2. UNCHANGED <<author, inFlight, up, seen, looking, phase, held, routed, mark, pausedAt,
                resumingSince, paused, savedPause, savedMark, queue, cursor, woken, gap, raced,
                pauses, restarts, faults>>
  BY DEF FlushBursts, discord, handlers, holding, bursts, pausing, her, counters
<1>3. /\ Posted' = Posted /\ Point' = Point /\ Burst' = Burst /\ CatchUp' = CatchUp
      /\ (\A i : Heard(i)' <=> Heard(i))
      /\ HeldBack' = HeldBack
      /\ Reached' = Reached
  BY <1>2 DEF Posted, Point, Burst, CatchUp, Heard, HeldBack, Reached
<1>4. /\ catchUp[c].at = "take" /\ catchUp[c].todo = {} /\ Idle(catchUp[c].own)
      /\ catchUp' = [catchUp EXCEPT ![c].at = "clear", ![c].own = 0]
      /\ firing' = firing \cup Fired(burst, FALSE) \cup Fired(castBurst.ids, castBurst.direct)
      /\ burst' = {} /\ castBurst' = NoBurst
      /\ UNCHANGED <<author, seen, phase, held>>
  BY <1>2 DEF FlushBursts
<1>5. /\ burst' \subseteq Posted /\ castBurst' \in [ids : SUBSET Posted, direct : BOOLEAN]
      /\ firing' \subseteq Burst /\ firing \subseteq firing'
      /\ \A m : InBursts(m)' <=> InBursts(m)
      /\ \A f \in firing' : f \in firing \/ (f.at = "ask" /\ f.routed = TRUE)
      /\ OnePlace' /\ HoldsStand'
  BY <1>1, <1>4, FireKeeps
<1>6. catchUp \in [Run -> CatchUp] /\ 0 \in Point
  BY <1>1, Numbers DEF Typed
<1>7. /\ catchUp' \in [Run -> CatchUp] /\ catchUp'[c].at = "clear" /\ catchUp'[c].own = 0
      /\ \A d \in Run : /\ d # c => catchUp'[d] = catchUp[d]
                        /\ catchUp'[d].todo = catchUp[d].todo /\ catchUp'[d].queued = catchUp[d].queued
                        /\ catchUp'[d].since = catchUp[d].since /\ catchUp'[d].cursor = catchUp[d].cursor
  BY <1>4, <1>6 DEF CatchUp
<1>8. /\ \A d \in Run : (Active(d)' <=> Active(d)) /\ (catchUp'[d].at = "read" <=> catchUp[d].at = "read")
      /\ Reading' <=> Reading
      /\ CatchingUp' <=> CatchingUp
      /\ Active(c) /\ up
  <2>1. \A d \in Run : /\ catchUp'[d].at # "done" <=> catchUp[d].at # "done"
                       /\ catchUp'[d].at = "read" <=> catchUp[d].at = "read"
    BY <1>4, <1>7
  <2> QED BY <2>1, <1>1, <1>4 DEF Active, Reading, CatchingUp, DownIsEmpty
<1>9. Coming' = Coming
  BY <1>2, <1>3, <1>7 DEF Coming
<1>10. Typed'
  BY <1>1, <1>2, <1>3, <1>5, <1>7 DEF Typed
<1>11. OnePlace'
  BY <1>5
<1>12. HoldsStand'
  BY <1>5
<1>13. DownIsEmpty'
  BY <1>2, <1>8 DEF DownIsEmpty
<1>14. GapIsUntaken'
  BY <1>1, <1>2, <1>3, <1>7 DEF GapIsUntaken
<1>15. PagesInOrder'
  <2> SUFFICES ASSUME NEW d \in Run
               PROVE  /\ catchUp'[d].cursor <= cursor
                      /\ catchUp'[d].at # "take" => catchUp'[d].todo = {} /\ catchUp'[d].own = 0
                      /\ catchUp'[d].at = "done" => catchUp'[d] = NotRunning
                      /\ \A m \in catchUp'[d].todo : catchUp'[d].own < m
    BY <1>2 DEF PagesInOrder
  <2>1. CASE d = c
    BY <2>1, <1>1, <1>4, <1>7 DEF PagesInOrder
  <2>2. CASE d # c
    BY <2>2, <1>1, <1>7 DEF PagesInOrder
  <2> QED BY <2>1, <2>2
<1>16. DecidedIsOver'
  <2>1. \A f \in firing : f \in firing'
    BY <1>5
  <2> QED BY <2>1, <1>1, <1>2 DEF DecidedIsOver
<1>17. (PauseIsSaved)'
  BY <1>1, <1>2, <1>3 DEF PauseIsSaved
<1>18. ASSUME ~raced' PROVE Calm'
  <2>1. /\ ~raced
        /\ MarkIsRouted /\ MarkIsBehind /\ HeldInOrder /\ ComingIsNewer /\ NothingIsMissed
        /\ BurstsAreRouted /\ SinceIsHeard /\ CatchUpIsAlone /\ GapInPage
    BY <1>2, <1>4, <1>5, <1>6, <1>7, <1>8, <1>9, <1>18 DEF IInv, Calm
  <2>2. ComingIsNewer'
    BY <2>1, <1>2, <1>3, <1>9 DEF ComingIsNewer
  <2>3. NothingIsMissed'
    BY <2>1, <1>2, <1>3, <1>8, <1>9 DEF NothingIsMissed
  <2>4. BurstsAreRouted'
    <3>1. \A f \in firing' : f.routed /\ (f.at = "settle" => \A m \in f.ids : woken[m] > 0)
      BY <2>1, <1>5 DEF BurstsAreRouted
    <3> QED BY <3>1, <2>1, <1>2, <1>3, <1>5 DEF BurstsAreRouted
  <2>5. SinceIsHeard'
    BY <2>1, <1>2, <1>3, <1>7 DEF SinceIsHeard
  <2>6. CatchUpIsAlone'
    \* The message the catch-up took has left its handler.
    <3>1. \A m \in Message : phase[m] = "idle"
      <4> SUFFICES ASSUME NEW m \in Message, phase[m] # "idle" PROVE FALSE
        OBVIOUS
      <4>1. PICK d \in Run : catchUp[d].own = m
        BY <2>1, <1>8 DEF CatchUpIsAlone, CatchingUp, Active
      <4>2. m # 0
        BY <1>1, Numbers
      <4>3. Active(d)
        BY <4>1, <4>2, <1>1 DEF PagesInOrder, Active
      <4>4. d = c
        BY <4>3, <2>1, <1>8 DEF CatchUpIsAlone
      <4> QED BY <4>1, <4>2, <4>4, <1>4 DEF Idle
    <3> QED BY <3>1, <2>1, <1>2, <1>5, <1>8 DEF CatchUpIsAlone
  <2>7. GapInPage'
    BY <2>1, <1>2, <1>4, <1>7 DEF GapInPage
  <2>8. (MarkIsRouted /\ MarkIsBehind /\ HeldInOrder)'
    BY <1>2, <1>3, <2>1 DEF MarkIsRouted, MarkIsBehind, HeldInOrder
  <2> QED BY <2>2, <2>3, <2>4, <2>5, <2>6, <2>7, <2>8 DEF Calm
<1> QED BY <1>10, <1>11, <1>12, <1>13, <1>14, <1>15, <1>16, <1>17, <1>18 DEF IInv, Standing

LEMMA AskRouterKeeps ==
  ASSUME IInv, NEW f \in firing, AskRouter(f)
  PROVE  IInv'
<1>1. Typed /\ OnePlace /\ HoldsStand /\ DownIsEmpty /\ PauseIsSaved /\ GapIsUntaken
      /\ PagesInOrder /\ DecidedIsOver
  BY DEF IInv, Standing
<1>2. UNCHANGED <<author, inFlight, up, seen, looking, phase, held, routed, burst, castBurst, mark,
                catchUp, pausedAt, resumingSince, paused, savedPause, savedMark, cursor, gap,
                raced, pauses, restarts, faults>>
  BY DEF AskRouter, discord, handlers, holding, bursts, pausing, her, counters
<1>3. /\ Posted' = Posted /\ Point' = Point /\ Burst' = Burst /\ CatchUp' = CatchUp
      /\ HeldBack' = HeldBack
      /\ Reached' = Reached
      /\ (\A c \in Run : Active(c)' <=> Active(c)) /\ (Reading' <=> Reading) /\ (CatchingUp' <=> CatchingUp)
      /\ Coming' = Coming
  BY <1>2 DEF Posted, Point, Burst, CatchUp, HeldBack, Reached, Active, Reading, CatchingUp, Coming
<1> DEFINE g == [f EXCEPT !.at = "settle"]
           waiting == {m \in f.ids : <<m, "burst">> \in held}
<1>4. /\ f.at = "ask" /\ firing' = (firing \ {f}) \cup {g}
      /\ \/ paused /\ ~f.direct /\ woken' = woken /\ queue' = queue
         \/ /\ ~(paused /\ ~f.direct) /\ Decided(waiting)
            /\ queue' = queue \/ (~f.direct /\ queue' = queue \cup {Max(f.ids)})
  BY DEF AskRouter
<1>5. /\ g \in Burst /\ g.ids = f.ids /\ g.at = "settle" /\ g.routed = f.routed /\ g.direct = f.direct
      /\ f.ids \subseteq Posted
  BY <1>1, BurstFields DEF Burst
<1> HIDE DEF g
<1>6. /\ firing' \subseteq Burst
      /\ \A m : InBursts(m)' <=> InBursts(m)
      /\ \A h \in firing : h.at = "settle" => h \in firing'
      /\ OnePlace' /\ HoldsStand'
  BY <1>1, <1>2, <1>4, <1>5, DecideKeeps
<1>7. /\ f.ids # {} /\ f.ids \subseteq seen /\ f.ids \subseteq Message
      /\ \A m \in f.ids : InBursts(m) /\ phase[m] = "idle"
      /\ ~f.direct => waiting = f.ids
  <2>1. f.ids # {} /\ f.ids \subseteq seen /\ f.ids \subseteq Message
    BY <1>1, <1>5, Numbers DEF OnePlace
  <2>2. \A m \in f.ids : InBursts(m)
    BY DEF InBursts
  <2>3. ~f.direct => \A m \in f.ids : <<m, "burst">> \in held
    BY <1>1, <1>4 DEF HoldsStand
  <2> QED BY <2>1, <2>2, <2>3, <1>1 DEF OnePlace
<1>8. waiting \subseteq f.ids /\ \A m : m \in waiting <=> m \in f.ids /\ <<m, "burst">> \in held
  OBVIOUS
<1> HIDE DEF waiting
<1>9. Max(f.ids) \in f.ids
  <2>1. Len(author) \in Nat /\ f.ids \in SUBSET (-1..Len(author))
    BY <1>1, <1>5, Numbers DEF Point
  <2> QED BY <2>1, <1>7, MaxIs
<1>10. /\ woken' \in [Message -> 0..2]
       /\ \A m \in Message : /\ m \notin waiting => woken'[m] = woken[m]
                             /\ woken[m] > 0 => woken'[m] > 0
                             /\ m \in waiting /\ woken[m] = 0 => woken'[m] \in {0, 1}
                             /\ m \in waiting => woken'[m] > 0 \/ paused
       /\ \A m \in queue' : m \in queue \/ (m \in f.ids /\ woken'[m] > 0)
  <2>1. CASE woken' = woken /\ queue' = queue /\ paused
    BY <2>1, <1>1 DEF Typed
  <2>2. CASE Decided(waiting) /\ (queue' = queue \/ (~f.direct /\ queue' = queue \cup {Max(f.ids)}))
    <3>1. /\ woken' \in [Message -> 0..2]
          /\ \A x \in Message : /\ woken[x] <= woken'[x] /\ (x \notin waiting => woken'[x] = woken[x])
                                /\ x \in waiting => woken'[x] > 0 /\ (woken[x] = 0 => woken'[x] = 1)
      BY <2>2, <1>1, DecidedIs
    <3>2. \A m \in queue' : m \in queue \/ (m \in f.ids /\ woken'[m] > 0)
      BY <3>1, <2>2, <1>7, <1>9
    <3>3. \A m \in Message : woken[m] \in 0..2 /\ woken'[m] \in 0..2
      BY <3>1, <1>1 DEF Typed
    <3> QED BY <3>1, <3>2, <3>3
  <2> QED BY <2>1, <2>2, <1>4
<1>11. Typed'
  <2>1. queue' \subseteq Posted
    BY <1>1, <1>5, <1>10 DEF Typed
  <2> QED BY <2>1, <1>1, <1>2, <1>3, <1>6, <1>10 DEF Typed
<1>12. OnePlace'
  BY <1>6
<1>13. HoldsStand'
  BY <1>6
<1>14. DownIsEmpty'
  BY <1>1, <1>2, <1>3, <1>6 DEF DownIsEmpty
<1>15. GapIsUntaken'
  <2>1. queue \subseteq Message /\ gap \subseteq Message /\ \A d \in Run : catchUp[d].queued \subseteq Message
    BY <1>1, Numbers DEF Typed, CatchUp
  <2>2. \A k \in gap : woken'[k] = 0
    BY <2>1, <1>1, <1>7, <1>8, <1>10 DEF GapIsUntaken
  <2>3. \A k \in Message : woken'[k] > 0 => k \in Posted
    BY <1>1, <1>5, <1>8, <1>10 DEF GapIsUntaken
  <2>4. \A k \in queue' : woken'[k] > 0
    BY <2>1, <1>1, <1>10 DEF GapIsUntaken
  <2>5. \A d \in Run : \A k \in catchUp[d].queued : woken'[k] > 0
    BY <2>1, <1>1, <1>10 DEF GapIsUntaken
  <2> QED BY <2>2, <2>3, <2>4, <2>5, <1>1, <1>2, <1>3 DEF GapIsUntaken
<1>16. DecidedIsOver'
  <2> SUFFICES ASSUME restarts = 0, NEW k \in Message
               PROVE  /\ woken'[k] <= 1
                      /\ woken'[k] > 0 => /\ k \in seen /\ phase[k] = "idle"
                                          /\ <<k, "burst">> \in held => \E h \in firing' : h.at = "settle" /\ k \in h.ids
    BY <1>2 DEF DecidedIsOver
  <2>1. CASE k \in waiting
    \* No other burst has it, so nothing has decided it before.
    <3>1. ~(woken[k] > 0)
      BY <2>1, <1>1, <1>4, <1>8 DEF DecidedIsOver, OnePlace
    <3>2. woken[k] = 0
      BY <3>1, <1>1 DEF Typed
    <3>3. g \in firing' /\ k \in g.ids
      BY <2>1, <1>4, <1>5, <1>8
    <3> QED BY <3>2, <3>3, <2>1, <1>5, <1>7, <1>8, <1>10
  <2>2. CASE k \notin waiting
    BY <2>2, <1>1, <1>6, <1>10 DEF DecidedIsOver
  <2> QED BY <2>1, <2>2
<1>17. (PauseIsSaved /\ PagesInOrder)'
  BY <1>1, <1>2, <1>3 DEF PauseIsSaved, PagesInOrder
<1>18. ASSUME ~raced' PROVE Calm'
  <2>1. /\ ~raced
        /\ MarkIsRouted /\ MarkIsBehind /\ HeldInOrder /\ ComingIsNewer /\ NothingIsMissed
        /\ BurstsAreRouted /\ SinceIsHeard /\ CatchUpIsAlone /\ GapInPage
    BY <1>2, <1>4, <1>5, <1>6, <1>7, <1>8, <1>9, <1>10, <1>18 DEF IInv, Calm
  <2>2. ~paused
    BY <2>1, <1>7 DEF CatchUpIsAlone
  <2>3. \A k \in Posted : Heard(k) => Heard(k)'
    BY <1>1, <1>2, <1>10, Numbers DEF Heard
  <2>4. MarkIsRouted'
    BY <2>1, <1>1, <1>2, <1>3, <1>10, Numbers DEF MarkIsRouted
  <2>5. MarkIsBehind'
    BY <2>1, <2>3, <1>1, <1>2, <1>3 DEF MarkIsBehind, Typed
  <2>6. HeldInOrder'
    BY <2>1, <2>3, <1>2, <1>3 DEF HeldInOrder
  <2>7. NothingIsMissed'
    BY <2>1, <2>3, <1>1, <1>2, <1>3 DEF NothingIsMissed, Typed
  <2>8. BurstsAreRouted'
    <3>1. \A m \in Message : InBursts(m) =>
            (m \in Reached \/ m <= mark) /\ (woken'[m] > 0 \/ <<m, "burst">> \in held)
      BY <2>1, <1>10 DEF BurstsAreRouted
    <3>2. g.routed /\ \A m \in g.ids : woken'[m] > 0
      <4>1. \A m \in f.ids : woken[m] > 0 \/ m \in waiting
        BY <2>1, <1>7, <1>8 DEF BurstsAreRouted
      <4> QED BY <4>1, <2>1, <2>2, <1>5, <1>7, <1>10 DEF BurstsAreRouted
    <3>3. \A h \in firing : h.routed /\ (h.at = "settle" => \A m \in h.ids : woken'[m] > 0)
      <4>1. \A h \in firing : h.ids \subseteq Message
        BY <1>1, BurstFields, Numbers
      <4> QED BY <4>1, <2>1, <1>10 DEF BurstsAreRouted
    <3> QED BY <3>1, <3>2, <3>3, <1>2, <1>3, <1>4, <1>6 DEF BurstsAreRouted
  <2>9. SinceIsHeard'
    BY <2>1, <2>3, <1>2, <1>3 DEF SinceIsHeard
  <2>10. CatchUpIsAlone'
    BY <2>1, <1>2, <1>3, <1>6 DEF CatchUpIsAlone
  <2>11. (ComingIsNewer /\ GapInPage)'
    BY <1>2, <1>3, <2>1 DEF ComingIsNewer, GapInPage
  <2> QED BY <2>4, <2>5, <2>6, <2>7, <2>8, <2>9, <2>10, <2>11 DEF Calm
<1> QED BY <1>11, <1>12, <1>13, <1>14, <1>15, <1>16, <1>17, <1>18 DEF IInv, Standing

LEMMA RouterFailsKeeps ==
  ASSUME IInv, NEW f \in firing, RouterFails(f)
  PROVE  IInv'
<1>1. Typed /\ OnePlace /\ HoldsStand /\ DownIsEmpty /\ PauseIsSaved /\ GapIsUntaken
      /\ PagesInOrder /\ DecidedIsOver
  BY DEF IInv, Standing
<1>2. UNCHANGED <<author, inFlight, up, seen, looking, phase, held, routed, burst, castBurst, mark,
                catchUp, pausedAt, resumingSince, paused, savedPause, savedMark, queue, cursor,
                woken, gap, pauses, restarts>>
  BY DEF RouterFails, discord, handlers, holding, bursts, pausing, her, counters
<1>3. /\ Posted' = Posted /\ Point' = Point /\ Burst' = Burst /\ CatchUp' = CatchUp
      /\ (\A i : Heard(i)' <=> Heard(i))
      /\ HeldBack' = HeldBack
      /\ Reached' = Reached
      /\ (\A c \in Run : Active(c)' <=> Active(c)) /\ (Reading' <=> Reading) /\ (CatchingUp' <=> CatchingUp)
      /\ Coming' = Coming
  BY <1>2 DEF Posted, Point, Burst, CatchUp, Heard, HeldBack, Reached, Active, Reading, CatchingUp, Coming
<1> DEFINE g == [f EXCEPT !.at = "settle", !.routed = FALSE]
<1>4. f.at = "ask" /\ firing' = (firing \ {f}) \cup {g}
  BY DEF RouterFails
<1>5. g \in Burst /\ g.ids = f.ids /\ g.at = "settle"
  <2>1. f \in Burst
    BY <1>1 DEF Typed
  <2> QED BY <2>1 DEF Burst
<1> HIDE DEF g
<1>6. /\ firing' \subseteq Burst
      /\ \A m : InBursts(m)' <=> InBursts(m)
      /\ \A h \in firing : h.at = "settle" => h \in firing'
      /\ OnePlace' /\ HoldsStand'
  BY <1>1, <1>2, <1>4, <1>5, DecideKeeps
<1>7. raced' \in BOOLEAN /\ raced'
  BY <1>1, Zenon DEF RouterFails, RaceIf, Typed
<1>8. Typed'
  BY <1>1, <1>2, <1>3, <1>6, <1>7 DEF Typed
<1>9. OnePlace'
  BY <1>6
<1>10. HoldsStand'
  BY <1>6
<1>11. DownIsEmpty'
  BY <1>1, <1>2, <1>3, <1>6 DEF DownIsEmpty
<1>12. DecidedIsOver'
  BY <1>1, <1>2, <1>6 DEF DecidedIsOver
<1>13. (PauseIsSaved /\ GapIsUntaken /\ PagesInOrder)'
  BY <1>1, <1>2, <1>3 DEF PauseIsSaved, GapIsUntaken, PagesInOrder
<1>14. raced'
  BY <1>7
<1> QED BY <1>8, <1>9, <1>10, <1>11, <1>12, <1>13, <1>14 DEF IInv, Standing

LEMMA SettleBurstKeeps ==
  ASSUME IInv, NEW f \in firing, SettleBurst(f)
  PROVE  IInv'
<1>1. Typed /\ OnePlace /\ HoldsStand /\ DownIsEmpty /\ PauseIsSaved /\ GapIsUntaken
      /\ PagesInOrder /\ DecidedIsOver
  BY DEF IInv, Standing
<1>2. UNCHANGED <<author, inFlight, up, seen, looking, phase, burst, castBurst, catchUp, pausedAt,
                resumingSince, paused, savedPause, savedMark, queue, cursor, woken, gap, raced,
                pauses, restarts, faults>>
  BY DEF SettleBurst, discord, handlers, holding, bursts, pausing, her, counters
<1>3. /\ Posted' = Posted /\ Point' = Point /\ Burst' = Burst /\ CatchUp' = CatchUp
      /\ (\A i : Heard(i)' <=> Heard(i))
      /\ (\A c \in Run : Active(c)' <=> Active(c)) /\ (Reading' <=> Reading) /\ (CatchingUp' <=> CatchingUp)
      /\ Coming' = Coming
  BY <1>2 DEF Posted, Point, Burst, CatchUp, Heard, Active, Reading, CatchingUp, Coming
<1>4. /\ f.at = "settle" /\ firing' = firing \ {f} /\ held' = held \ (f.ids \X {"burst"})
      /\ AdvanceMark(IF f.routed THEN f.ids ELSE {}, held')
  BY DEF SettleBurst
<1>5. /\ f.ids \subseteq Posted /\ f.ids \subseteq Message /\ f.ids # {}
      /\ \A m \in f.ids : InBursts(m) /\ phase[m] = "idle"
      /\ f.ids \cap (burst \cup castBurst.ids) = {}
      /\ \A h \in firing' : h \in firing /\ h.ids \cap f.ids = {}
  <2>1. f.ids \subseteq Posted /\ f.ids \subseteq Message
    BY <1>1, BurstFields, Numbers
  <2>2. \A m \in f.ids : InBursts(m)
    BY DEF InBursts
  <2> QED BY <2>1, <2>2, <1>1, <1>4 DEF OnePlace
<1>6. \A k : InBursts(k)' <=> InBursts(k) /\ k \notin f.ids
  BY <1>2, <1>4, <1>5 DEF InBursts
<1>7. /\ held' \in SUBSET (Posted \X {"routing", "burst"}) /\ held' \subseteq held
      /\ \A k : /\ <<k, "routing">> \in held' <=> <<k, "routing">> \in held
                /\ <<k, "burst">> \in held' <=> <<k, "burst">> \in held /\ k \notin f.ids
  BY <1>1, <1>4 DEF Typed
<1>8. HeldBack' \subseteq HeldBack /\ \A k \in HeldBack : k \in HeldBack' \/ k \in f.ids
  <2>1. \A x : x \in HeldBack <=> <<x, "routing">> \in held \/ <<x, "burst">> \in held
    BY <1>1, HeldBackIs DEF Typed
  <2>2. \A x : x \in HeldBack' <=> <<x, "routing">> \in held' \/ <<x, "burst">> \in held'
    BY <1>7, HeldBackWillBe
  <2> QED BY <2>1, <2>2, <1>7
<1>9. /\ mark' \in Point /\ mark <= mark' /\ routed' \subseteq Posted
      /\ \A k \in routed : k \in routed' \/ k <= mark'
  <2>1. (IF f.routed THEN f.ids ELSE {}) \in SUBSET Posted
    BY <1>5
  <2> QED BY <2>1, <1>1, <1>4, <1>7, AdvanceKeeps
<1>10. up
  BY <1>1, <1>5 DEF DownIsEmpty
<1>11. Typed'
  <2>1. up => savedMark <= mark'
    BY <1>1, <1>9, Numbers DEF Typed
  <2>2. held' \subseteq Posted \X {"routing", "burst"} /\ firing' \subseteq Burst
    BY <1>1, <1>4, <1>7 DEF Typed
  <2> QED BY <2>1, <2>2, <1>1, <1>2, <1>3, <1>9 DEF Typed
<1>12. OnePlace'
  <2>1. \A k \in Message : phase[k] # "idle" => k \in seen /\ ~InBursts(k)'
    BY <1>1, <1>6 DEF OnePlace
  <2> QED BY <2>1, <1>1, <1>2, <1>5 DEF OnePlace
<1>13. HoldsStand'
  <2>1. \A h \in held : h = <<h[1], h[2]>>
    BY <1>1 DEF Typed
  <2>2. ASSUME NEW h \in held'
        PROVE  \/ h[2] = "routing" /\ phase[h[1]] = "route"
               \/ h[2] = "burst" /\ InBursts(h[1])'
    <3>1. h \in held /\ (h[2] = "burst" => h[1] \notin f.ids)
      <4>1. h \in held /\ h = <<h[1], h[2]>>
        BY <2>1, <1>7
      <4>2. CASE h[2] = "burst"
        <5>1. h = <<h[1], "burst">>
          BY <4>1, <4>2
        <5>2. <<h[1], "burst">> \in held'
          BY <5>1
        <5> QED BY <5>2, <4>1, <1>7
      <4> QED BY <4>1, <4>2
    <3> QED BY <3>1, <1>1, <1>6 DEF HoldsStand
  <2>3. \A k \in Message : phase[k] = "route" => <<k, "routing">> \in held'
    BY <1>1, <1>7 DEF HoldsStand
  <2>4. /\ \A k \in burst : <<k, "burst">> \in held'
        /\ ~castBurst.direct => \A k \in castBurst.ids : <<k, "burst">> \in held'
    BY <1>1, <1>5, <1>7 DEF HoldsStand
  <2>5. \A h \in firing' : h.at = "ask" /\ ~h.direct => \A k \in h.ids : <<k, "burst">> \in held'
    BY <1>1, <1>5, <1>7 DEF HoldsStand
  <2> QED BY <2>2, <2>3, <2>4, <2>5, <1>2 DEF HoldsStand
<1>14. DownIsEmpty'
  BY <1>2, <1>10 DEF DownIsEmpty
<1>15. DecidedIsOver'
  <2>1. \A h \in firing : h \in firing' \/ h = f
    BY <1>4
  <2> QED BY <2>1, <1>1, <1>2, <1>7 DEF DecidedIsOver
<1>16. (PauseIsSaved /\ GapIsUntaken /\ PagesInOrder)'
  BY <1>1, <1>2, <1>3 DEF PauseIsSaved, GapIsUntaken, PagesInOrder
<1>17. ASSUME ~raced' PROVE Calm'
  <2>1. /\ ~raced
        /\ MarkIsRouted /\ MarkIsBehind /\ HeldInOrder /\ ComingIsNewer /\ NothingIsMissed
        /\ BurstsAreRouted /\ SinceIsHeard /\ CatchUpIsAlone /\ GapInPage
    BY <1>2, <1>4, <1>5, <1>6, <1>7, <1>8, <1>9, <1>10, <1>17 DEF IInv, Calm
  <2>2. ~paused
    BY <2>1, <1>5 DEF CatchUpIsAlone
  <2>3. AdvanceMark(f.ids, held') /\ \A k \in f.ids : woken[k] > 0
    BY <2>1, <1>4 DEF BurstsAreRouted
  <2>4. (MarkIsRouted /\ MarkIsBehind /\ HeldInOrder /\ ComingIsNewer)'
    <3>1. f.ids \in SUBSET Posted /\ \A k \in f.ids : (k \in Reached \/ k <= mark) /\ (k \in HeldBack' \/ woken'[k] > 0)
      BY <2>1, <2>3, <1>2, <1>5 DEF BurstsAreRouted
    <3>2. \A k \in HeldBack : k \in HeldBack' \/ woken'[k] > 0
      BY <2>3, <1>2, <1>8
    <3>3. Coming' \subseteq Coming /\ held' \subseteq Posted \X {"routing", "burst"}
      BY <1>3, <1>7
    <3> QED BY <3>1, <3>2, <3>3, <2>1, <2>2, <2>3, <1>1, <1>2, <1>8, AdvanceInOrder
  <2>5. NothingIsMissed'
    <3>1. \A x \in HeldBack : x \in HeldBack' \/ Heard(x)
      BY <2>3, <1>8 DEF Heard
    <3> QED BY <3>1, <2>1, <1>2, <1>3 DEF NothingIsMissed
  <2>6. BurstsAreRouted'
    <3>1. ASSUME NEW x \in Message, InBursts(x), x \notin f.ids
          PROVE  (x \in Reached' \/ x <= mark') /\ (woken[x] > 0 \/ <<x, "burst">> \in held')
      <4>1. (x \in Reached \/ x <= mark) /\ (woken[x] > 0 \/ <<x, "burst">> \in held)
        BY <3>1, <2>1 DEF BurstsAreRouted
      <4>2. x \in Reached' \/ x <= mark'
        BY <4>1, <3>1, <1>1, <1>8, <1>9, Numbers DEF Reached
      <4> QED BY <4>1, <4>2, <3>1, <1>7
    <3> QED BY <3>1, <2>1, <1>2, <1>5, <1>6 DEF BurstsAreRouted
  <2>7. CatchUpIsAlone'
    BY <2>1, <1>2, <1>3, <1>6 DEF CatchUpIsAlone
  <2>8. (SinceIsHeard /\ GapInPage)'
    BY <1>2, <1>3, <2>1 DEF SinceIsHeard, GapInPage
  <2> QED BY <2>5, <2>6, <2>7, <2>8, <2>4 DEF Calm
<1> QED BY <1>11, <1>12, <1>13, <1>14, <1>15, <1>16, <1>17 DEF IInv, Standing

LEMMA SaveMarksKeeps ==
  ASSUME IInv, SaveMarks
  PROVE  IInv'
<1>1. Typed /\ OnePlace /\ HoldsStand /\ DownIsEmpty /\ PauseIsSaved /\ GapIsUntaken
      /\ PagesInOrder /\ DecidedIsOver
  BY DEF IInv, Standing
<1>2. UNCHANGED <<author, inFlight, up, seen, looking, phase, held, routed, burst, castBurst,
                firing, mark, catchUp, pausedAt, resumingSince, paused, savedPause, queue,
                cursor, woken, gap, raced, pauses, restarts, faults>>
  BY DEF SaveMarks, discord, handlers, holding, bursts, pausing, her, counters
<1>3. /\ Posted' = Posted /\ Point' = Point /\ Burst' = Burst /\ CatchUp' = CatchUp
      /\ (\A i : Heard(i)' <=> Heard(i))
      /\ HeldBack' = HeldBack
      /\ Reached' = Reached
      /\ (\A i : InBursts(i)' <=> InBursts(i))
      /\ (\A c \in Run : Active(c)' <=> Active(c)) /\ (Reading' <=> Reading) /\ (CatchingUp' <=> CatchingUp)
      /\ Coming' = Coming
  BY <1>2 DEF Posted, Point, Burst, CatchUp, Heard, HeldBack, Reached, InBursts, Active, Reading, CatchingUp, Coming
<1>4. savedMark' = mark
  BY DEF SaveMarks
<1>5. Typed'
  BY <1>1, <1>2, <1>3, <1>4, Numbers DEF Typed
<1>6. (OnePlace /\ HoldsStand /\ DownIsEmpty /\ PauseIsSaved /\ GapIsUntaken /\ PagesInOrder /\ DecidedIsOver)'
  BY <1>1, <1>2, <1>3 DEF OnePlace, HoldsStand, DownIsEmpty, PauseIsSaved, GapIsUntaken, PagesInOrder, DecidedIsOver
<1>7. ASSUME ~raced' PROVE Calm'
  <2>1. /\ ~raced
        /\ MarkIsRouted /\ MarkIsBehind /\ HeldInOrder /\ ComingIsNewer /\ NothingIsMissed
        /\ BurstsAreRouted /\ SinceIsHeard /\ CatchUpIsAlone /\ GapInPage
    BY <1>2, <1>4, <1>7 DEF IInv, Calm
  <2>2. MarkIsRouted'
    <3>1. mark \in Nat /\ savedMark \in Nat /\ \A m \in Posted : m \in Nat
      BY <1>1, Numbers
    <3> QED BY <3>1, <2>1, <1>2, <1>4, MarkedIsHeard DEF MarkIsRouted, Posted
  <2>3. (MarkIsBehind /\ HeldInOrder /\ ComingIsNewer /\ NothingIsMissed /\ BurstsAreRouted /\ SinceIsHeard /\ CatchUpIsAlone /\ GapInPage)'
    BY <1>2, <1>3, <2>1 DEF MarkIsBehind, HeldInOrder, ComingIsNewer, NothingIsMissed, BurstsAreRouted, SinceIsHeard, CatchUpIsAlone, GapInPage
  <2> QED BY <2>2, <2>3 DEF Calm
<1> QED BY <1>5, <1>6, <1>7 DEF IInv, Standing

LEMMA TurnKeeps ==
  ASSUME IInv, Turn
  PROVE  IInv'
<1>1. Typed /\ OnePlace /\ HoldsStand /\ DownIsEmpty /\ PauseIsSaved /\ GapIsUntaken
      /\ PagesInOrder /\ DecidedIsOver
  BY DEF IInv, Standing
<1>2. UNCHANGED <<author, inFlight, up, seen, looking, phase, held, routed, burst, castBurst,
                firing, mark, catchUp, pausedAt, resumingSince, paused, savedPause, savedMark,
                woken, gap, raced, pauses, restarts, faults>>
  BY DEF Turn, discord, handlers, holding, bursts, pausing, her, counters
<1>3. /\ Posted' = Posted /\ Point' = Point /\ Burst' = Burst /\ CatchUp' = CatchUp
      /\ HeldBack' = HeldBack
      /\ Reached' = Reached
      /\ (\A i : InBursts(i)' <=> InBursts(i))
      /\ (\A c \in Run : Active(c)' <=> Active(c)) /\ (Reading' <=> Reading) /\ (CatchingUp' <=> CatchingUp)
      /\ Coming' = Coming
  BY <1>2 DEF Posted, Point, Burst, CatchUp, HeldBack, Reached, InBursts, Active, Reading, CatchingUp, Coming
<1>4. queue' = {} /\ (cursor' = cursor \/ cursor' = Len(author))
  BY DEF Turn
<1>5. cursor' \in Point /\ cursor <= cursor' /\ cursor' \in Nat
  BY <1>1, <1>4, Numbers DEF Typed, Point
<1>6. \A k \in Posted : Heard(k) => Heard(k)'
  BY <1>1, <1>2, <1>5, Numbers DEF Heard
<1>7. Typed'
  BY <1>1, <1>2, <1>3, <1>4, <1>5, <1>6 DEF Typed
<1>8. GapIsUntaken'
  BY <1>1, <1>2, <1>3, <1>4, <1>5, <1>6 DEF GapIsUntaken
<1>9. PagesInOrder'
  <2>1. \A c \in Run : catchUp[c].cursor \in Nat
    BY <1>1, Numbers DEF Typed, CatchUp
  <2> QED BY <2>1, <1>1, <1>2, <1>5, Numbers DEF PagesInOrder
<1>10. (OnePlace /\ HoldsStand /\ DownIsEmpty /\ PauseIsSaved /\ DecidedIsOver)'
  BY <1>1, <1>2, <1>3 DEF OnePlace, HoldsStand, DownIsEmpty, PauseIsSaved, DecidedIsOver
<1>11. ASSUME ~raced' PROVE Calm'
  <2>1. /\ ~raced
        /\ MarkIsRouted /\ MarkIsBehind /\ HeldInOrder /\ ComingIsNewer /\ NothingIsMissed
        /\ BurstsAreRouted /\ SinceIsHeard /\ CatchUpIsAlone /\ GapInPage
    BY <1>2, <1>4, <1>5, <1>6, <1>11 DEF IInv, Calm
  <2>2. MarkIsRouted'
    <3>1. \A m \in Posted : m <= cursor => m <= cursor'
      BY <1>1, <1>5, Numbers
    <3> QED BY <3>1, <2>1, <1>2, <1>3 DEF MarkIsRouted
  <2>3. MarkIsBehind'
    BY <2>1, <1>1, <1>2, <1>3, <1>6 DEF MarkIsBehind, Typed
  <2>4. HeldInOrder'
    BY <2>1, <1>2, <1>3, <1>6 DEF HeldInOrder
  <2>5. NothingIsMissed'
    BY <2>1, <1>1, <1>2, <1>3, <1>6 DEF NothingIsMissed, Typed
  <2>6. SinceIsHeard'
    BY <2>1, <1>2, <1>3, <1>6 DEF SinceIsHeard
  <2>7. GapInPage'
    <3>1. \A m \in gap : m <= cursor => m <= cursor'
      BY <1>1, <1>5, Numbers DEF Typed
    <3> QED BY <3>1, <2>1, <1>2 DEF GapInPage
  <2>8. (ComingIsNewer /\ BurstsAreRouted /\ CatchUpIsAlone)'
    BY <1>2, <1>3, <2>1 DEF ComingIsNewer, BurstsAreRouted, CatchUpIsAlone
  <2> QED BY <2>2, <2>3, <2>4, <2>5, <2>6, <2>7, <2>8 DEF Calm
<1> QED BY <1>7, <1>8, <1>9, <1>10, <1>11 DEF IInv, Standing

LEMMA PauseKeeps ==
  ASSUME IInv, Pause
  PROVE  IInv'
<1>1. Typed /\ OnePlace /\ HoldsStand /\ DownIsEmpty /\ PauseIsSaved /\ GapIsUntaken
      /\ PagesInOrder /\ DecidedIsOver
  BY DEF IInv, Standing
<1>2. UNCHANGED <<author, inFlight, up, seen, looking, phase, held, routed, burst, castBurst,
                firing, mark, catchUp, resumingSince, savedMark, queue, cursor, woken, gap,
                restarts, faults>>
  BY DEF Pause, discord, handlers, holding, bursts, pausing, her, counters
<1>3. /\ Posted' = Posted /\ Point' = Point /\ Burst' = Burst /\ CatchUp' = CatchUp
      /\ (\A i : Heard(i)' <=> Heard(i))
      /\ HeldBack' = HeldBack
      /\ Reached' = Reached
      /\ (\A i : InBursts(i)' <=> InBursts(i))
      /\ (\A c \in Run : Active(c)' <=> Active(c)) /\ (Reading' <=> Reading) /\ (CatchingUp' <=> CatchingUp)
      /\ Coming' = Coming
  BY <1>2 DEF Posted, Point, Burst, CatchUp, Heard, HeldBack, Reached, InBursts, Active, Reading, CatchingUp, Coming
<1>4. /\ up /\ ~paused /\ pauses < MaxPauses /\ paused' = TRUE /\ pauses' = pauses + 1
      /\ pausedAt' = IF resumingSince # None THEN resumingSince
                     ELSE IF savedPause # None THEN savedPause ELSE Len(author)
      /\ savedPause' = pausedAt'
  BY DEF Pause
<1>5. raced' \in BOOLEAN
  BY <1>1, Zenon DEF Pause, RaceIf, Typed
<1>6. ~raced' => ~raced /\ Delivered /\ NoBursts /\ ~CatchingUp
  BY Zenon DEF Pause, RaceIf
<1>7. pauses' \in Run
  BY <1>1, <1>4, IntakeAssumption DEF Typed, Run
<1>8. pausedAt' \in Point /\ pausedAt' # None
  <2>1. \A p \in Point : p # None
    BY <1>1, Numbers DEF None
  <2>2. Len(author) \in Point
    BY <1>1, Numbers DEF Point
  <2> QED BY <2>1, <2>2, <1>1, <1>4 DEF Typed
<1>9. Typed'
  BY <1>1, <1>2, <1>3, <1>4, <1>5, <1>7, <1>8 DEF Typed
<1>10. DownIsEmpty'
  BY <1>2, <1>4 DEF DownIsEmpty
<1>11. PauseIsSaved'
  BY <1>4, <1>8 DEF PauseIsSaved
<1>12. (OnePlace /\ HoldsStand /\ GapIsUntaken /\ PagesInOrder /\ DecidedIsOver)'
  BY <1>1, <1>2, <1>3 DEF OnePlace, HoldsStand, GapIsUntaken, PagesInOrder, DecidedIsOver
<1>13. ASSUME ~raced' PROVE Calm'
  <2>1. /\ ~raced
        /\ MarkIsRouted /\ MarkIsBehind /\ HeldInOrder /\ ComingIsNewer /\ NothingIsMissed
        /\ BurstsAreRouted /\ SinceIsHeard /\ CatchUpIsAlone /\ GapInPage
    BY <1>2, <1>4, <1>5, <1>6, <1>7, <1>8, <1>13 DEF IInv, Calm
  <2>2. /\ inFlight = {} /\ looking = {} /\ \A m \in Message : phase[m] = "idle" /\ ~InBursts(m)
        /\ ~CatchingUp /\ ~Reading /\ \A c \in Run : ~Active(c) /\ catchUp[c].todo = {}
    <3>1. Delivered /\ NoBursts /\ ~CatchingUp
      BY <1>6, <1>13
    <3>2. /\ inFlight = {} /\ looking = {} /\ \A m \in Message : phase[m] = "idle"
      BY <3>1, <1>1, Numbers DEF Delivered, Idle
    <3>3. \A m \in Message : ~InBursts(m)
      BY <3>1 DEF NoBursts, InBursts
    <3>4. \A c \in Run : catchUp[c].at = "done"
      BY <3>1 DEF CatchingUp
    <3> QED BY <3>1, <3>2, <3>3, <3>4, <1>1 DEF Reading, Active, PagesInOrder
  <2>3. HeldBack = {}
    BY <2>1, <2>2, <1>1, QuietHoldsNothing
  \* Nothing is on its way, so whatever was posted was heard.
  <2>4. \A m \in Posted : Heard(m)
    <3>1. \A m \in Posted : m \notin Coming
      BY <2>2, <1>1, Numbers DEF Coming
    <3> QED BY <3>1, <2>1, <2>2, <2>3, <1>4 DEF NothingIsMissed
  <2>5. NothingIsMissed'
    BY <2>4, <1>1, <1>2, <1>3 DEF NothingIsMissed, Typed
  <2>6. SinceIsHeard'
    BY <2>4, <1>2, <1>3 DEF SinceIsHeard
  <2>7. CatchUpIsAlone'
    BY <2>2, <1>2, <1>3 DEF CatchUpIsAlone
  <2>8. GapInPage'
    <3>1. \A m \in gap : m <= cursor
      BY <2>4, <1>1 DEF Typed, GapIsUntaken, Heard
    <3> QED BY <3>1, <1>2 DEF GapInPage
  <2>9. (MarkIsRouted /\ MarkIsBehind /\ HeldInOrder /\ ComingIsNewer /\ BurstsAreRouted)'
    BY <1>2, <1>3, <2>1 DEF MarkIsRouted, MarkIsBehind, HeldInOrder, ComingIsNewer, BurstsAreRouted
  <2> QED BY <2>5, <2>6, <2>7, <2>8, <2>9 DEF Calm
<1> QED BY <1>9, <1>10, <1>11, <1>12, <1>13 DEF IInv, Standing

LEMMA ResumeKeeps ==
  ASSUME IInv, Resume
  PROVE  IInv'
<1>1. Typed /\ OnePlace /\ HoldsStand /\ DownIsEmpty /\ PauseIsSaved /\ GapIsUntaken
      /\ PagesInOrder /\ DecidedIsOver
  BY DEF IInv, Standing
<1>2. UNCHANGED <<author, inFlight, up, seen, looking, phase, held, routed, burst, castBurst,
                firing, mark, savedPause, savedMark, queue, cursor, woken, gap, raced, pauses,
                restarts, faults>>
  BY DEF Resume, discord, handlers, holding, bursts, pausing, her, counters
<1>3. /\ Posted' = Posted /\ Point' = Point /\ Burst' = Burst /\ CatchUp' = CatchUp
      /\ (\A i : Heard(i)' <=> Heard(i))
      /\ HeldBack' = HeldBack
      /\ Reached' = Reached
      /\ (\A i : InBursts(i)' <=> InBursts(i))
  BY <1>2 DEF Posted, Point, Burst, CatchUp, Heard, HeldBack, Reached, InBursts
<1> DEFINE r == IF pausedAt # None THEN pausedAt ELSE savedPause
<1>4. /\ up /\ paused /\ paused' = FALSE /\ pausedAt' = None /\ resumingSince' = r
      /\ StartCatchUp(pauses, r)
  BY DEF Resume
<1>5. r \in Point \cup {None} /\ (r = pausedAt \/ r = savedPause) /\ pauses \in Run
  BY <1>1 DEF Typed
<1> HIDE DEF r
<1> DEFINE c == pauses
<1>6. /\ catchUp' \in [Run -> CatchUp]
      /\ catchUp'[c].at = "read" /\ catchUp'[c].since = r /\ catchUp'[c].queued = queue
      /\ catchUp'[c].cursor = cursor /\ catchUp'[c].todo = {} /\ catchUp'[c].own = 0
      /\ \A d \in Run : d # c => catchUp'[d] = catchUp[d]
  BY <1>1, <1>4, <1>5, StartIs
<1>7. c \in Run
  BY <1>5
<1> HIDE DEF c
<1>8. Typed'
  BY <1>1, <1>2, <1>3, <1>4, <1>5, <1>6 DEF Typed
<1>9. DownIsEmpty'
  BY <1>2, <1>4 DEF DownIsEmpty
<1>10. PauseIsSaved'
  BY <1>4 DEF PauseIsSaved
<1>11. GapIsUntaken'
  <2>1. \A d \in Run : \A m \in catchUp'[d].queued : woken[m] > 0
    BY <1>1, <1>6 DEF GapIsUntaken
  <2> QED BY <2>1, <1>1, <1>2, <1>3 DEF GapIsUntaken
<1>12. PagesInOrder'
  <2> SUFFICES ASSUME NEW d \in Run
               PROVE  /\ catchUp'[d].cursor <= cursor
                      /\ catchUp'[d].at # "take" => catchUp'[d].todo = {} /\ catchUp'[d].own = 0
                      /\ catchUp'[d].at = "done" => catchUp'[d] = NotRunning
                      /\ \A m \in catchUp'[d].todo : catchUp'[d].own < m
    BY <1>2 DEF PagesInOrder
  <2>1. CASE d = c
    BY <2>1, <1>1, <1>6, Numbers
  <2>2. CASE d # c
    BY <2>2, <1>1, <1>6 DEF PagesInOrder
  <2> QED BY <2>1, <2>2
<1>13. (OnePlace /\ HoldsStand /\ DecidedIsOver)'
  BY <1>1, <1>2, <1>3 DEF OnePlace, HoldsStand, DecidedIsOver
<1>14. ASSUME ~raced' PROVE Calm'
  <2>1. /\ ~raced
        /\ MarkIsRouted /\ MarkIsBehind /\ HeldInOrder /\ ComingIsNewer /\ NothingIsMissed
        /\ BurstsAreRouted /\ SinceIsHeard /\ CatchUpIsAlone /\ GapInPage
    BY <1>2, <1>4, <1>5, <1>6, <1>7, <1>14 DEF IInv, Calm
  <2>2. /\ looking = {} /\ \A m \in Message : phase[m] = "idle" /\ ~InBursts(m)
        /\ \A d \in Run : catchUp[d].at = "done"
    BY <2>1, <1>4 DEF CatchUpIsAlone, CatchingUp
  <2>3. Coming' \subseteq Coming
    <3>1. \A d \in Run : catchUp'[d].todo \subseteq catchUp[d].todo
      BY <1>6
    <3> QED BY <3>1, <1>2, <1>3 DEF Coming
  <2>4. Reading' /\ \A d \in Run : Active(d)' => d = c
    BY <2>2, <1>6, <1>7 DEF Reading, Active
  <2>5. ComingIsNewer'
    BY <2>1, <2>3, <1>2, <1>3 DEF ComingIsNewer
  <2>6. NothingIsMissed'
    BY <2>1, <2>4, <1>2, <1>3 DEF NothingIsMissed
  <2>7. SinceIsHeard'
    <3>1. \A m \in Posted : ~(m <= None)
      BY <1>1, Numbers DEF None
    <3>2. \A d \in Run : catchUp'[d].since = r \/ catchUp'[d].since = catchUp[d].since
      BY <1>6
    <3> QED BY <3>1, <3>2, <2>1, <1>2, <1>3, <1>4, <1>5 DEF SinceIsHeard
  <2>8. CatchUpIsAlone'
    BY <2>2, <2>4, <1>2, <1>3, <1>4 DEF CatchUpIsAlone
  <2>9. GapInPage'
    <3>1. \A d \in Run : catchUp'[d].at # "take" /\ catchUp'[d].at # "clear"
      BY <2>2, <1>6
    <3> QED BY <3>1, <2>1, <1>2 DEF GapInPage
  <2>10. (MarkIsRouted /\ MarkIsBehind /\ HeldInOrder /\ BurstsAreRouted)'
    BY <1>2, <1>3, <2>1 DEF MarkIsRouted, MarkIsBehind, HeldInOrder, BurstsAreRouted
  <2> QED BY <2>5, <2>6, <2>7, <2>8, <2>9, <2>10 DEF Calm
<1> QED BY <1>8, <1>9, <1>10, <1>11, <1>12, <1>13, <1>14 DEF IInv, Standing

LEMMA ReadPageKeeps ==
  ASSUME IInv, NEW c \in Run, ReadPage(c)
  PROVE  IInv'
<1>1. Typed /\ OnePlace /\ HoldsStand /\ DownIsEmpty /\ PauseIsSaved /\ GapIsUntaken
      /\ PagesInOrder /\ DecidedIsOver
  BY DEF IInv, Standing
<1>2. UNCHANGED <<author, inFlight, up, seen, looking, phase, held, routed, burst, castBurst,
                firing, mark, pausedAt, resumingSince, paused, savedPause, savedMark, queue,
                cursor, woken, gap, raced, pauses, restarts, faults>>
  BY DEF ReadPage, discord, handlers, holding, bursts, pausing, her, counters
<1>3. /\ Posted' = Posted /\ Point' = Point /\ Burst' = Burst /\ CatchUp' = CatchUp
      /\ (\A i : Heard(i)' <=> Heard(i))
      /\ HeldBack' = HeldBack
      /\ Reached' = Reached
      /\ (\A i : InBursts(i)' <=> InBursts(i))
  BY <1>2 DEF Posted, Point, Burst, CatchUp, Heard, HeldBack, Reached, InBursts
<1> DEFINE old == Max({catchUp[c].since, catchUp[c].cursor, mark})
           page == {m \in Posted : m > old} \ catchUp[c].queued
<1>4. /\ catchUp[c].at = "read"
      /\ catchUp' = [catchUp EXCEPT ![c].at = "take", ![c].todo = page]
  BY DEF ReadPage
<1>5. catchUp \in [Run -> CatchUp]
  BY <1>1 DEF Typed
<1>6. /\ old \in {catchUp[c].since, catchUp[c].cursor, mark}
      /\ old \in Int /\ mark <= old
  <2> DEFINE s == {catchUp[c].since, catchUp[c].cursor, mark}
  <2>1. Point \subseteq -1..Len(author) /\ None \in -1..Len(author) /\ Len(author) \in Nat
    BY <1>1, Numbers DEF Point, None
  <2>2. s \in SUBSET (-1..Len(author)) /\ s # {} /\ mark \in s
    <3>1. catchUp[c].since \in Point \cup {None} /\ catchUp[c].cursor \in Point
      BY <1>5 DEF CatchUp
    <3>2. mark \in Point
      BY <1>1 DEF Typed
    <3> QED BY <3>1, <3>2, <2>1
  <2> HIDE DEF s
  <2>3. Max(s) \in s /\ \A x \in s : x <= Max(s)
    BY <2>1, <2>2, MaxIs
  <2>4. Max(s) \in Int
    <3>1. Max(s) \in -1..Len(author)
      BY <2>2, <2>3
    <3> QED BY <3>1
  <2> QED BY <2>2, <2>3, <2>4 DEF s
<1>7. page \subseteq Posted /\ (\A m : m \in page <=> m \in Posted /\ m > old /\ m \notin catchUp[c].queued)
  OBVIOUS
<1> HIDE DEF old, page
<1>8. /\ catchUp' \in [Run -> CatchUp] /\ catchUp'[c].at = "take" /\ catchUp'[c].todo = page
      /\ \A d \in Run : /\ d # c => catchUp'[d] = catchUp[d]
                        /\ catchUp'[d].own = catchUp[d].own /\ catchUp'[d].queued = catchUp[d].queued
                        /\ catchUp'[d].since = catchUp[d].since /\ catchUp'[d].cursor = catchUp[d].cursor
  BY <1>4, <1>5, <1>7 DEF CatchUp
<1>9. /\ \A d \in Run : Active(d)' <=> Active(d)
      /\ CatchingUp' <=> CatchingUp
      /\ Reading' => Reading
      /\ Active(c) /\ CatchingUp /\ Reading /\ up
  <2>1. \A d \in Run : /\ catchUp'[d].at # "done" <=> catchUp[d].at # "done"
                       /\ catchUp'[d].at = "read" => catchUp[d].at = "read"
    BY <1>4, <1>8
  <2> QED BY <2>1, <1>1, <1>4 DEF Active, Reading, CatchingUp, DownIsEmpty
<1>10. Typed'
  BY <1>1, <1>2, <1>3, <1>4, <1>5, <1>6, <1>7, <1>8, <1>9 DEF Typed
<1>11. DownIsEmpty'
  BY <1>2, <1>9 DEF DownIsEmpty
<1>12. GapIsUntaken'
  BY <1>1, <1>2, <1>3, <1>8 DEF GapIsUntaken
<1>13. PagesInOrder'
  <2> SUFFICES ASSUME NEW d \in Run
               PROVE  /\ catchUp'[d].cursor <= cursor
                      /\ catchUp'[d].at # "take" => catchUp'[d].todo = {} /\ catchUp'[d].own = 0
                      /\ catchUp'[d].at = "done" => catchUp'[d] = NotRunning
                      /\ \A m \in catchUp'[d].todo : catchUp'[d].own < m
    BY <1>2 DEF PagesInOrder
  <2>1. CASE d = c
    <3>1. catchUp[c].own = 0 /\ catchUp[c].cursor <= cursor
      BY <1>1, <1>4 DEF PagesInOrder
    <3>2. \A m \in page : 0 < m
      BY <1>1, <1>7, Numbers
    <3> QED BY <3>1, <3>2, <2>1, <1>8
  <2>2. CASE d # c
    BY <2>2, <1>1, <1>8 DEF PagesInOrder
  <2> QED BY <2>1, <2>2
<1>14. (OnePlace /\ HoldsStand /\ PauseIsSaved /\ DecidedIsOver)'
  BY <1>1, <1>2, <1>3 DEF OnePlace, HoldsStand, PauseIsSaved, DecidedIsOver
<1>15. ASSUME ~raced' PROVE Calm'
  <2>1. /\ ~raced
        /\ MarkIsRouted /\ MarkIsBehind /\ HeldInOrder /\ ComingIsNewer /\ NothingIsMissed
        /\ BurstsAreRouted /\ SinceIsHeard /\ CatchUpIsAlone /\ GapInPage
    BY <1>2, <1>4, <1>5, <1>6, <1>7, <1>8, <1>9, <1>15 DEF IInv, Calm
  <2>2. /\ ~paused /\ looking = {} /\ \A m \in Message : phase[m] = "idle" /\ ~InBursts(m)
    BY <2>1, <1>9 DEF CatchUpIsAlone
  <2>3. Reached = {}
    BY <2>1, <2>2, <1>1, QuietHoldsNothing
  \* What the page leaves out was heard.
  <2>4. ASSUME NEW m \in Posted PROVE Heard(m) \/ m \in page
    <3>1. CASE m \in catchUp[c].queued
      BY <3>1, <1>1 DEF GapIsUntaken, Heard
    <3>2. CASE m > old
      BY <3>2, <3>1, <1>7
    <3>3. CASE ~(m > old)
      <4>1. m <= old /\ m \in Nat
        BY <3>3, <1>1, <1>6, Numbers
      <4>2. CASE old = catchUp[c].since
        BY <4>1, <4>2, <2>1 DEF SinceIsHeard
      <4>3. CASE old = catchUp[c].cursor
        <5>1. catchUp[c].cursor \in Nat /\ catchUp[c].cursor <= cursor /\ cursor \in Nat
          BY <1>1, <1>5, Numbers DEF CatchUp, PagesInOrder
        <5> QED BY <5>1, <4>1, <4>3 DEF Heard
      <4>4. CASE old = mark
        <5>1. m <= Max({mark, savedMark})
          BY <4>1, <4>4, <1>1, Numbers, MarkedIsHeard
        <5> QED BY <5>1, <2>1 DEF MarkIsRouted, Heard
      <4> QED BY <4>2, <4>3, <4>4, <1>6
    <3> QED BY <3>1, <3>2, <3>3
  <2>5. ComingIsNewer'
    <3>1. ASSUME NEW m \in Coming' PROVE m \in Coming \/ m \in page
      BY <3>1, <1>2, <1>3, <1>8 DEF Coming
    <3>2. \A m \in page : mark < m
      BY <1>1, <1>6, <1>7, Numbers
    <3> QED BY <3>1, <3>2, <2>1, <2>3, <1>2, <1>3 DEF ComingIsNewer
  <2>6. NothingIsMissed'
    <3>1. \A m \in page : m \in seen \/ m \in Coming'
      BY <1>2, <1>3, <1>7, <1>8 DEF Coming
    <3>2. \A m \in seen : Heard(m) \/ m \in HeldBack \/ phase[m] = "cast"
      BY <2>1 DEF NothingIsMissed
    <3>3. \A m \in Posted : Heard(m) \/ m \in HeldBack \/ m \in Coming'
      BY <3>1, <3>2, <2>2, <2>4, <1>1, Numbers
    <3> QED BY <3>2, <3>3, <1>2, <1>3 DEF NothingIsMissed
  <2>7. SinceIsHeard'
    BY <2>1, <1>2, <1>3, <1>8 DEF SinceIsHeard
  <2>8. CatchUpIsAlone'
    BY <2>1, <2>2, <1>2, <1>3, <1>8, <1>9 DEF CatchUpIsAlone
  <2>9. GapInPage'
    <3>1. \A m \in gap : m <= cursor \/ m \in page
      BY <2>4, <1>1 DEF Typed, GapIsUntaken, Heard
    <3>2. \A d \in Run : catchUp'[d].at \in {"take", "clear"} => d = c \/ catchUp'[d] = catchUp[d]
      BY <1>8
    <3> QED BY <3>1, <3>2, <2>1, <1>2, <1>8 DEF GapInPage
  <2>10. (MarkIsRouted /\ MarkIsBehind /\ HeldInOrder /\ BurstsAreRouted)'
    BY <1>2, <1>3, <2>1 DEF MarkIsRouted, MarkIsBehind, HeldInOrder, BurstsAreRouted
  <2> QED BY <2>5, <2>6, <2>7, <2>8, <2>9, <2>10 DEF Calm
<1> QED BY <1>10, <1>11, <1>12, <1>13, <1>14, <1>15 DEF IInv, Standing

LEMMA TakePageKeeps ==
  ASSUME IInv, NEW c \in Run, TakePage(c)
  PROVE  IInv'
<1>1. Typed /\ OnePlace /\ HoldsStand /\ DownIsEmpty /\ PauseIsSaved /\ GapIsUntaken
      /\ PagesInOrder /\ DecidedIsOver
  BY DEF IInv, Standing
<1>2. UNCHANGED <<author, inFlight, up, looking, held, routed, burst, castBurst, firing, mark,
                pausedAt, resumingSince, paused, savedPause, savedMark, queue, cursor, woken,
                raced, pauses, restarts, faults>>
  BY DEF TakePage, discord, handlers, holding, bursts, pausing, her, counters
<1>3. /\ Posted' = Posted /\ Point' = Point /\ Burst' = Burst /\ CatchUp' = CatchUp
      /\ (\A i : Heard(i)' <=> Heard(i))
      /\ HeldBack' = HeldBack
      /\ Reached' = Reached
      /\ (\A i : InBursts(i)' <=> InBursts(i))
  BY <1>2 DEF Posted, Point, Burst, CatchUp, Heard, HeldBack, Reached, InBursts
<1> DEFINE m == Min(catchUp[c].todo)
<1>4. /\ catchUp[c].at = "take" /\ catchUp[c].todo # {} /\ Idle(catchUp[c].own)
      /\ \/ /\ paused \/ m \in seen
            /\ catchUp' = [catchUp EXCEPT ![c].todo = @ \ {m}, ![c].own = 0]
            /\ seen' = seen /\ phase' = phase /\ gap' = gap
         \/ /\ m \notin seen
            /\ catchUp' = [catchUp EXCEPT ![c].todo = @ \ {m}, ![c].own = m]
            /\ seen' = seen \cup {m} /\ phase' = [phase EXCEPT ![m] = "cast"] /\ gap' = gap \ {m}
  BY DEF TakePage
<1>5. catchUp \in [Run -> CatchUp] /\ catchUp[c].todo \subseteq Posted
  BY <1>1 DEF Typed, CatchUp
<1>6. m \in catchUp[c].todo /\ \A x \in catchUp[c].todo : m <= x
  <2>1. catchUp[c].todo \in SUBSET Nat
    BY <1>1, <1>5, Numbers
  <2> QED BY <2>1, <1>4, MinIs
<1> HIDE DEF m
<1>7. m \in Posted /\ m \in Message /\ m \in Point /\ 0 \in Point /\ m \in Nat \ {0}
  BY <1>1, <1>5, <1>6, Numbers
<1>8. PICK own \in {0, m} :
        /\ catchUp' = [catchUp EXCEPT ![c].todo = @ \ {m}, ![c].own = own]
        /\ own = 0 => (paused \/ m \in seen) /\ seen' = seen /\ phase' = phase /\ gap' = gap
        /\ own = m => /\ m \notin seen /\ seen' = seen \cup {m}
                      /\ phase' = [phase EXCEPT ![m] = "cast"] /\ gap' = gap \ {m}
  <2>1. m # 0
    BY <1>7
  <2> QED BY <2>1, <1>4
<1>9. /\ catchUp' \in [Run -> CatchUp] /\ catchUp'[c].at = "take"
      /\ catchUp'[c].todo = catchUp[c].todo \ {m} /\ catchUp'[c].own = own
      /\ \A d \in Run : /\ d # c => catchUp'[d] = catchUp[d]
                        /\ catchUp'[d].at = catchUp[d].at /\ catchUp'[d].queued = catchUp[d].queued
                        /\ catchUp'[d].since = catchUp[d].since /\ catchUp'[d].cursor = catchUp[d].cursor
  BY <1>4, <1>5, <1>7, <1>8 DEF CatchUp
<1>10. /\ \A d \in Run : Active(d)' <=> Active(d)
       /\ CatchingUp' <=> CatchingUp
       /\ Reading' <=> Reading
       /\ Active(c) /\ CatchingUp /\ up
  BY <1>1, <1>4, <1>9 DEF Active, Reading, CatchingUp, DownIsEmpty
<1>11. m \notin seen => phase[m] = "idle" /\ ~InBursts(m)
  BY <1>1, <1>7 DEF OnePlace, InBursts
<1>12. /\ phase' \in [Message -> {"idle", "cast", "route"}]
       /\ \A k \in Message : phase'[k] = phase[k] \/ (k = m /\ own = m /\ m \notin seen /\ phase'[k] = "cast")
       /\ own = m => phase'[m] = "cast"
       /\ seen' = IF own = m THEN seen \cup {m} ELSE seen
       /\ gap' = IF own = m THEN gap \ {m} ELSE gap
  <2>1. m # 0 /\ phase \in [Message -> {"idle", "cast", "route"}]
    BY <1>1, <1>7 DEF Typed
  <2> QED BY <2>1, <1>7, <1>8
<1>13. Typed'
  BY <1>1, <1>2, <1>3, <1>7, <1>9, <1>12 DEF Typed
<1>14. OnePlace'
  BY <1>1, <1>2, <1>3, <1>11, <1>12 DEF OnePlace
<1>15. HoldsStand'
  <2>1. \A h \in held : h[1] \in Message
    BY <1>1, Numbers DEF Typed
  <2> QED BY <2>1, <1>1, <1>2, <1>3, <1>11, <1>12 DEF HoldsStand
<1>16. DownIsEmpty'
  BY <1>2, <1>10 DEF DownIsEmpty
<1>17. GapIsUntaken'
  BY <1>1, <1>2, <1>3, <1>9, <1>12 DEF GapIsUntaken
<1>18. PagesInOrder'
  <2> SUFFICES ASSUME NEW d \in Run
               PROVE  /\ catchUp'[d].cursor <= cursor
                      /\ catchUp'[d].at # "take" => catchUp'[d].todo = {} /\ catchUp'[d].own = 0
                      /\ catchUp'[d].at = "done" => catchUp'[d] = NotRunning
                      /\ \A x \in catchUp'[d].todo : catchUp'[d].own < x
    BY <1>2 DEF PagesInOrder
  <2>1. CASE d = c
    <3>1. catchUp[c].cursor <= cursor
      BY <1>1 DEF PagesInOrder
    <3>2. \A x \in catchUp[c].todo \ {m} : own < x
      <4> TAKE x \in catchUp[c].todo \ {m}
      <4>1. m <= x /\ x # m /\ x \in Nat \ {0} /\ m \in Nat \ {0}
        BY <1>1, <1>5, <1>6, <1>7, Numbers
      <4>2. m < x /\ 0 < x
        BY <4>1
      <4> QED BY <4>2, <1>8
    <3> QED BY <3>1, <3>2, <2>1, <1>9
  <2>2. CASE d # c
    BY <2>2, <1>1, <1>9 DEF PagesInOrder
  <2> QED BY <2>1, <2>2
<1>19. DecidedIsOver'
  BY <1>1, <1>2, <1>12 DEF DecidedIsOver
<1>20. (PauseIsSaved)'
  BY <1>1, <1>2, <1>3 DEF PauseIsSaved
<1>21. ASSUME ~raced' PROVE Calm'
  <2>1. /\ ~raced
        /\ MarkIsRouted /\ MarkIsBehind /\ HeldInOrder /\ ComingIsNewer /\ NothingIsMissed
        /\ BurstsAreRouted /\ SinceIsHeard /\ CatchUpIsAlone /\ GapInPage
    BY <1>2, <1>4, <1>5, <1>6, <1>7, <1>8, <1>9, <1>10, <1>11, <1>12, <1>21 DEF IInv, Calm
  <2>2. ~paused /\ ~Reading /\ looking = {}
    <3>1. ~paused /\ looking = {}
      BY <2>1, <1>10 DEF CatchUpIsAlone
    <3>2. ~Reading
      BY <2>1, <1>4, <1>10 DEF CatchUpIsAlone, Reading, Active
    <3> QED BY <3>1, <3>2
  <2>3. own = m \/ m \in seen
    BY <2>2, <1>8
  <2>4. \A k \in Message : phase[k] = "idle"
    <3> SUFFICES ASSUME NEW k \in Message, phase[k] # "idle" PROVE FALSE
      OBVIOUS
    <3>1. PICK d \in Run : catchUp[d].own = k
      BY <2>1, <1>10 DEF CatchUpIsAlone
    <3>2. k # 0
      BY <1>1, Numbers
    <3>3. Active(d)
      BY <3>1, <3>2, <1>1 DEF PagesInOrder, Active
    <3>4. d = c
      BY <3>3, <2>1, <1>10 DEF CatchUpIsAlone
    <3> QED BY <3>1, <3>2, <3>4, <1>4 DEF Idle
  <2>5. Coming' = Coming
    <3>1. ASSUME NEW x \in Posted PROVE x \in Coming' <=> x \in Coming
      <4>1. x \in Message
        BY <1>1, Numbers
      <4>2. CASE x = m
        BY <4>2, <2>3, <1>2, <1>3, <1>6, <1>7, <1>12, <2>4, <2>2, <1>9 DEF Coming
      <4>3. CASE x # m
        <5>1. /\ x \in seen' <=> x \in seen
              /\ phase'[x] = phase[x] /\ \A d \in Run : x \in catchUp'[d].todo <=> x \in catchUp[d].todo
          BY <4>1, <4>3, <1>9, <1>12
        <5> QED BY <5>1, <1>2, <1>3 DEF Coming
      <4> QED BY <4>2, <4>3
    <3> QED BY <3>1, <1>3 DEF Coming
  <2>6. ComingIsNewer'
    BY <2>1, <2>5, <1>2, <1>3 DEF ComingIsNewer
  <2>7. NothingIsMissed'
    <3>1. \A x \in seen' : Heard(x) \/ x \in HeldBack \/ phase'[x] = "cast"
      <4>1. \A x \in seen : x \in Message
        BY <1>1, Numbers DEF Typed
      <4> QED BY <4>1, <2>1, <1>12 DEF NothingIsMissed
    <3> QED BY <3>1, <2>1, <2>5, <1>2, <1>3, <1>10 DEF NothingIsMissed
  <2>8. SinceIsHeard'
    BY <2>1, <1>2, <1>3, <1>9 DEF SinceIsHeard
  <2>9. CatchUpIsAlone'
    <3>1. \A k \in Message : phase'[k] # "idle" => catchUp'[c].own = k
      BY <2>4, <1>9, <1>12
    <3> QED BY <3>1, <2>1, <2>2, <1>2, <1>3, <1>10 DEF CatchUpIsAlone
  <2>10. GapInPage'
    <3>1. \A x \in gap' : x \in gap /\ x # m
      BY <2>3, <1>1, <1>12 DEF GapIsUntaken
    <3>2. \A d \in Run, x \in gap' : x \in catchUp[d].todo => x \in catchUp'[d].todo
      BY <3>1, <1>9
    <3> QED BY <3>1, <3>2, <2>1, <1>2, <1>9 DEF GapInPage
  <2>11. (MarkIsRouted /\ MarkIsBehind /\ HeldInOrder /\ BurstsAreRouted)'
    BY <1>2, <1>3, <2>1 DEF MarkIsRouted, MarkIsBehind, HeldInOrder, BurstsAreRouted
  <2> QED BY <2>6, <2>7, <2>8, <2>9, <2>10, <2>11 DEF Calm
<1> QED BY <1>13, <1>14, <1>15, <1>16, <1>17, <1>18, <1>19, <1>20, <1>21 DEF IInv, Standing

LEMMA ReadPageFailsKeeps ==
  ASSUME IInv, NEW c \in Run, ReadPageFails(c)
  PROVE  IInv'
<1>1. Typed /\ OnePlace /\ HoldsStand /\ DownIsEmpty /\ PauseIsSaved /\ GapIsUntaken
      /\ PagesInOrder /\ DecidedIsOver
  BY DEF IInv, Standing
<1>2. UNCHANGED <<author, inFlight, up, seen, looking, phase, held, routed, burst, castBurst,
                firing, mark, pausedAt, resumingSince, paused, savedPause, savedMark, queue,
                cursor, woken, gap, pauses, restarts>>
  BY DEF ReadPageFails, discord, handlers, holding, bursts, pausing, her, counters
<1>3. /\ Posted' = Posted /\ Point' = Point /\ Burst' = Burst /\ CatchUp' = CatchUp
      /\ (\A i : Heard(i)' <=> Heard(i))
      /\ HeldBack' = HeldBack
      /\ Reached' = Reached
      /\ (\A i : InBursts(i)' <=> InBursts(i))
  BY <1>2 DEF Posted, Point, Burst, CatchUp, Heard, HeldBack, Reached, InBursts
<1>4. catchUp[c].at = "read" /\ catchUp' = [catchUp EXCEPT ![c].at = "clear"]
  BY DEF ReadPageFails
<1>5. catchUp \in [Run -> CatchUp]
  BY <1>1 DEF Typed
<1>6. /\ catchUp' \in [Run -> CatchUp] /\ catchUp'[c].at = "clear"
      /\ \A d \in Run : /\ d # c => catchUp'[d] = catchUp[d]
                        /\ catchUp'[d].own = catchUp[d].own /\ catchUp'[d].queued = catchUp[d].queued
                        /\ catchUp'[d].since = catchUp[d].since /\ catchUp'[d].cursor = catchUp[d].cursor
                        /\ catchUp'[d].todo = catchUp[d].todo
  BY <1>4, <1>5 DEF CatchUp
<1>7. up
  BY <1>1, <1>4 DEF DownIsEmpty, Active
<1>8. raced' \in BOOLEAN /\ raced'
  BY <1>1, Zenon DEF ReadPageFails, RaceIf, Typed
<1>9. Typed'
  BY <1>1, <1>2, <1>3, <1>5, <1>6, <1>8 DEF Typed
<1>10. DownIsEmpty'
  BY <1>2, <1>7 DEF DownIsEmpty
<1>11. GapIsUntaken'
  BY <1>1, <1>2, <1>3, <1>6 DEF GapIsUntaken
<1>12. PagesInOrder'
  BY <1>1, <1>2, <1>4, <1>6 DEF PagesInOrder
<1>13. (OnePlace /\ HoldsStand /\ PauseIsSaved /\ DecidedIsOver)'
  BY <1>1, <1>2, <1>3 DEF OnePlace, HoldsStand, PauseIsSaved, DecidedIsOver
<1> QED BY <1>8, <1>9, <1>10, <1>11, <1>12, <1>13 DEF IInv, Standing

LEMMA FinishCatchUpKeeps ==
  ASSUME IInv, NEW c \in Run, FinishCatchUp(c)
  PROVE  IInv'
<1>1. Typed /\ OnePlace /\ HoldsStand /\ DownIsEmpty /\ PauseIsSaved /\ GapIsUntaken
      /\ PagesInOrder /\ DecidedIsOver
  BY DEF IInv, Standing
<1>2. UNCHANGED <<author, inFlight, up, seen, looking, phase, held, routed, burst, castBurst,
                firing, mark, pausedAt, paused, savedMark, queue, cursor, woken, gap, raced,
                pauses, restarts, faults>>
  BY DEF FinishCatchUp, discord, handlers, holding, bursts, pausing, her, counters
<1>3. /\ Posted' = Posted /\ Point' = Point /\ Burst' = Burst /\ CatchUp' = CatchUp
      /\ (\A i : Heard(i)' <=> Heard(i))
      /\ HeldBack' = HeldBack
      /\ Reached' = Reached
      /\ (\A i : InBursts(i)' <=> InBursts(i))
  BY <1>2 DEF Posted, Point, Burst, CatchUp, Heard, HeldBack, Reached, InBursts
<1>4. /\ catchUp[c].at = "clear" /\ catchUp' = [catchUp EXCEPT ![c] = NotRunning]
      /\ resumingSince' = resumingSince \/ resumingSince' = None
      /\ savedPause' = savedPause \/ (savedPause' = None /\ ~paused)
  BY DEF FinishCatchUp
<1>5. /\ catchUp \in [Run -> CatchUp]
      /\ NotRunning \in CatchUp /\ NotRunning.at = "done" /\ NotRunning.todo = {} /\ NotRunning.own = 0
      /\ NotRunning.since = None /\ NotRunning.queued = {} /\ NotRunning.cursor = 0
  BY <1>1, Numbers DEF Typed, CatchUp, NotRunning
<1>6. /\ catchUp' \in [Run -> CatchUp] /\ catchUp'[c] = NotRunning
      /\ \A d \in Run : d # c => catchUp'[d] = catchUp[d]
  BY <1>4, <1>5
<1>7. Active(c) /\ up /\ catchUp[c].todo = {}
  BY <1>1, <1>4 DEF Active, DownIsEmpty, PagesInOrder
<1>8. Reading' <=> Reading
  BY <1>4, <1>5, <1>6 DEF Reading
<1>9. Coming' = Coming
  <2>1. \A d \in Run : catchUp'[d].todo = catchUp[d].todo
    BY <1>5, <1>6, <1>7
  <2> QED BY <2>1, <1>2, <1>3 DEF Coming
<1>10. Typed'
  BY <1>1, <1>2, <1>3, <1>4, <1>6 DEF Typed
<1>11. DownIsEmpty'
  BY <1>2, <1>7 DEF DownIsEmpty
<1>12. PauseIsSaved'
  BY <1>1, <1>2, <1>4 DEF PauseIsSaved
<1>13. GapIsUntaken'
  <2>1. \A d \in Run : \A m \in catchUp'[d].queued : woken[m] > 0
    BY <1>1, <1>5, <1>6 DEF GapIsUntaken
  <2> QED BY <2>1, <1>1, <1>2, <1>3 DEF GapIsUntaken
<1>14. PagesInOrder'
  BY <1>1, <1>2, <1>5, <1>6, Numbers DEF PagesInOrder
<1>15. (OnePlace /\ HoldsStand /\ DecidedIsOver)'
  BY <1>1, <1>2, <1>3 DEF OnePlace, HoldsStand, DecidedIsOver
<1>16. ASSUME ~raced' PROVE Calm'
  <2>1. /\ ~raced
        /\ MarkIsRouted /\ MarkIsBehind /\ HeldInOrder /\ ComingIsNewer /\ NothingIsMissed
        /\ BurstsAreRouted /\ SinceIsHeard /\ CatchUpIsAlone /\ GapInPage
    BY <1>2, <1>4, <1>5, <1>6, <1>7, <1>8, <1>9, <1>16 DEF IInv, Calm
  <2>2. ComingIsNewer'
    BY <2>1, <1>2, <1>3, <1>9 DEF ComingIsNewer
  <2>3. NothingIsMissed'
    BY <2>1, <1>2, <1>3, <1>8, <1>9 DEF NothingIsMissed
  <2>4. SinceIsHeard'
    <3>1. \A m \in Posted : ~(m <= None)
      BY <1>1, Numbers DEF None
    <3>2. \A d \in Run : catchUp'[d].since = None \/ catchUp'[d].since = catchUp[d].since
      BY <1>5, <1>6
    <3> QED BY <3>1, <3>2, <2>1, <1>2, <1>3, <1>4 DEF SinceIsHeard
  <2>5. CatchUpIsAlone'
    <3>1. \A d \in Run : ~Active(d)'
      BY <2>1, <1>5, <1>6, <1>7 DEF CatchUpIsAlone, Active
    <3>2. ~CatchingUp' /\ ~Reading'
      BY <3>1 DEF CatchingUp, Reading, Active
    <3> QED BY <3>1, <3>2, <2>1, <1>2, <1>3 DEF CatchUpIsAlone
  <2>6. GapInPage'
    <3>1. \A m \in gap : m <= cursor
      BY <2>1, <1>4 DEF GapInPage
    <3> QED BY <3>1, <1>2 DEF GapInPage
  <2>7. (MarkIsRouted /\ MarkIsBehind /\ HeldInOrder /\ BurstsAreRouted)'
    BY <1>2, <1>3, <2>1 DEF MarkIsRouted, MarkIsBehind, HeldInOrder, BurstsAreRouted
  <2> QED BY <2>2, <2>3, <2>4, <2>5, <2>6, <2>7 DEF Calm
<1> QED BY <1>10, <1>11, <1>12, <1>13, <1>14, <1>15, <1>16 DEF IInv, Standing

LEMMA CrashKeeps ==
  ASSUME IInv, Crash
  PROVE  IInv'
<1>1. Typed /\ OnePlace /\ HoldsStand /\ DownIsEmpty /\ PauseIsSaved /\ GapIsUntaken
      /\ PagesInOrder /\ DecidedIsOver
  BY DEF IInv, Standing
<1>2. UNCHANGED <<author, paused, savedPause, savedMark, queue, cursor, woken, gap, raced, pauses,
                faults>>
  BY DEF Crash, discord, handlers, holding, bursts, pausing, her, counters, LoseMemory
<1>3. /\ Posted' = Posted /\ Point' = Point /\ Burst' = Burst /\ CatchUp' = CatchUp
      /\ (\A i : Heard(i)' <=> Heard(i))
  BY <1>2 DEF Posted, Point, Burst, CatchUp, Heard
<1>4. /\ up /\ up' = FALSE
      /\ inFlight' = {} /\ seen' = {} /\ looking' = {} /\ phase' = [m \in Message |-> "idle"]
      /\ held' = {} /\ routed' = {} /\ mark' = 0 /\ burst' = {} /\ castBurst' = NoBurst /\ firing' = {}
      /\ catchUp' = [c \in Run |-> NotRunning] /\ pausedAt' = None /\ resumingSince' = None
      /\ restarts' = restarts + 1
  BY DEF Crash, LoseMemory
<1>5. /\ 0 \in Point /\ NoBurst \in [ids : SUBSET Posted, direct : BOOLEAN] /\ NoBurst.ids = {}
      /\ NotRunning \in CatchUp /\ NotRunning.at = "done" /\ NotRunning.todo = {} /\ NotRunning.own = 0
      /\ NotRunning.since = None /\ NotRunning.queued = {} /\ NotRunning.cursor = 0
  BY <1>1, Numbers DEF NoBurst, CatchUp, NotRunning
<1>6. /\ catchUp' \in [Run -> CatchUp] /\ \A c \in Run : catchUp'[c] = NotRunning
      /\ phase' \in [Message -> {"idle", "cast", "route"}] /\ \A m \in Message : phase'[m] = "idle"
  BY <1>4, <1>5
<1>7. /\ \A m : ~InBursts(m)'
      /\ \A c \in Run : ~Active(c)'
      /\ ~Reading' /\ ~CatchingUp'
  BY <1>4, <1>5, <1>6 DEF InBursts, Active, Reading, CatchingUp
<1>8. HeldBack' = {} /\ Reached' = {} /\ Coming' = {}
  <2>1. HeldBack' = {}
    BY <1>4 DEF HeldBack
  <2>2. \A m \in Posted : m \notin Coming'
    BY <1>1, <1>4, <1>5, <1>6, Numbers DEF Coming
  <2>3. Coming' \subseteq Posted
    BY <1>3 DEF Coming
  <2> QED BY <2>1, <2>2, <2>3, <1>4 DEF Reached
<1>9. Typed'
  <2>1. restarts' \in Nat
    BY <1>1, <1>4 DEF Typed
  <2>2. gap \subseteq Posted /\ queue \subseteq Posted /\ mark \in Point
    BY <1>1 DEF Typed
  <2> QED BY <2>1, <2>2, <1>1, <1>2, <1>3, <1>4, <1>5, <1>6 DEF Typed
<1>10. OnePlace'
  BY <1>4, <1>5, <1>6 DEF OnePlace
<1>11. HoldsStand'
  BY <1>4, <1>5, <1>6 DEF HoldsStand
<1>12. DownIsEmpty'
  BY <1>4, <1>6, <1>7 DEF DownIsEmpty
<1>13. PauseIsSaved'
  BY <1>1, <1>2, <1>4 DEF PauseIsSaved
<1>14. GapIsUntaken'
  BY <1>1, <1>2, <1>3, <1>4, <1>5, <1>6 DEF GapIsUntaken
<1>15. PagesInOrder'
  BY <1>1, <1>2, <1>5, <1>6, Numbers DEF PagesInOrder
<1>16. DecidedIsOver'
  <2>1. restarts' # 0
    BY <1>1, <1>4 DEF Typed
  <2> QED BY <2>1 DEF DecidedIsOver
<1>17. ASSUME ~raced' PROVE Calm'
  <2>1. /\ ~raced
        /\ MarkIsRouted /\ MarkIsBehind /\ HeldInOrder /\ ComingIsNewer /\ NothingIsMissed
        /\ BurstsAreRouted /\ SinceIsHeard /\ CatchUpIsAlone /\ GapInPage
    BY <1>2, <1>4, <1>5, <1>6, <1>7, <1>8, <1>17 DEF IInv, Calm
  <2>2. MarkIsRouted'
    <3>1. \A m \in Posted : m \in Nat /\ ~(m <= 0) /\ mark \in Nat /\ savedMark \in Nat
      BY <1>1, Numbers
    <3>2. \A m \in Posted : m <= Max({mark', savedMark'}) => m <= Max({mark, savedMark})
      BY <3>1, <1>2, <1>4, MarkedIsHeard
    <3> QED BY <3>2, <2>1, <1>2, <1>3 DEF MarkIsRouted
  <2>3. MarkIsBehind'
    BY <1>4, <1>8 DEF MarkIsBehind
  <2>4. HeldInOrder'
    BY <1>8 DEF HeldInOrder
  <2>5. ComingIsNewer'
    BY <1>8 DEF ComingIsNewer
  <2>6. NothingIsMissed'
    BY <1>4 DEF NothingIsMissed
  <2>7. BurstsAreRouted'
    BY <1>4, <1>7 DEF BurstsAreRouted
  <2>8. SinceIsHeard'
    <3>1. \A m \in Posted : ~(m <= None)
      BY <1>1, Numbers DEF None
    <3> QED BY <3>1, <2>1, <1>2, <1>3, <1>4, <1>5, <1>6 DEF SinceIsHeard
  <2>9. CatchUpIsAlone'
    BY <1>4, <1>6, <1>7 DEF CatchUpIsAlone
  <2>10. GapInPage'
    BY <2>1, <1>2, <1>5, <1>6 DEF GapInPage
  <2> QED BY <2>2, <2>3, <2>4, <2>5, <2>6, <2>7, <2>8, <2>9, <2>10 DEF Calm
<1> QED BY <1>9, <1>10, <1>11, <1>12, <1>13, <1>14, <1>15, <1>16, <1>17 DEF IInv, Standing

LEMMA StopKeeps ==
  ASSUME IInv, Stop
  PROVE  IInv'
<1>1. Typed /\ OnePlace /\ HoldsStand /\ DownIsEmpty /\ PauseIsSaved /\ GapIsUntaken
      /\ PagesInOrder /\ DecidedIsOver
  BY DEF IInv, Standing
<1>2. UNCHANGED <<author, paused, savedPause, queue, cursor, woken, gap, raced, pauses, faults>>
  BY DEF Stop, discord, handlers, holding, bursts, pausing, her, counters, LoseMemory
<1>3. /\ Posted' = Posted /\ Point' = Point /\ Burst' = Burst /\ CatchUp' = CatchUp
      /\ (\A i : Heard(i)' <=> Heard(i))
  BY <1>2 DEF Posted, Point, Burst, CatchUp, Heard
<1>4. /\ up /\ up' = FALSE
      /\ inFlight' = {} /\ seen' = {} /\ looking' = {} /\ phase' = [m \in Message |-> "idle"]
      /\ held' = {} /\ routed' = {} /\ mark' = 0 /\ burst' = {} /\ castBurst' = NoBurst /\ firing' = {}
      /\ catchUp' = [c \in Run |-> NotRunning] /\ pausedAt' = None /\ resumingSince' = None
      /\ restarts' = restarts + 1 /\ savedMark' = mark
  BY DEF Stop, LoseMemory
<1>5. /\ 0 \in Point /\ NoBurst \in [ids : SUBSET Posted, direct : BOOLEAN] /\ NoBurst.ids = {}
      /\ NotRunning \in CatchUp /\ NotRunning.at = "done" /\ NotRunning.todo = {} /\ NotRunning.own = 0
      /\ NotRunning.since = None /\ NotRunning.queued = {} /\ NotRunning.cursor = 0
  BY <1>1, Numbers DEF NoBurst, CatchUp, NotRunning
<1>6. /\ catchUp' \in [Run -> CatchUp] /\ \A c \in Run : catchUp'[c] = NotRunning
      /\ phase' \in [Message -> {"idle", "cast", "route"}] /\ \A m \in Message : phase'[m] = "idle"
  BY <1>4, <1>5
<1>7. /\ \A m : ~InBursts(m)'
      /\ \A c \in Run : ~Active(c)'
      /\ ~Reading' /\ ~CatchingUp'
  BY <1>4, <1>5, <1>6 DEF InBursts, Active, Reading, CatchingUp
<1>8. HeldBack' = {} /\ Reached' = {} /\ Coming' = {}
  <2>1. HeldBack' = {}
    BY <1>4 DEF HeldBack
  <2>2. \A m \in Posted : m \notin Coming'
    BY <1>1, <1>4, <1>5, <1>6, Numbers DEF Coming
  <2>3. Coming' \subseteq Posted
    BY <1>3 DEF Coming
  <2> QED BY <2>1, <2>2, <2>3, <1>4 DEF Reached
<1>9. Typed'
  <2>1. restarts' \in Nat
    BY <1>1, <1>4 DEF Typed
  <2>2. gap \subseteq Posted /\ queue \subseteq Posted /\ mark \in Point
    BY <1>1 DEF Typed
  <2> QED BY <2>1, <2>2, <1>1, <1>2, <1>3, <1>4, <1>5, <1>6 DEF Typed
<1>10. OnePlace'
  BY <1>4, <1>5, <1>6 DEF OnePlace
<1>11. HoldsStand'
  BY <1>4, <1>5, <1>6 DEF HoldsStand
<1>12. DownIsEmpty'
  BY <1>4, <1>6, <1>7 DEF DownIsEmpty
<1>13. PauseIsSaved'
  BY <1>1, <1>2, <1>4 DEF PauseIsSaved
<1>14. GapIsUntaken'
  BY <1>1, <1>2, <1>3, <1>4, <1>5, <1>6 DEF GapIsUntaken
<1>15. PagesInOrder'
  BY <1>1, <1>2, <1>5, <1>6, Numbers DEF PagesInOrder
<1>16. DecidedIsOver'
  <2>1. restarts' # 0
    BY <1>1, <1>4 DEF Typed
  <2> QED BY <2>1 DEF DecidedIsOver
<1>17. ASSUME ~raced' PROVE Calm'
  <2>1. /\ ~raced
        /\ MarkIsRouted /\ MarkIsBehind /\ HeldInOrder /\ ComingIsNewer /\ NothingIsMissed
        /\ BurstsAreRouted /\ SinceIsHeard /\ CatchUpIsAlone /\ GapInPage
    BY <1>2, <1>4, <1>5, <1>6, <1>7, <1>8, <1>17 DEF IInv, Calm
  <2>2. MarkIsRouted'
    <3>1. \A m \in Posted : m \in Nat /\ ~(m <= 0) /\ mark \in Nat /\ savedMark \in Nat
      BY <1>1, Numbers
    <3>2. \A m \in Posted : m <= Max({mark', savedMark'}) => m <= Max({mark, savedMark})
      BY <3>1, <1>2, <1>4, MarkedIsHeard
    <3> QED BY <3>2, <2>1, <1>2, <1>3 DEF MarkIsRouted
  <2>3. MarkIsBehind'
    BY <1>4, <1>8 DEF MarkIsBehind
  <2>4. HeldInOrder'
    BY <1>8 DEF HeldInOrder
  <2>5. ComingIsNewer'
    BY <1>8 DEF ComingIsNewer
  <2>6. NothingIsMissed'
    BY <1>4 DEF NothingIsMissed
  <2>7. BurstsAreRouted'
    BY <1>4, <1>7 DEF BurstsAreRouted
  <2>8. SinceIsHeard'
    <3>1. \A m \in Posted : ~(m <= None)
      BY <1>1, Numbers DEF None
    <3> QED BY <3>1, <2>1, <1>2, <1>3, <1>4, <1>5, <1>6 DEF SinceIsHeard
  <2>9. CatchUpIsAlone'
    BY <1>4, <1>6, <1>7 DEF CatchUpIsAlone
  <2>10. GapInPage'
    BY <2>1, <1>2, <1>5, <1>6 DEF GapInPage
  <2> QED BY <2>2, <2>3, <2>4, <2>5, <2>6, <2>7, <2>8, <2>9, <2>10 DEF Calm
<1> QED BY <1>9, <1>10, <1>11, <1>12, <1>13, <1>14, <1>15, <1>16, <1>17 DEF IInv, Standing

LEMMA BootKeeps ==
  ASSUME IInv, Boot
  PROVE  IInv'
<1>1. Typed /\ OnePlace /\ HoldsStand /\ DownIsEmpty /\ PauseIsSaved /\ GapIsUntaken
      /\ PagesInOrder /\ DecidedIsOver
  BY DEF IInv, Standing
<1>2. UNCHANGED <<author, inFlight, seen, looking, phase, held, routed, burst, castBurst, firing,
                pausedAt, resumingSince, paused, savedMark, queue, cursor, woken, gap, raced,
                pauses, restarts, faults>>
  BY DEF Boot, discord, handlers, holding, bursts, pausing, her, counters, StartCatchUp
<1>3. /\ Posted' = Posted /\ Point' = Point /\ Burst' = Burst /\ CatchUp' = CatchUp
      /\ (\A i : Heard(i)' <=> Heard(i))
      /\ HeldBack' = HeldBack
      /\ Reached' = Reached
      /\ (\A i : InBursts(i)' <=> InBursts(i))
  BY <1>2 DEF Posted, Point, Burst, CatchUp, Heard, HeldBack, Reached, InBursts
<1>4. /\ ~up /\ up' = TRUE /\ mark' = savedMark
      /\ \/ paused /\ savedPause' = (IF savedPause = None THEN 0 ELSE savedPause) /\ catchUp' = catchUp
         \/ ~paused /\ savedPause' = savedPause /\ StartCatchUp(0, savedPause)
  BY DEF Boot
<1>5. savedPause' = savedPause
  BY <1>1, <1>4 DEF PauseIsSaved
<1>6. /\ inFlight = {} /\ looking = {} /\ held = {}
      /\ \A m \in Message : phase[m] = "idle" /\ ~InBursts(m)
      /\ \A c \in Run : catchUp[c].at = "done" /\ catchUp[c].todo = {}
  BY <1>1, <1>4 DEF DownIsEmpty, Active, PagesInOrder
<1>7. 0 \in Run
  BY IntakeAssumption DEF Run
<1>8. /\ catchUp' \in [Run -> CatchUp]
      /\ \A c \in Run : \/ catchUp'[c] = catchUp[c] /\ (~paused => c # 0)
                        \/ /\ catchUp'[c].at = "read" /\ catchUp'[c].since = savedPause
                           /\ catchUp'[c].queued = queue /\ catchUp'[c].cursor = cursor
                           /\ catchUp'[c].todo = {} /\ catchUp'[c].own = 0 /\ c = 0
      /\ ~paused => catchUp'[0].at = "read"
      /\ paused => catchUp' = catchUp
  <2>1. CASE paused
    BY <2>1, <1>1, <1>4 DEF Typed
  <2>2. CASE ~paused
    <3>1. StartCatchUp(0, savedPause) /\ savedPause \in Point \cup {None}
      BY <2>2, <1>1, <1>4 DEF Typed
    <3>2. /\ catchUp' \in [Run -> CatchUp]
          /\ catchUp'[0].at = "read" /\ catchUp'[0].since = savedPause /\ catchUp'[0].queued = queue
          /\ catchUp'[0].cursor = cursor /\ catchUp'[0].todo = {} /\ catchUp'[0].own = 0
          /\ \A d \in Run : d # 0 => catchUp'[d] = catchUp[d]
      BY <3>1, <1>1, <1>7, StartIs
    <3> QED BY <3>2, <2>2
  <2> QED BY <2>1, <2>2
<1>9. Coming' = {}
  <2>1. \A c \in Run : catchUp'[c].todo = {}
    BY <1>6, <1>8
  <2>2. \A m \in Posted : m \notin Coming'
    BY <2>1, <1>1, <1>2, <1>6, Numbers DEF Coming
  <2> QED BY <2>2, <1>3 DEF Coming
<1>10. Typed'
  <2>1. savedMark \in Point /\ savedMark <= savedMark
    BY <1>1, Numbers DEF Typed
  <2> QED BY <2>1, <1>1, <1>2, <1>3, <1>4, <1>5, <1>8 DEF Typed
<1>11. DownIsEmpty'
  BY <1>4 DEF DownIsEmpty
<1>12. PauseIsSaved'
  BY <1>1, <1>2, <1>5 DEF PauseIsSaved
<1>13. GapIsUntaken'
  <2>1. \A d \in Run : \A m \in catchUp'[d].queued : woken[m] > 0
    BY <1>1, <1>8 DEF GapIsUntaken
  <2> QED BY <2>1, <1>1, <1>2, <1>3 DEF GapIsUntaken
<1>14. PagesInOrder'
  <2> SUFFICES ASSUME NEW d \in Run
               PROVE  /\ catchUp'[d].cursor <= cursor
                      /\ catchUp'[d].at # "take" => catchUp'[d].todo = {} /\ catchUp'[d].own = 0
                      /\ catchUp'[d].at = "done" => catchUp'[d] = NotRunning
                      /\ \A x \in catchUp'[d].todo : catchUp'[d].own < x
    BY <1>2 DEF PagesInOrder
  <2>1. CASE catchUp'[d] = catchUp[d]
    BY <2>1, <1>1 DEF PagesInOrder
  <2>2. CASE catchUp'[d] # catchUp[d]
    BY <2>2, <1>1, <1>8, Numbers
  <2> QED BY <2>1, <2>2
<1>15. (OnePlace /\ HoldsStand /\ DecidedIsOver)'
  BY <1>1, <1>2, <1>3 DEF OnePlace, HoldsStand, DecidedIsOver
<1>16. ASSUME ~raced' PROVE Calm'
  <2>1. /\ ~raced
        /\ MarkIsRouted /\ MarkIsBehind /\ HeldInOrder /\ ComingIsNewer /\ NothingIsMissed
        /\ BurstsAreRouted /\ SinceIsHeard /\ CatchUpIsAlone /\ GapInPage
    BY <1>2, <1>4, <1>5, <1>6, <1>7, <1>8, <1>9, <1>16 DEF IInv, Calm
  <2>2. HeldBack = {} /\ routed = {} /\ Reached = {}
    BY <2>1, <1>1, <1>6, QuietHoldsNothing
  <2>3. Reading' <=> ~paused
    BY <1>6, <1>7, <1>8 DEF Reading
  <2>4. MarkIsRouted'
    <3>1. mark \in Nat /\ savedMark \in Nat /\ \A m \in Posted : m \in Nat
      BY <1>1, Numbers
    <3>2. \A m \in Posted : m <= Max({mark', savedMark}) => m <= Max({mark, savedMark})
      BY <3>1, <1>4, MarkedIsHeard
    <3> QED BY <3>2, <2>1, <1>2, <1>3 DEF MarkIsRouted
  <2>5. MarkIsBehind'
    BY <2>2, <1>2, <1>3 DEF MarkIsBehind
  <2>6. ComingIsNewer'
    BY <1>9 DEF ComingIsNewer
  <2>7. NothingIsMissed'
    BY <2>1, <2>3, <1>2, <1>3 DEF NothingIsMissed
  <2>8. BurstsAreRouted'
    BY <2>1, <1>2, <1>3, <1>6 DEF BurstsAreRouted
  <2>9. SinceIsHeard'
    <3>1. \A d \in Run : catchUp'[d].since = savedPause \/ catchUp'[d].since = catchUp[d].since
      BY <1>8
    <3> QED BY <3>1, <2>1, <1>2, <1>3, <1>5 DEF SinceIsHeard
  <2>10. CatchUpIsAlone'
    <3>1. \A c \in Run : Active(c)' => c = 0 /\ ~paused
      BY <1>6, <1>8 DEF Active
    <3>2. paused => ~CatchingUp'
      BY <3>1 DEF CatchingUp, Active
    <3> QED BY <3>1, <3>2, <1>2, <1>3, <1>6 DEF CatchUpIsAlone
  <2>11. GapInPage'
    <3>1. \A c \in Run : catchUp'[c].at # "take" /\ catchUp'[c].at # "clear"
      BY <1>6, <1>8
    <3> QED BY <3>1, <2>1, <1>2, <1>5 DEF GapInPage
  <2>12. (HeldInOrder)'
    BY <1>2, <1>3, <2>1 DEF HeldInOrder
  <2> QED BY <2>4, <2>5, <2>6, <2>7, <2>8, <2>9, <2>10, <2>11, <2>12 DEF Calm
<1> QED BY <1>10, <1>11, <1>12, <1>13, <1>14, <1>15, <1>16 DEF IInv, Standing

LEMMA CastBursts ==
  ASSUME IInv, NEW m \in Message, RouteCast(m) \/ JoinCastBurst(m)
  PROVE  CastMoves(m)
<1>1. castBurst \in [ids : SUBSET Posted, direct : BOOLEAN]
  BY DEF IInv, Standing, Typed
<1>2. CASE RouteCast(m)
  <2>1. CASE paused
    BY <1>2, <2>1 DEF RouteCast, CastMoves, her
  <2>2. CASE ~paused
    BY <1>2, <2>2 DEF RouteCast, CastMoves, her
  <2> QED BY <2>1, <2>2
<1>3. CASE JoinCastBurst(m)
  <2>1. castBurst' = [ids |-> castBurst.ids \cup {m}, direct |-> castBurst.direct]
    <3>1. castBurst' = [castBurst EXCEPT !.ids = @ \cup {m}]
      BY <1>3 DEF JoinCastBurst
    <3> QED BY <3>1, <1>1
  <2>2. CASE castBurst.direct
    <3>1. /\ castBurst' = [ids |-> castBurst.ids \cup {m}, direct |-> TRUE]
          /\ Decided({m}) /\ held' = held \ {<<m, "routing">>}
      BY <1>1, <1>3, <2>1, <2>2 DEF JoinCastBurst
    <3> QED BY <3>1, <1>3 DEF JoinCastBurst, CastMoves, her
  <2>3. CASE ~castBurst.direct
    <3>1. /\ castBurst' = [ids |-> castBurst.ids \cup {m}, direct |-> FALSE]
          /\ woken' = woken /\ held' = (held \ {<<m, "routing">>}) \cup {<<m, "burst">>}
      BY <1>1, <1>3, <2>1, <2>3 DEF JoinCastBurst
    <3> QED BY <3>1, <2>3, <1>3 DEF JoinCastBurst, CastMoves, her
  <2> QED BY <2>2, <2>3
<1> QED BY <1>2, <1>3

LEMMA InitInv == Init => IInv
<1> SUFFICES ASSUME Init PROVE IInv
  OBVIOUS
<1>1. /\ author = <<>> /\ inFlight = {} /\ up = TRUE /\ seen = {} /\ looking = {} /\ paused = FALSE
      /\ phase = [m \in Message |-> "idle"] /\ held = {} /\ routed = {} /\ mark = 0 /\ burst = {}
      /\ castBurst = NoBurst /\ firing = {} /\ catchUp = [c \in Run |-> NotRunning] /\ pausedAt = None
      /\ resumingSince = None /\ savedPause = None /\ savedMark = 0 /\ queue = {} /\ cursor = 0
      /\ woken = [m \in Message |-> 0] /\ gap = {} /\ raced = FALSE /\ pauses = 0 /\ restarts = 0
  BY DEF Init
<1>2. /\ 0 \in Point /\ 0 \in Run /\ Posted = {} /\ Len(author) = 0 /\ 0 <= MaxMessages
      /\ author \in Seq({"person", "cast"})
  BY <1>1, IntakeAssumption DEF Point, Run, Posted
<1>3. /\ NoBurst \in [ids : SUBSET Posted, direct : BOOLEAN] /\ NoBurst.ids = {}
      /\ NotRunning \in CatchUp /\ NotRunning.at = "done" /\ NotRunning.todo = {} /\ NotRunning.own = 0
      /\ NotRunning.since = None /\ NotRunning.queued = {} /\ NotRunning.cursor = 0
  BY <1>2 DEF NoBurst, CatchUp, NotRunning
<1>4. /\ catchUp \in [Run -> CatchUp] /\ \A c \in Run : catchUp[c] = NotRunning
      /\ phase \in [Message -> {"idle", "cast", "route"}] /\ \A m \in Message : phase[m] = "idle"
      /\ woken \in [Message -> 0..2] /\ \A m \in Message : woken[m] = 0
  BY <1>1, <1>3
<1>5. /\ \A m : ~InBursts(m)
      /\ \A c \in Run : ~Active(c)
      /\ ~Reading /\ ~CatchingUp /\ HeldBack = {} /\ Reached = {} /\ Coming = {}
  BY <1>1, <1>2, <1>3, <1>4 DEF InBursts, Active, Reading, CatchingUp, HeldBack, Reached, Coming
<1>6. Typed
  <2>1. /\ inFlight \subseteq Posted /\ seen \subseteq Posted /\ looking \subseteq Posted
        /\ routed \subseteq Posted /\ gap \subseteq Posted /\ queue \subseteq Posted /\ burst \subseteq Posted
        /\ held \subseteq Posted \X {"routing", "burst"} /\ firing \subseteq Burst
    BY <1>1
  <2>2. castBurst \in [ids : SUBSET Posted, direct : BOOLEAN]
    BY <1>1, <1>3
  <2>3. /\ mark \in Point /\ savedMark \in Point /\ cursor \in Point /\ (up => savedMark <= mark)
        /\ pausedAt \in Point \cup {None} /\ resumingSince \in Point \cup {None}
        /\ savedPause \in Point \cup {None} /\ pauses \in Run /\ restarts \in Nat
    BY <1>1, <1>2
  <2>4. up \in BOOLEAN /\ paused \in BOOLEAN /\ raced \in BOOLEAN
    BY <1>1
  <2> QED BY <2>1, <2>2, <2>3, <2>4, <1>2, <1>4 DEF Typed
<1>7. OnePlace /\ HoldsStand /\ DownIsEmpty /\ PauseIsSaved
  BY <1>1, <1>3, <1>4, <1>5 DEF OnePlace, HoldsStand, DownIsEmpty, PauseIsSaved
<1>8. GapIsUntaken /\ PagesInOrder /\ DecidedIsOver
  BY <1>1, <1>3, <1>4 DEF GapIsUntaken, PagesInOrder, DecidedIsOver
<1>9. MarkIsRouted /\ MarkIsBehind /\ HeldInOrder /\ ComingIsNewer /\ SinceIsHeard
  BY <1>1, <1>2, <1>5 DEF MarkIsRouted, MarkIsBehind, HeldInOrder, ComingIsNewer, SinceIsHeard
<1>10. NothingIsMissed /\ BurstsAreRouted /\ CatchUpIsAlone /\ GapInPage
  BY <1>1, <1>2, <1>4, <1>5 DEF NothingIsMissed, BurstsAreRouted, CatchUpIsAlone, GapInPage
<1> QED BY <1>6, <1>7, <1>8, <1>9, <1>10 DEF IInv, Standing, Calm

LEMMA NextKeeps ==
  ASSUME IInv, [Next]_vars
  PROVE  IInv'
<1>1. ASSUME NEW who \in {"person", "cast"}, Post(who) PROVE IInv'
  BY <1>1, PostKeeps
<1>2. ASSUME NEW m \in Message, Deliver(m) \/ TakeLive(m) \/ LookupMisses(m) \/ Hold(m) PROVE IInv'
  BY <1>2, DeliverKeeps, TakeLiveKeeps, LookupMissesKeeps, HoldKeeps
<1>3. ASSUME NEW m \in Message, RouteFails(m) \/ JoinBurst(m) \/ RouteCast(m) \/ JoinCastBurst(m) PROVE IInv'
  BY <1>3, RouteFailsKeeps, JoinBurstKeeps, CastBursts, CastMovesKeeps
<1>4. CASE Delivery
  BY <1>2, <1>3, <1>4 DEF Delivery
<1>5. ASSUME NEW f \in firing, AskRouter(f) \/ RouterFails(f) \/ SettleBurst(f) PROVE IInv'
  BY <1>5, AskRouterKeeps, RouterFailsKeeps, SettleBurstKeeps
<1>6. CASE Routing
  BY <1>5, <1>6, FireBurstKeeps, FireCastBurstKeeps DEF Routing
<1>7. CASE SaveMarks \/ Turn
  BY <1>7, SaveMarksKeeps, TurnKeeps
<1>8. CASE CatchingUpStep
  <2>1. PICK c \in Run : \/ ReadPage(c) \/ ReadPageFails(c) \/ TakePage(c)
                         \/ FlushBursts(c) \/ FinishCatchUp(c)
    BY <1>8 DEF CatchingUpStep
  <2> QED BY <2>1, ReadPageKeeps, ReadPageFailsKeeps, TakePageKeeps, FlushBurstsKeeps, FinishCatchUpKeeps
<1>9. CASE Owner \/ Process
  BY <1>9, PauseKeeps, ResumeKeeps, CrashKeeps, StopKeeps, BootKeeps DEF Owner, Process
<1>10. CASE UNCHANGED vars
  <2>1. UNCHANGED <<author, inFlight, up, seen, looking, phase, held, routed, mark, burst, castBurst, firing>>
    BY <1>10 DEF vars, discord, handlers, holding, bursts
  <2>2. UNCHANGED <<catchUp, paused, pausedAt, resumingSince, savedPause, savedMark, queue, cursor>>
    BY <1>10 DEF vars, pausing, her
  <2>3. UNCHANGED <<woken, gap, raced, pauses, restarts>>
    BY <1>10 DEF vars, counters
  <2>4. /\ Posted' = Posted /\ Point' = Point /\ Burst' = Burst /\ CatchUp' = CatchUp
        /\ HeldBack' = HeldBack /\ Reached' = Reached /\ Coming' = Coming
        /\ Reading' = Reading /\ CatchingUp' = CatchingUp
        /\ \A m : (Heard(m)' <=> Heard(m)) /\ (InBursts(m)' <=> InBursts(m))
        /\ \A c \in Run : Active(c)' <=> Active(c)
    BY <2>1, <2>2, <2>3 DEF Posted, Point, Burst, CatchUp, HeldBack, Reached, Coming, Heard, InBursts,
       Reading, CatchingUp, Active
  <2>5. Standing => Standing'
    BY <2>1, <2>2, <2>3, <2>4 DEF Standing, Typed, OnePlace, HoldsStand, DownIsEmpty, PauseIsSaved,
       GapIsUntaken, PagesInOrder, DecidedIsOver
  <2>6. Calm => Calm'
    BY <2>1, <2>2, <2>3, <2>4 DEF Calm, MarkIsRouted, MarkIsBehind, HeldInOrder, ComingIsNewer,
       NothingIsMissed, BurstsAreRouted, SinceIsHeard, CatchUpIsAlone, GapInPage
  <2> QED BY <2>3, <2>5, <2>6 DEF IInv
<1> QED BY <1>1, <1>4, <1>6, <1>7, <1>8, <1>9, <1>10 DEF Next

LEMMA Invariance == Spec => []IInv
<1>1. Init => IInv
  BY InitInv
<1>2. IInv /\ [Next]_vars => IInv'
  BY NextKeeps
<1> QED BY <1>1, <1>2, PTL DEF Spec

-----------------------------------------------------------------------------
(* For any number of messages, pauses, restarts, faults and upsets: the    *)
(* mark of a schedule without a race or a fault, in memory or on disk,     *)
(* never passes a message whose routing was not decided and that she has   *)
(* not read, so a boot's catch-up takes it again (Intake.mark, hold and    *)
(* release).                                                               *)
THEOREM MarkCovers == Spec => []MarkCoversRouted
<1>1. IInv => MarkCoversRouted
  BY DEF IInv, Calm, MarkCoversRouted
<1> QED BY <1>1, Invariance, PTL

(* The gap of a pause stays before a saved pause start until its messages  *)
(* are taken or read, over reloads and crashes, unless the schedule has a  *)
(* race or a fault (LivingCast.pause, resume and clearPauseStart).         *)
THEOREM GapRemembered == Spec => []GapIsRemembered
<1>1. IInv => GapIsRemembered
  BY DEF IInv, Calm, GapInPage, GapIsRemembered
<1> QED BY <1>1, Invariance, PTL

(* In every schedule, with races and faults, the live handler, the bursts  *)
(* and the catch-ups together route no message twice while the process     *)
(* lives, and each variable holds what the handlers may find (seen).       *)
THEOREM NobodyWakesTwice == Spec => []WokenOnce
<1>1. IInv => WokenOnce
  <2> SUFFICES ASSUME IInv PROVE WokenOnce
    OBVIOUS
  <2>1. Typed /\ OnePlace /\ HoldsStand /\ PauseIsSaved /\ DecidedIsOver
    BY DEF IInv, Standing
  <2>2. Point \subseteq Time /\ {up, paused} \subseteq BOOLEAN /\ Posted \subseteq Message
    BY <2>1, Numbers, IntakeAssumption DEF Point, Time, Typed
  <2>3. inFlight \cup seen \cup looking \cup routed \cup gap \cup queue \subseteq Posted
    BY <2>1 DEF Typed
  <2>4. \A m \in Message : phase[m] \in {"idle", "cast", "route"} /\ (phase[m] # "idle" => m \in seen)
    BY <2>1 DEF Typed, OnePlace
  <2>5. \A h \in held :
          \/ h[2] = "routing" /\ phase[h[1]] = "route"
          \/ h[2] = "burst" /\ h[1] \in burst \cup castBurst.ids \cup UNION {f.ids : f \in firing}
    BY <2>1 DEF HoldsStand, InBursts
  <2>6. /\ {mark, savedMark, cursor} \subseteq Time /\ (up => savedMark <= mark)
        /\ {pausedAt, resumingSince, savedPause} \subseteq Time \cup {None}
    BY <2>1, <2>2 DEF Typed
  <2>7. \A c \in Run : catchUp[c].at \in {"done", "read", "take", "clear"}
    BY <2>1 DEF Typed, CatchUp
  <2>8. raced \/ \A m \in routed : mark < m
    BY DEF IInv, Calm, MarkIsBehind
  <2>9. TypeOK
    BY <2>1, <2>2, <2>3, <2>4, <2>5, <2>6, <2>7, <2>8 DEF TypeOK, Typed, PauseIsSaved
  <2>10. NoSecondWake
    <3>1. restarts \in Nat /\ (restarts = 0 => \A m \in Message : woken[m] <= 1)
      BY <2>1 DEF DecidedIsOver, Typed
    <3> QED BY <3>1 DEF NoSecondWake
  <2> QED BY <2>9, <2>10 DEF WokenOnce
<1> QED BY <1>1, Invariance, PTL
=============================================================================
