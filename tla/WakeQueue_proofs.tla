--------------------------- MODULE WakeQueue_proofs ---------------------------
(***************************************************************************)
(* Proofs about WakeQueue for any messages, places, limit, days and        *)
(* crashes.                                                                *)
(***************************************************************************)
EXTENDS WakeQueue, FiniteSetTheorems, TLAPS

\* An entry holds at least the messages its id was made of; one of no place
\* holds no other.
Sound(e) ==
  /\ e \in Entry /\ e.id[1] = e.place
  /\ e.id[2] # {} /\ e.id[2] \subseteq e.messages
  /\ e.place = NoPlace => e.messages = e.id[2]

AllSound ==
  /\ \A i \in DOMAIN immediate : Sound(immediate[i])
  /\ \A i \in DOMAIN turnWakes : Sound(turnWakes[i])
  /\ \A i \in DOMAIN peek : Sound(peek[i])

Distinct(q) == \A i, j \in DOMAIN q : q[i].id = q[j].id => i = j
Apart(q) == \A i, j \in DOMAIN q : i # j => q[i].messages \cap q[j].messages = {}
OverflowOf(q) == \A i \in DOMAIN q : i > Limit => \A j \in At(q, q[i].place) : j >= i

\* An id comes twice in a list only for a batch.
PlacesOnce(list) ==
  \A i, j \in DOMAIN list : i # j /\ list[i].id = list[j].id => list[i].place = NoPlace

\* An id is in the queue once; in the turn only a batch's could come twice.
IdsAreDistinct == Distinct(immediate) /\ Distinct(peek) /\ PlacesOnce(turnWakes)

\* A message the router has not put away is nowhere.
NewIsNowhere ==
  \A m \in Messages : routing[m] # "in" =>
    m \notin MessagesIn(immediate) \cup MessagesIn(turnWakes) \cup MessagesIn(peek)
               \cup deferred \cup heard \cup late

\* The batch the scheduler has read is deferred still.
BatchStands == batch \subseteq deferred

\* What a turn has read is in the queue until it takes it, with no message more
\* but the late ones.
Reading == pc \in {"peeked", "recorded"}
PeekStands ==
  /\ ~Reading => peek = <<>>
  /\ \A j \in DOMAIN peek : peek[j].id \in Ids(immediate)
  /\ \A j \in DOMAIN peek, i \in DOMAIN immediate : immediate[i].id = peek[j].id =>
       /\ peek[j].messages \subseteq immediate[i].messages
       /\ immediate[i].messages \subseteq peek[j].messages \cup late
  /\ pc = "recorded" => \A j \in DOMAIN peek : \E k \in DOMAIN turnWakes : turnWakes[k] = peek[j]

\* A queued entry a turn has as well holds all the turn has of it.
TurnCopies ==
  \A i \in DOMAIN immediate, j \in DOMAIN turnWakes : immediate[i].id = turnWakes[j].id =>
    turnWakes[j].messages \subseteq immediate[i].messages

\* What a turn gave back is in the queue.
GivenBack == pc = "requeued" => MessagesIn(turnWakes) \subseteq MessagesIn(immediate)

\* Until a turn's wakes go back, the queue has no entry of a place that the turn
\* has, but those it is about to take.
TurnIsTaken ==
  /\ pc \in {"idle", "checked"} => turnWakes = <<>>
  /\ pc \in {"peeked", "recorded", "taken", "round"} =>
       \A i \in DOMAIN immediate : immediate[i].place # NoPlace /\ immediate[i].id \in Ids(turnWakes)
         => pc = "recorded" /\ immediate[i].id \in Ids(peek)

\* A turn shows no more quiet wakes than the line counts.
LineStands == Reading => peekQuiet <= quiet

Orderly == crashes = 0 \/ ~joined
Waiting == MessagesIn(immediate) \cup deferred

\* As long as no wake given back was joined before a crash: the turn's wakes wait
\* nowhere else, but in the entry of their own id.
TurnIsApart ==
  Orderly =>
    /\ Apart(turnWakes) /\ MessagesIn(turnWakes) \cap heard = {}
    /\ pc \in {"peeked", "taken", "round"} => MessagesIn(turnWakes) \cap Waiting = {}
    /\ pc = "recorded" => \A j \in DOMAIN turnWakes :
         turnWakes[j].id \in Ids(peek) \/ turnWakes[j].messages \cap Waiting = {}
    /\ pc \in {"down", "repair"} => \A j \in DOMAIN turnWakes :
         turnWakes[j].id \in Ids(immediate) \/ turnWakes[j].messages \cap Waiting = {}
    /\ pc = "requeued" /\ ~joined => Ids(turnWakes) \subseteq Ids(immediate)

IInv == /\ TypeOK /\ AllSound /\ IdsAreDistinct /\ NewIsNowhere /\ BatchStands
        /\ PeekStands /\ TurnCopies /\ GivenBack /\ TurnIsTaken /\ LineStands /\ TurnIsApart
        /\ NoMessageVanishes /\ WaitsOnce /\ OverflowIsOnePerPlace /\ QuietLinesConserved
-----------------------------------------------------------------------------
(* Induction, and what it gives for the folds of the queue *)

\* A set of naturals has a smallest member.
LEMMA SmallestOf ==
  ASSUME NEW S \in SUBSET Nat, S # {}
  PROVE  \E m \in S : \A n \in S : m <= n
<1> DEFINE T == {1..n : n \in S}
           R == StrictSubsetOrdering(Nat)
<1>1. IsWellFoundedOn(R, FiniteSubsetsOf(Nat))
  BY FS_StrictSubsetOrderingWellFounded
<1>2. T \subseteq FiniteSubsetsOf(Nat) /\ T # {}
  <2>1. ASSUME NEW n \in S PROVE 1..n \in FiniteSubsetsOf(Nat)
    BY FS_Interval DEF FiniteSubsetsOf
  <2> QED BY <2>1
<1>3. PICK x \in T : \A y \in T : <<y, x>> \notin R
  <2> HIDE DEF R, T
  <2> QED BY <1>1, <1>2, WFMin
<1>4. PICK m \in S : x = 1..m
  OBVIOUS
<1>5. ASSUME NEW n \in S, n < m PROVE FALSE
  <2>1. 1..n \subseteq 1..m /\ m \in 1..m /\ m \notin 1..n
    BY <1>5
  <2>2. <<1..n, x>> \in R
    BY <2>1, <1>4 DEF StrictSubsetOrdering
  <2> QED BY <2>2, <1>3
<1> QED BY <1>5

\* Induction over the naturals, for the set of those a statement holds of.
LEMMA SetInduction ==
  ASSUME NEW S, 0 \in S, \A n \in Nat : n \in S => n + 1 \in S
  PROVE  Nat \subseteq S
<1> SUFFICES ASSUME Nat \ S # {} PROVE FALSE
  OBVIOUS
<1>1. PICK m \in Nat \ S : \A n \in Nat \ S : m <= n
  BY SmallestOf
<1>2. m # 0 /\ m - 1 \in Nat /\ m - 1 \notin S
  BY <1>1
<1> QED BY <1>1, <1>2

LEMMA MaxIs ==
  ASSUME NEW n \in Nat, NEW s \in SUBSET (1..n), n \in s
  PROVE  Max(s) = n
<1>1. \A x \in s : n >= x
  OBVIOUS
<1>2. \A x \in s : (\A y \in s : x >= y) => x = n
  BY <1>1
<1> QED BY <1>1, <1>2 DEF Max

LEMMA MinIs ==
  ASSUME NEW s \in SUBSET Nat, s # {}
  PROVE  Min(s) \in s /\ \A x \in s : Min(s) <= x
<1>1. \E m \in s : \A n \in s : m <= n
  BY SmallestOf
<1> QED BY <1>1 DEF Min

\* The table a fold builds, for the sets of indices of q up to k: of one that
\* adds the entries of q to a queue, and of one that leaves some out.
AddTable(g, q, k) ==
  g = [s \in SUBSET (1..k) |->
         IF s = {} THEN <<>> ELSE WithImmediate(g[s \ {Max(s)}], q[Max(s)])]

Leave(kept, w, ids) == IF w.id \in ids THEN kept ELSE Append(kept, w)
LeaveTable(g, q, k, ids) ==
  g = [s \in SUBSET (1..k) |->
         IF s = {} THEN <<>> ELSE Leave(g[s \ {Max(s)}], q[Max(s)], ids)]

LEMMA AddTableExists ==
  ASSUME NEW q, NEW n \in Nat
  PROVE  \E g : AddTable(g, q, n)
<1> DEFINE Good == {k \in Nat : \E g : AddTable(g, q, k)}
<1>1. 0 \in Good
  <2>1. AddTable([s \in SUBSET (1..0) |-> <<>>], q, 0)
    BY DEF AddTable
  <2> QED BY <2>1
<1>2. ASSUME NEW k \in Nat, k \in Good PROVE k + 1 \in Good
  <2>1. PICK g : AddTable(g, q, k)
    BY <1>2
  <2> DEFINE h == [s \in SUBSET (1..(k + 1)) |->
                     IF k + 1 \in s THEN WithImmediate(g[s \ {k + 1}], q[k + 1]) ELSE g[s]]
  <2>2. ASSUME NEW s \in SUBSET (1..(k + 1))
        PROVE  h[s] = IF s = {} THEN <<>> ELSE WithImmediate(h[s \ {Max(s)}], q[Max(s)])
    <3>1. CASE k + 1 \in s
      <4>1. Max(s) = k + 1
        BY <3>1, MaxIs
      <4>2. s \ {k + 1} \in SUBSET (1..k) /\ s \ {k + 1} \in SUBSET (1..(k + 1)) /\ k + 1 \notin s \ {k + 1}
        OBVIOUS
      <4> QED BY <4>1, <4>2, <3>1
    <3>2. CASE k + 1 \notin s
      <4>1. s \in SUBSET (1..k)
        BY <3>2
      <4>2. h[s] = IF s = {} THEN <<>> ELSE WithImmediate(g[s \ {Max(s)}], q[Max(s)])
        BY <2>1, <4>1, <3>2 DEF AddTable
      <4>3. s \ {Max(s)} \in SUBSET (1..(k + 1)) /\ k + 1 \notin s \ {Max(s)}
        BY <3>2
      <4> QED BY <4>2, <4>3
    <3> QED BY <3>1, <3>2
  <2>3. AddTable(h, q, k + 1)
    BY <2>2 DEF AddTable
  <2> QED BY <2>3
<1>3. Nat \subseteq Good
  <2> HIDE DEF Good
  <2> QED BY <1>1, <1>2, SetInduction
<1> QED BY <1>3

LEMMA LeaveTableExists ==
  ASSUME NEW q, NEW ids, NEW n \in Nat
  PROVE  \E g : LeaveTable(g, q, n, ids)
<1> DEFINE Good == {k \in Nat : \E g : LeaveTable(g, q, k, ids)}
<1>1. 0 \in Good
  <2>1. LeaveTable([s \in SUBSET (1..0) |-> <<>>], q, 0, ids)
    BY DEF LeaveTable
  <2> QED BY <2>1
<1>2. ASSUME NEW k \in Nat, k \in Good PROVE k + 1 \in Good
  <2>1. PICK g : LeaveTable(g, q, k, ids)
    BY <1>2
  <2> DEFINE h == [s \in SUBSET (1..(k + 1)) |->
                     IF k + 1 \in s THEN Leave(g[s \ {k + 1}], q[k + 1], ids) ELSE g[s]]
  <2>2. ASSUME NEW s \in SUBSET (1..(k + 1))
        PROVE  h[s] = IF s = {} THEN <<>> ELSE Leave(h[s \ {Max(s)}], q[Max(s)], ids)
    <3>1. CASE k + 1 \in s
      <4>1. Max(s) = k + 1
        BY <3>1, MaxIs
      <4>2. s \ {k + 1} \in SUBSET (1..k) /\ s \ {k + 1} \in SUBSET (1..(k + 1)) /\ k + 1 \notin s \ {k + 1}
        OBVIOUS
      <4> QED BY <4>1, <4>2, <3>1
    <3>2. CASE k + 1 \notin s
      <4>1. s \in SUBSET (1..k)
        BY <3>2
      <4>2. h[s] = IF s = {} THEN <<>> ELSE Leave(g[s \ {Max(s)}], q[Max(s)], ids)
        BY <2>1, <4>1, <3>2 DEF LeaveTable
      <4>3. s \ {Max(s)} \in SUBSET (1..(k + 1)) /\ k + 1 \notin s \ {Max(s)}
        BY <3>2
      <4> QED BY <4>2, <4>3
    <3> QED BY <3>1, <3>2
  <2>3. LeaveTable(h, q, k + 1, ids)
    BY <2>2 DEF LeaveTable
  <2> QED BY <2>3
<1>3. Nat \subseteq Good
  <2> HIDE DEF Good
  <2> QED BY <1>1, <1>2, SetInduction
<1> QED BY <1>3

\* The stages of a fold: the n-th has taken the first n entries.
LEMMA AddStages ==
  ASSUME NEW q \in Seq(Entry)
  PROVE  \E f : /\ f[0] = <<>>
                /\ \A n \in 0..(Len(q) - 1) : f[n + 1] = WithImmediate(f[n], q[n + 1])
                /\ FoldLeft(WithImmediate, <<>>, q) = f[Len(q)]
<1> DEFINE g == CHOOSE g : AddTable(g, q, Len(q))
           f == [n \in 0..Len(q) |-> g[1..n]]
<1>1. AddTable(g, q, Len(q))
  BY AddTableExists
<1>2. DOMAIN q = 1..Len(q) /\ Len(q) \in Nat
  OBVIOUS
<1>3. FoldLeft(WithImmediate, <<>>, q) = g[1..Len(q)]
  BY <1>2 DEF FoldLeft, MapThenFoldSet, AddTable
<1> HIDE DEF g
<1>4. f[0] = <<>>
  BY <1>1, <1>2 DEF AddTable
<1>5. ASSUME NEW n \in 0..(Len(q) - 1) PROVE f[n + 1] = WithImmediate(f[n], q[n + 1])
  <2>1. 1..(n + 1) \in SUBSET (1..Len(q)) /\ n + 1 \in 1..(n + 1) /\ (1..(n + 1)) \ {n + 1} = 1..n
    BY <1>2
  <2>2. Max(1..(n + 1)) = n + 1
    BY <2>1, <1>2, MaxIs
  <2>3. g[1..(n + 1)] = WithImmediate(g[1..n], q[n + 1])
    BY <1>1, <2>1, <2>2 DEF AddTable
  <2> QED BY <2>3, <1>2
<1>6. FoldLeft(WithImmediate, <<>>, q) = f[Len(q)]
  BY <1>2, <1>3
<1> HIDE DEF f
<1> QED BY <1>4, <1>5, <1>6

LEMMA LeaveStages ==
  ASSUME NEW q \in Seq(Entry), NEW ids
  PROVE  \E f : /\ f[0] = <<>>
                /\ \A n \in 0..(Len(q) - 1) : f[n + 1] = Leave(f[n], q[n + 1], ids)
                /\ Without(q, ids) = f[Len(q)]
<1> DEFINE g == CHOOSE g : LeaveTable(g, q, Len(q), ids)
           f == [n \in 0..Len(q) |-> g[1..n]]
<1>1. LeaveTable(g, q, Len(q), ids)
  BY LeaveTableExists
<1>2. DOMAIN q = 1..Len(q) /\ Len(q) \in Nat
  OBVIOUS
<1>3. Without(q, ids) = g[1..Len(q)]
  BY <1>2 DEF Without, FoldLeft, MapThenFoldSet, LeaveTable, Leave
<1> HIDE DEF g
<1>4. f[0] = <<>>
  BY <1>1, <1>2 DEF LeaveTable
<1>5. ASSUME NEW n \in 0..(Len(q) - 1) PROVE f[n + 1] = Leave(f[n], q[n + 1], ids)
  <2>1. 1..(n + 1) \in SUBSET (1..Len(q)) /\ n + 1 \in 1..(n + 1) /\ (1..(n + 1)) \ {n + 1} = 1..n
    BY <1>2
  <2>2. Max(1..(n + 1)) = n + 1
    BY <2>1, <1>2, MaxIs
  <2>3. g[1..(n + 1)] = Leave(g[1..n], q[n + 1], ids)
    BY <1>1, <2>1, <2>2 DEF LeaveTable
  <2> QED BY <2>3, <1>2
<1>6. Without(q, ids) = f[Len(q)]
  BY <1>2, <1>3
<1> HIDE DEF f
<1> QED BY <1>4, <1>5, <1>6

-----------------------------------------------------------------------------
(* What is added to a queue, and what is left out of one *)

\* r is q with w at its end.
Appends(q, w, r) ==
  /\ r \in Seq(Entry) /\ DOMAIN r = DOMAIN q \cup {Len(q) + 1}
  /\ r[Len(q) + 1] = w /\ \A i \in DOMAIN q : r[i] = q[i]

\* r is q with w joined to the first entry of its place.
Joins(q, w, r) ==
  /\ r \in Seq(Entry) /\ DOMAIN r = DOMAIN q
  /\ \E k \in At(q, w.place) :
       /\ k = Min(At(q, w.place))
       /\ r[k].id = q[k].id /\ r[k].place = q[k].place
       /\ r[k].messages = q[k].messages \cup w.messages
       /\ \A i \in DOMAIN q \ {k} : r[i] = q[i]

LEMMA Adding ==
  ASSUME QueueAssumption, NEW q \in Seq(Entry), NEW w \in Entry
  PROVE  LET r == WithImmediate(q, w) IN
         \/ w.id \in Ids(q) /\ r = q
         \/ /\ w.id \notin Ids(q) /\ Appends(q, w, r)
            /\ Len(q) >= Limit => At(q, w.place) = {}
         \/ /\ w.id \notin Ids(q) /\ Joins(q, w, r)
            /\ Len(q) >= Limit /\ At(q, w.place) # {}
<1>1. CASE w.id \in Ids(q)
  BY <1>1 DEF WithImmediate
<1>2. CASE w.id \notin Ids(q) /\ ~(Len(q) >= Limit /\ At(q, w.place) # {})
  <2>1. WithImmediate(q, w) = Append(q, w)
    BY <1>2 DEF WithImmediate
  <2>2. Appends(q, w, Append(q, w))
    <3>1. Append(q, w) \in Seq(Entry) /\ Len(Append(q, w)) = Len(q) + 1
      OBVIOUS
    <3>2. DOMAIN Append(q, w) = 1..(Len(q) + 1) /\ DOMAIN q = 1..Len(q) /\ Len(q) \in Nat
      BY <3>1
    <3>3. Append(q, w)[Len(q) + 1] = w /\ \A i \in DOMAIN q : Append(q, w)[i] = q[i]
      BY <3>2
    <3> QED BY <3>1, <3>2, <3>3 DEF Appends
  <2> QED BY <2>1, <2>2, <1>2 DEF QueueAssumption
<1>3. CASE w.id \notin Ids(q) /\ Len(q) >= Limit /\ At(q, w.place) # {}
  <2> DEFINE k == Min(At(q, w.place))
             r == [q EXCEPT ![k].messages = @ \cup w.messages]
  <2>1. WithImmediate(q, w) = r
    BY <1>3 DEF WithImmediate
  <2>2. At(q, w.place) \in SUBSET Nat /\ At(q, w.place) \subseteq DOMAIN q
    BY DEF At
  <2>3. k \in At(q, w.place) /\ k \in DOMAIN q
    BY <1>3, <2>2, MinIs
  <2> HIDE DEF k
  <2>4. DOMAIN q = 1..Len(q) /\ q[k] \in Entry
    BY <2>3
  <2>5. [q[k] EXCEPT !.messages = @ \cup w.messages] \in Entry
    BY <2>4 DEF Entry
  <2>6. r \in Seq(Entry)
    BY <2>3, <2>4, <2>5
  <2>7. DOMAIN r = DOMAIN q /\ r[k] = [q[k] EXCEPT !.messages = @ \cup w.messages]
        /\ \A i \in DOMAIN q \ {k} : r[i] = q[i]
    BY <2>3
  <2>8. r[k].id = q[k].id /\ r[k].place = q[k].place /\ r[k].messages = q[k].messages \cup w.messages
    BY <2>7, <2>4 DEF Entry
  <2>9. k = Min(At(q, w.place))
    BY DEF k
  <2> HIDE DEF r
  <2> QED BY <2>1, <2>3, <2>6, <2>7, <2>8, <2>9, <1>3 DEF Joins
<1> QED BY <1>1, <1>2, <1>3

\* r is the first n entries of q without those of these ids: its i-th was the
\* f[i]-th.
ThinsBy(f, q, ids, r, n) ==
  /\ f \in [DOMAIN r -> 1..n]
  /\ \A i, j \in DOMAIN r : i < j => f[i] < f[j]
  /\ \A i \in DOMAIN r : i <= f[i] /\ r[i] = q[f[i]] /\ r[i].id \notin ids
  /\ \A k \in 1..n : q[k].id \notin ids => \E i \in DOMAIN r : f[i] = k
Thins(q, ids, r, n) ==
  r \in Seq(Entry) /\ Len(r) <= n /\ \E f : ThinsBy(f, q, ids, r, n)

LEMMA Thinning ==
  ASSUME NEW q \in Seq(Entry), NEW ids
  PROVE  Thins(q, ids, Without(q, ids), Len(q))
<1>1. PICK s : /\ s[0] = <<>>
               /\ \A n \in 0..(Len(q) - 1) : s[n + 1] = Leave(s[n], q[n + 1], ids)
               /\ Without(q, ids) = s[Len(q)]
  BY LeaveStages
<1>2. DOMAIN q = 1..Len(q) /\ Len(q) \in Nat /\ \A k \in 1..Len(q) : q[k] \in Entry
  OBVIOUS
<1> DEFINE Good == {n \in Nat : n <= Len(q) => Thins(q, ids, s[n], n)}
<1>3. 0 \in Good
  <2> DEFINE r == s[0]
             f == [i \in {} |-> i]
  <2>1. r = <<>>
    BY <1>1
  <2>2. DOMAIN r = {} /\ r \in Seq(Entry) /\ Len(r) = 0
    BY <2>1
  <2>3. f \in [DOMAIN r -> 1..0]
    BY <2>2
  <2> HIDE DEF r, f
  <2>4. ThinsBy(f, q, ids, r, 0)
    BY <2>2, <2>3 DEF ThinsBy
  <2>5. Thins(q, ids, r, 0)
    BY <2>2, <2>4 DEF Thins
  <2> QED BY <2>5 DEF r
<1>4. ASSUME NEW n \in Nat, n \in Good PROVE n + 1 \in Good
  <2> SUFFICES ASSUME n + 1 <= Len(q) PROVE Thins(q, ids, s[n + 1], n + 1)
    OBVIOUS
  <2> DEFINE r == s[n]
             w == q[n + 1]
             t == s[n + 1]
  <2>1. Thins(q, ids, r, n) /\ t = Leave(r, w, ids) /\ w \in Entry
    BY <1>1, <1>2, <1>4
  <2> HIDE DEF r, t
  <2>2. PICK f : ThinsBy(f, q, ids, r, n)
    BY <2>1 DEF Thins
  <2>3. r \in Seq(Entry) /\ Len(r) <= n /\ Len(r) \in Nat /\ DOMAIN r = 1..Len(r)
    BY <2>1 DEF Thins
  <2>4. CASE w.id \in ids
    <3>1. t = r
      BY <2>1, <2>4 DEF Leave
    <3>2. f \in [DOMAIN r -> 1..(n + 1)]
      BY <2>2, <2>3 DEF ThinsBy
    <3>3. ASSUME NEW k \in 1..(n + 1), q[k].id \notin ids PROVE \E i \in DOMAIN r : f[i] = k
      <4>1. k \in 1..n
        BY <3>3, <2>4
      <4> QED BY <4>1, <3>3, <2>2 DEF ThinsBy
    <3>4. ThinsBy(f, q, ids, r, n + 1)
      BY <2>2, <3>2, <3>3 DEF ThinsBy
    <3> QED BY <3>1, <3>4, <2>3 DEF Thins, t
  <2>5. CASE w.id \notin ids
    <3> DEFINE e == Len(r) + 1
               h == [i \in 1..e |-> IF i = e THEN n + 1 ELSE f[i]]
    <3>1. t = Append(r, w)
      BY <2>1, <2>5 DEF Leave
    <3>2. t \in Seq(Entry) /\ Len(t) = e /\ DOMAIN t = 1..e
      <4>1. Append(r, w) \in Seq(Entry) /\ Len(Append(r, w)) = Len(r) + 1
        BY <2>1, <2>3
      <4> QED BY <4>1, <3>1
    <3>3. t[e] = w /\ \A i \in 1..Len(r) : t[i] = r[i]
      BY <3>1, <2>3
    <3>4. e \in 1..e /\ h[e] = n + 1 /\ e \notin DOMAIN r /\ e \in Nat
      BY <2>3
    <3>5. ASSUME NEW i \in DOMAIN r PROVE i \in 1..e /\ i # e /\ h[i] = f[i] /\ f[i] \in 1..n
      <4>1. f[i] \in 1..n
        BY <2>2 DEF ThinsBy
      <4> QED BY <2>3, <4>1
    <3>6. 1..e = DOMAIN r \cup {e}
      BY <2>3
    <3>7. DOMAIN h = 1..e
      OBVIOUS
    <3>8. h = [i \in 1..e |-> h[i]]
      OBVIOUS
    <3> HIDE DEF h, e
    <3>9. h \in [DOMAIN t -> 1..(n + 1)]
      <4>1. \A i \in 1..e : h[i] \in 1..(n + 1)
        BY <3>4, <3>5, <3>6
      <4> QED BY <4>1, <3>7, <3>8, <3>2
    <3>10. \A i, j \in DOMAIN t : i < j => h[i] < h[j]
      <4> SUFFICES ASSUME NEW i \in 1..e, NEW j \in 1..e, i < j PROVE h[i] < h[j]
        BY <3>2
      <4>1. i \in DOMAIN r
        BY <3>6, <3>4 DEF e
      <4>2. CASE j = e
        BY <4>1, <4>2, <3>4, <3>5
      <4>3. CASE j \in DOMAIN r
        BY <4>1, <4>3, <3>5, <2>2 DEF ThinsBy
      <4> QED BY <4>2, <4>3, <3>6
    <3>11. \A i \in DOMAIN t : i <= h[i] /\ t[i] = q[h[i]] /\ t[i].id \notin ids
      <4> SUFFICES ASSUME NEW i \in 1..e PROVE i <= h[i] /\ t[i] = q[h[i]] /\ t[i].id \notin ids
        BY <3>2
      <4>1. CASE i = e
        BY <4>1, <3>3, <3>4, <2>5, <2>3 DEF e
      <4>2. CASE i \in DOMAIN r
        BY <4>2, <3>3, <3>5, <2>2, <2>3 DEF ThinsBy
      <4> QED BY <4>1, <4>2, <3>6
    <3>12. \A k \in 1..(n + 1) : q[k].id \notin ids => \E i \in DOMAIN t : h[i] = k
      <4> SUFFICES ASSUME NEW k \in 1..(n + 1), q[k].id \notin ids PROVE \E i \in 1..e : h[i] = k
        BY <3>2
      <4>1. CASE k = n + 1
        BY <4>1, <3>4
      <4>2. CASE k \in 1..n
        BY <4>2, <3>5, <2>2 DEF ThinsBy
      <4> QED BY <4>1, <4>2
    <3>13. ThinsBy(h, q, ids, t, n + 1)
      BY <3>9, <3>10, <3>11, <3>12 DEF ThinsBy
    <3>14. Len(t) <= n + 1
      BY <3>2, <2>3 DEF e
    <3>15. Thins(q, ids, t, n + 1)
      BY <3>2, <3>13, <3>14 DEF Thins
    <3> QED BY <3>15 DEF t
  <2> QED BY <2>4, <2>5
<1>5. Nat \subseteq Good
  <2> HIDE DEF Good
  <2> QED BY <1>3, <1>4, SetInduction
<1> QED BY <1>1, <1>2, <1>5

LEMMA ThinKeeps ==
  ASSUME QueueAssumption, NEW q \in Seq(Entry), NEW ids
  PROVE  LET r == Without(q, ids) IN
         /\ r \in Seq(Entry)
         /\ \A i \in DOMAIN r : r[i].id \notin ids /\ \E k \in DOMAIN q : r[i] = q[k]
         /\ \A k \in DOMAIN q : q[k].id \notin ids => \E i \in DOMAIN r : r[i] = q[k]
         /\ \A i, j \in DOMAIN r : i # j => \E k, l \in DOMAIN q : k # l /\ r[i] = q[k] /\ r[j] = q[l]
         /\ OverflowOf(q) => OverflowOf(r)
<1> DEFINE r == Without(q, ids)
<1>1. Thins(q, ids, r, Len(q))
  BY Thinning
<1> HIDE DEF r
<1>2. PICK f : ThinsBy(f, q, ids, r, Len(q))
  BY <1>1 DEF Thins
<1>3. r \in Seq(Entry) /\ DOMAIN q = 1..Len(q) /\ DOMAIN r = 1..Len(r) /\ Len(r) \in Nat /\ Len(q) \in Nat
  BY <1>1 DEF Thins
<1>4. \A i \in DOMAIN r : f[i] \in DOMAIN q /\ i <= f[i] /\ r[i] = q[f[i]] /\ r[i].id \notin ids
  BY <1>2, <1>3 DEF ThinsBy
<1>5. \A i, j \in DOMAIN r : i < j => f[i] < f[j]
  BY <1>2 DEF ThinsBy
<1>6. \A k \in DOMAIN q : q[k].id \notin ids => \E i \in DOMAIN r : r[i] = q[k]
  BY <1>2, <1>3, <1>4 DEF ThinsBy
<1>7. ASSUME NEW i \in DOMAIN r, NEW j \in DOMAIN r, i # j
      PROVE  \E k, l \in DOMAIN q : k # l /\ r[i] = q[k] /\ r[j] = q[l]
  <2>1. f[i] # f[j]
    <3>1. CASE i < j
      BY <3>1, <1>3, <1>4, <1>5
    <3>2. CASE j < i
      BY <3>2, <1>3, <1>4, <1>5
    <3> QED BY <3>1, <3>2, <1>7, <1>3
  <2> QED BY <2>1, <1>4
<1>8. ASSUME OverflowOf(q) PROVE OverflowOf(r)
  <2> SUFFICES ASSUME NEW i \in DOMAIN r, i > Limit, NEW j \in At(r, r[i].place), j < i PROVE FALSE
    BY <1>3 DEF OverflowOf, At
  <2>1. j \in DOMAIN r /\ r[i].place # NoPlace /\ r[j].place = r[i].place
    BY DEF At
  <2>2. f[j] < f[i] /\ f[i] > Limit /\ f[i] \in Nat /\ f[j] \in Nat
    BY <2>1, <1>3, <1>4, <1>5 DEF QueueAssumption
  <2>3. f[j] \in At(q, q[f[i]].place)
    BY <2>1, <1>4 DEF At
  <2>4. f[j] >= f[i]
    BY <2>2, <2>3, <1>4, <1>8 DEF OverflowOf
  <2> QED BY <2>2, <2>4
<1>9. \A i \in DOMAIN r : r[i].id \notin ids /\ \E k \in DOMAIN q : r[i] = q[k]
  BY <1>4
<1> QED BY <1>3, <1>6, <1>7, <1>8, <1>9 DEF r

\* How r comes of q when w is added, entry by entry.
Grows(q, w, r) ==
  /\ r \in Seq(Entry) /\ \A i \in DOMAIN r : Sound(r[i])
  /\ \A i \in DOMAIN q : i \in DOMAIN r /\ r[i].id = q[i].id /\ q[i].messages \subseteq r[i].messages
  /\ \A i \in DOMAIN r :
       \/ i \notin DOMAIN q /\ r[i] = w /\ w.id \notin Ids(q)
       \/ /\ i \in DOMAIN q /\ r[i].id = q[i].id /\ r[i].place = q[i].place
          /\ r[i].messages # q[i].messages =>
               /\ w.place # NoPlace /\ w.id \notin Ids(q) /\ r[i].messages = q[i].messages \cup w.messages
               /\ Len(q) >= Limit /\ At(q, w.place) # {} /\ i = Min(At(q, w.place))
  /\ w.id \notin Ids(q) =>
       \E i \in DOMAIN r : w.messages \subseteq r[i].messages /\ r[i].place = w.place
                             /\ (w.place = NoPlace => r[i] = w)
  /\ w.id \in Ids(q) => r = q
  /\ Distinct(q) => Distinct(r)
  /\ OverflowOf(q) => OverflowOf(r)
  /\ Apart(q) /\ w.messages \cap MessagesIn(q) = {} => Apart(r)

LEMMA AppendGrows ==
  ASSUME QueueAssumption, NEW q \in Seq(Entry), \A i \in DOMAIN q : Sound(q[i]), NEW w, Sound(w),
         NEW r, Appends(q, w, r), w.id \notin Ids(q), Len(q) >= Limit => At(q, w.place) = {}
  PROVE  Grows(q, w, r)
<1> DEFINE e == Len(q) + 1
<1>1. DOMAIN q = 1..Len(q) /\ Len(q) \in Nat /\ e \notin DOMAIN q /\ e \in Nat /\ e > Len(q)
  OBVIOUS
<1>2. r \in Seq(Entry) /\ DOMAIN r = DOMAIN q \cup {e} /\ r[e] = w /\ \A i \in DOMAIN q : r[i] = q[i]
  BY DEF Appends
<1> HIDE DEF e
<1>3. Distinct(q) => Distinct(r)
  BY <1>1, <1>2 DEF Distinct, Ids
<1>4. ASSUME Apart(q), w.messages \cap MessagesIn(q) = {} PROVE Apart(r)
  <2> SUFFICES ASSUME NEW i \in DOMAIN r, NEW j \in DOMAIN r, i # j
               PROVE  r[i].messages \cap r[j].messages = {}
    BY DEF Apart
  <2>1. \A k \in DOMAIN q : q[k].messages \cap w.messages = {}
    BY <1>4 DEF MessagesIn
  <2> QED BY <2>1, <1>2, <1>4 DEF Apart
<1>5. ASSUME OverflowOf(q) PROVE OverflowOf(r)
  <2> SUFFICES ASSUME NEW i \in DOMAIN r, i > Limit, NEW j \in At(r, r[i].place) PROVE j >= i
    BY DEF OverflowOf
  <2>1. j \in DOMAIN r /\ r[i].place # NoPlace /\ r[j].place = r[i].place
    BY DEF At
  <2>2. CASE i \in DOMAIN q
    <3>1. CASE j \in DOMAIN q
      <4>1. j \in At(q, q[i].place)
        BY <2>1, <2>2, <3>1, <1>2 DEF At
      <4> QED BY <4>1, <2>2, <1>5 DEF OverflowOf
    <3>2. CASE j = e
      BY <3>2, <2>2, <1>1 DEF e
    <3> QED BY <3>1, <3>2, <2>1, <1>2
  <2>3. CASE i = e
    <3>1. At(q, w.place) = {}
      BY <2>3, <1>1 DEF e, QueueAssumption
    <3>2. j = e
      BY <3>1, <2>1, <2>3, <1>2 DEF At
    <3> QED BY <3>2, <2>3, <1>1
  <2> QED BY <2>2, <2>3, <1>2
<1>6. \A i \in DOMAIN r : Sound(r[i])
  BY <1>2
<1>7. e \in DOMAIN r
  BY <1>2
<1> QED BY <1>1, <1>2, <1>3, <1>4, <1>5, <1>6, <1>7 DEF Grows

LEMMA JoinGrows ==
  ASSUME QueueAssumption, NEW q \in Seq(Entry), \A i \in DOMAIN q : Sound(q[i]), NEW w, Sound(w),
         NEW r, Joins(q, w, r), w.id \notin Ids(q), Len(q) >= Limit, At(q, w.place) # {}
  PROVE  Grows(q, w, r)
<1>1. PICK k \in At(q, w.place) :
           /\ k = Min(At(q, w.place))
           /\ r[k].id = q[k].id /\ r[k].place = q[k].place
           /\ r[k].messages = q[k].messages \cup w.messages
           /\ \A i \in DOMAIN q \ {k} : r[i] = q[i]
  BY DEF Joins
<1>2. r \in Seq(Entry) /\ DOMAIN r = DOMAIN q
  BY DEF Joins
<1>3. k \in DOMAIN q /\ w.place # NoPlace /\ q[k].place = w.place
  BY <1>1 DEF At
<1>4. \A i \in DOMAIN r : r[i].id = q[i].id /\ r[i].place = q[i].place
  BY <1>1, <1>2, <1>3
<1>5. \A i \in DOMAIN r : r[i].messages # q[i].messages => i = k
  BY <1>1, <1>2
<1>6. ASSUME NEW i \in DOMAIN r PROVE Sound(r[i])
  <2>1. CASE i = k
    <3>1. r[k] \in Entry
      BY <1>2, <1>3
    <3> QED BY <3>1, <2>1, <1>1, <1>3 DEF Sound
  <2>2. CASE i # k
    BY <2>2, <1>1, <1>2
  <2> QED BY <2>1, <2>2
<1>7. Distinct(q) => Distinct(r)
  BY <1>2, <1>4 DEF Distinct
<1>8. \A p : At(r, p) = At(q, p)
  BY <1>2, <1>4 DEF At
<1>9. OverflowOf(q) => OverflowOf(r)
  BY <1>2, <1>4, <1>8 DEF OverflowOf
<1>10. ASSUME Apart(q), w.messages \cap MessagesIn(q) = {} PROVE Apart(r)
  <2> SUFFICES ASSUME NEW i \in DOMAIN r, NEW j \in DOMAIN r, i # j
               PROVE  r[i].messages \cap r[j].messages = {}
    BY DEF Apart
  <2>1. \A l \in DOMAIN q : q[l].messages \cap w.messages = {}
    BY <1>10 DEF MessagesIn
  <2>2. q[i].messages \cap q[j].messages = {}
    BY <1>2, <1>10 DEF Apart
  <2>3. q[i].messages \cap w.messages = {} /\ q[j].messages \cap w.messages = {}
    BY <2>1, <1>2
  <2>4. CASE i = k
    BY <2>2, <2>3, <2>4, <1>1, <1>2
  <2>5. CASE j = k
    BY <2>2, <2>3, <2>5, <1>1, <1>2
  <2>6. CASE i # k /\ j # k
    BY <2>2, <2>6, <1>1, <1>2
  <2> QED BY <2>4, <2>5, <2>6
<1>11. w.messages \subseteq r[k].messages /\ r[k].place = w.place /\ k \in DOMAIN r
  BY <1>1, <1>2, <1>3
<1>12. \A i \in DOMAIN q : i \in DOMAIN r /\ q[i].messages \subseteq r[i].messages
  BY <1>1, <1>2
<1>13. ASSUME NEW i \in DOMAIN r, r[i].messages # q[i].messages
       PROVE  r[i].messages = q[i].messages \cup w.messages /\ i = Min(At(q, w.place))
  BY <1>13, <1>1, <1>5
<1> QED BY <1>2, <1>3, <1>4, <1>6, <1>7, <1>9, <1>10, <1>11, <1>12, <1>13 DEF Grows

LEMMA AddGrows ==
  ASSUME QueueAssumption, NEW q \in Seq(Entry), \A i \in DOMAIN q : Sound(q[i]), NEW w, Sound(w)
  PROVE  Grows(q, w, WithImmediate(q, w))
<1> DEFINE r == WithImmediate(q, w)
<1>1. w \in Entry
  BY DEF Sound
<1>2. \/ w.id \in Ids(q) /\ r = q
      \/ /\ w.id \notin Ids(q) /\ Appends(q, w, r)
         /\ Len(q) >= Limit => At(q, w.place) = {}
      \/ /\ w.id \notin Ids(q) /\ Joins(q, w, r)
         /\ Len(q) >= Limit /\ At(q, w.place) # {}
  BY <1>1, Adding
<1> HIDE DEF r
<1>3. CASE w.id \in Ids(q) /\ r = q
  <2>1. Grows(q, w, q)
    BY <1>3 DEF Grows
  <2> QED BY <2>1, <1>3 DEF r
<1>4. CASE /\ w.id \notin Ids(q) /\ Appends(q, w, r)
           /\ Len(q) >= Limit => At(q, w.place) = {}
  BY <1>4, AppendGrows DEF r
<1>5. CASE /\ w.id \notin Ids(q) /\ Joins(q, w, r)
           /\ Len(q) >= Limit /\ At(q, w.place) # {}
  BY <1>5, JoinGrows DEF r
<1> QED BY <1>2, <1>3, <1>4, <1>5

\* r is q without the entries of these ids.
LeavesOut(q, ids, r) ==
  /\ r \in Seq(Entry) /\ \A i \in DOMAIN r : Sound(r[i])
  /\ \A i \in DOMAIN r : r[i].id \notin ids /\ \E k \in DOMAIN q : r[i] = q[k]
  /\ \A k \in DOMAIN q : q[k].id \notin ids => \E i \in DOMAIN r : r[i] = q[k]
  /\ MessagesIn(r) \subseteq MessagesIn(q)
  /\ Distinct(q) => Distinct(r)
  /\ Apart(q) => Apart(r)
  /\ OverflowOf(q) => OverflowOf(r)

LEMMA LeavingOut ==
  ASSUME QueueAssumption, NEW q \in Seq(Entry), \A i \in DOMAIN q : Sound(q[i]), NEW ids
  PROVE  LeavesOut(q, ids, Without(q, ids))
<1> DEFINE r == Without(q, ids)
<1>1. /\ r \in Seq(Entry)
      /\ \A i \in DOMAIN r : r[i].id \notin ids /\ \E k \in DOMAIN q : r[i] = q[k]
      /\ \A k \in DOMAIN q : q[k].id \notin ids => \E i \in DOMAIN r : r[i] = q[k]
      /\ \A i, j \in DOMAIN r : i # j => \E k, l \in DOMAIN q : k # l /\ r[i] = q[k] /\ r[j] = q[l]
      /\ OverflowOf(q) => OverflowOf(r)
  BY ThinKeeps
<1> HIDE DEF r
<1>2. \A i \in DOMAIN r : Sound(r[i])
  BY <1>1
<1>3. MessagesIn(r) \subseteq MessagesIn(q)
  BY <1>1 DEF MessagesIn
<1>4. Distinct(q) => Distinct(r)
  <2> SUFFICES ASSUME Distinct(q), NEW i \in DOMAIN r, NEW j \in DOMAIN r, r[i].id = r[j].id, i # j
               PROVE  FALSE
    BY DEF Distinct
  <2>1. PICK k, l \in DOMAIN q : k # l /\ r[i] = q[k] /\ r[j] = q[l]
    BY <1>1
  <2> QED BY <2>1 DEF Distinct
<1>5. Apart(q) => Apart(r)
  <2> SUFFICES ASSUME Apart(q), NEW i \in DOMAIN r, NEW j \in DOMAIN r, i # j
               PROVE  r[i].messages \cap r[j].messages = {}
    BY DEF Apart
  <2>1. PICK k, l \in DOMAIN q : k # l /\ r[i] = q[k] /\ r[j] = q[l]
    BY <1>1
  <2> QED BY <2>1 DEF Apart
<1> QED BY <1>1, <1>2, <1>3, <1>4, <1>5 DEF LeavesOut, r

-----------------------------------------------------------------------------
(* What a turn's wakes become when they go back *)

\* r holds the first n entries of list, each as an entry or joined to one.
Gathers(list, n, r) ==
  /\ r \in Seq(Entry) /\ \A i \in DOMAIN r : Sound(r[i])
  /\ Distinct(r) /\ OverflowOf(r)
  /\ \A i \in DOMAIN r : \E k \in 1..n : list[k].id = r[i].id
  /\ \A k \in 1..n : list[k].messages \subseteq MessagesIn(r)
  /\ \A i \in DOMAIN r, k \in 1..n : list[k].id = r[i].id => list[k].messages \subseteq r[i].messages
  /\ \A m \in MessagesIn(r) : \E k \in 1..n : m \in list[k].messages
  /\ Apart(list) => Apart(r)

LEMMA GatherOne ==
  ASSUME QueueAssumption, NEW list \in Seq(Entry), \A i \in DOMAIN list : Sound(list[i]),
         PlacesOnce(list), NEW n \in Nat, n + 1 \in DOMAIN list,
         NEW q, Gathers(list, n, q), NEW r, Grows(q, list[n + 1], r)
  PROVE  Gathers(list, n + 1, r)
<1> DEFINE w == list[n + 1]
<1>1. DOMAIN list = 1..Len(list) /\ 1..(n + 1) \subseteq DOMAIN list /\ 1..(n + 1) = 1..n \cup {n + 1} /\ n + 1 \notin 1..n
  OBVIOUS
<1>2. Sound(w) /\ \A k \in 1..n : Sound(list[k]) /\ k # n + 1
  BY <1>1
<1>3. \A k \in 1..n : list[k].id = w.id => list[k].place = NoPlace /\ w.place = NoPlace /\ list[k].messages = w.messages
  BY <1>1, <1>2 DEF PlacesOnce, Sound
<1> HIDE DEF w
<1>4. Grows(q, w, r)
  BY DEF w
<1>5. r \in Seq(Entry) /\ (\A i \in DOMAIN r : Sound(r[i])) /\ Distinct(r) /\ OverflowOf(r)
  BY <1>4 DEF Grows, Gathers
<1>6. \A i \in DOMAIN r : \E k \in 1..(n + 1) : list[k].id = r[i].id
  <2> TAKE i \in DOMAIN r
  <2>1. CASE i \in DOMAIN q
    <3>1. q[i].id = r[i].id
      BY <2>1, <1>4 DEF Grows
    <3>2. \E k \in 1..n : list[k].id = q[i].id
      BY <2>1 DEF Gathers
    <3> QED BY <3>1, <3>2, <1>1
  <2>2. CASE i \notin DOMAIN q
    BY <2>2, <1>1, <1>4 DEF Grows, w
  <2> QED BY <2>1, <2>2
<1>7. ASSUME NEW i \in DOMAIN r, NEW k \in 1..(n + 1), list[k].id = r[i].id
      PROVE  list[k].messages \subseteq r[i].messages
  <2>1. CASE i \in DOMAIN q /\ k \in 1..n
    <3>1. q[i].id = r[i].id /\ q[i].messages \subseteq r[i].messages
      BY <2>1, <1>4 DEF Grows
    <3> QED BY <3>1, <2>1, <1>7 DEF Gathers
  <2>2. CASE i \in DOMAIN q /\ k = n + 1
    <3>1. q[i].id = w.id /\ q[i].messages \subseteq r[i].messages
      BY <2>2, <1>4, <1>7 DEF Grows, w
    <3>2. PICK l \in 1..n : list[l].id = q[i].id
      BY <2>2 DEF Gathers
    <3>3. list[l].messages \subseteq q[i].messages
      BY <3>2, <2>2 DEF Gathers
    <3>4. list[l].messages = w.messages
      BY <3>1, <3>2, <1>3
    <3> QED BY <3>1, <3>3, <3>4, <2>2 DEF w
  <2>3. CASE i \notin DOMAIN q
    <3>1. r[i] = w
      BY <2>3, <1>4 DEF Grows
    <3>2. k = n + 1 \/ list[k].messages = w.messages
      BY <3>1, <1>1, <1>3, <1>7
    <3> QED BY <3>1, <3>2 DEF w
  <2> QED BY <2>1, <2>2, <2>3, <1>1
<1>8. ASSUME NEW k \in 1..(n + 1) PROVE list[k].messages \subseteq MessagesIn(r)
  <2>1. CASE k \in 1..n
    <3>1. MessagesIn(q) \subseteq MessagesIn(r)
      BY <1>4 DEF Grows, MessagesIn
    <3> QED BY <3>1, <2>1 DEF Gathers
  <2>2. CASE k = n + 1
    <3>1. CASE w.id \in Ids(q)
      <4>1. PICK i \in DOMAIN q : q[i].id = w.id
        BY <3>1 DEF Ids
      <4>2. i \in DOMAIN r /\ r[i].id = w.id
        BY <4>1, <1>4 DEF Grows
      <4>3. w.messages \subseteq r[i].messages
        BY <4>2, <2>2, <1>7, <1>1 DEF w
      <4> QED BY <4>2, <4>3, <2>2 DEF w, MessagesIn
    <3>2. CASE w.id \notin Ids(q)
      <4>1. PICK i \in DOMAIN r : w.messages \subseteq r[i].messages
        BY <3>2, <1>4 DEF Grows
      <4> QED BY <4>1, <2>2 DEF w, MessagesIn
    <3> QED BY <3>1, <3>2
  <2> QED BY <2>1, <2>2, <1>1
<1>9. ASSUME NEW m \in MessagesIn(r) PROVE \E k \in 1..(n + 1) : m \in list[k].messages
  <2>1. PICK i \in DOMAIN r : m \in r[i].messages
    BY <1>9 DEF MessagesIn
  <2>2. CASE m \in w.messages
    BY <2>2, <1>1 DEF w
  <2>3. CASE m \notin w.messages
    <3>1. i \in DOMAIN q /\ m \in q[i].messages
      BY <2>1, <2>3, <1>4 DEF Grows
    <3>2. m \in MessagesIn(q)
      BY <3>1 DEF MessagesIn
    <3> QED BY <3>2, <1>1 DEF Gathers
  <2> QED BY <2>2, <2>3
<1>10. ASSUME Apart(list) PROVE Apart(r)
  <2>1. Apart(q)
    BY <1>10 DEF Gathers
  <2>2. \A k \in 1..n : list[k].messages \cap w.messages = {}
    BY <1>10, <1>1, <1>2 DEF Apart, w
  <2>3. w.messages \cap MessagesIn(q) = {}
    BY <2>2 DEF Gathers
  <2> QED BY <2>1, <2>3, <1>4 DEF Grows
<1> QED BY <1>5, <1>6, <1>7, <1>8, <1>9, <1>10 DEF Gathers

LEMMA Gathering ==
  ASSUME QueueAssumption, NEW list \in Seq(Entry), \A i \in DOMAIN list : Sound(list[i]),
         PlacesOnce(list)
  PROVE  Gathers(list, Len(list), FoldLeft(WithImmediate, <<>>, list))
<1>1. PICK f : /\ f[0] = <<>>
               /\ \A n \in 0..(Len(list) - 1) : f[n + 1] = WithImmediate(f[n], list[n + 1])
               /\ FoldLeft(WithImmediate, <<>>, list) = f[Len(list)]
  BY AddStages
<1>2. DOMAIN list = 1..Len(list) /\ Len(list) \in Nat
  OBVIOUS
<1> DEFINE Good == {n \in Nat : n <= Len(list) => Gathers(list, n, f[n])}
<1>3. 0 \in Good
  <2> DEFINE r == f[0]
  <2>1. r = <<>>
    BY <1>1
  <2>2. DOMAIN r = {} /\ r \in Seq(Entry)
    BY <2>1
  <2> HIDE DEF r
  <2>3. MessagesIn(r) = {}
    BY <2>2 DEF MessagesIn
  <2>4. Gathers(list, 0, r)
    BY <2>2, <2>3 DEF Gathers, Distinct, OverflowOf, Apart
  <2> QED BY <2>4 DEF r
<1>4. ASSUME NEW n \in Nat, n \in Good PROVE n + 1 \in Good
  <2> SUFFICES ASSUME n + 1 <= Len(list) PROVE Gathers(list, n + 1, f[n + 1])
    OBVIOUS
  <2>1. Gathers(list, n, f[n]) /\ n + 1 \in DOMAIN list /\ f[n + 1] = WithImmediate(f[n], list[n + 1])
    BY <1>1, <1>2, <1>4
  <2>2. f[n] \in Seq(Entry) /\ \A i \in DOMAIN f[n] : Sound(f[n][i])
    BY <2>1 DEF Gathers
  <2>3. Grows(f[n], list[n + 1], f[n + 1])
    BY <2>1, <2>2, AddGrows
  <2> QED BY <2>1, <2>3, GatherOne
<1>5. Nat \subseteq Good
  <2> HIDE DEF Good
  <2> QED BY <1>3, <1>4, SetInduction
<1> QED BY <1>1, <1>2, <1>5

LEMMA Joined ==
  ASSUME NEW a \in Seq(Entry), NEW b \in Seq(Entry)
  PROVE  LET c == a \o b IN
         /\ c \in Seq(Entry)
         /\ \A i \in DOMAIN a : i \in DOMAIN c /\ c[i] = a[i]
         /\ \A i \in DOMAIN b : Len(a) + i \in DOMAIN c /\ c[Len(a) + i] = b[i]
         /\ \A i \in DOMAIN c : \/ i \in DOMAIN a
                                \/ \E k \in DOMAIN b : i = Len(a) + k
<1> DEFINE c == a \o b
<1>1. c \in Seq(Entry) /\ Len(c) = Len(a) + Len(b) /\ DOMAIN c = 1..(Len(a) + Len(b))
  OBVIOUS
<1>2. DOMAIN a = 1..Len(a) /\ DOMAIN b = 1..Len(b) /\ Len(a) \in Nat /\ Len(b) \in Nat
  OBVIOUS
<1>3. \A i \in 1..Len(a) : c[i] = a[i]
  BY <1>2
<1>4. \A i \in 1..Len(b) : c[Len(a) + i] = b[i]
  BY <1>2
<1> HIDE DEF c
<1>5. ASSUME NEW i \in DOMAIN c, i \notin DOMAIN a PROVE \E k \in DOMAIN b : i = Len(a) + k
  <2>1. i - Len(a) \in DOMAIN b /\ i = Len(a) + (i - Len(a))
    BY <1>1, <1>2, <1>5
  <2> QED BY <2>1
<1> QED BY <1>1, <1>2, <1>3, <1>4, <1>5 DEF c

\* The queue after a turn's wakes came back to it.
Returns(q, ws, r) ==
  /\ r \in Seq(Entry) /\ \A i \in DOMAIN r : Sound(r[i])
  /\ Distinct(r) /\ OverflowOf(r)
  /\ MessagesIn(q) \subseteq MessagesIn(r)
  /\ \A j \in DOMAIN ws : ws[j].id \notin Ids(q) => ws[j].messages \subseteq MessagesIn(r)
  /\ \A i \in DOMAIN r, k \in DOMAIN q : q[k].id = r[i].id => q[k].messages \subseteq r[i].messages
  /\ \A i \in DOMAIN r, j \in DOMAIN ws :
       ws[j].id = r[i].id /\ ws[j].id \notin Ids(q) => ws[j].messages \subseteq r[i].messages
  /\ \A m \in MessagesIn(r) :
       m \in MessagesIn(q) \/ \E j \in DOMAIN ws : ws[j].id \notin Ids(q) /\ m \in ws[j].messages
  /\ Apart(q) /\ Apart(ws)
     /\ (\A j \in DOMAIN ws : ws[j].id \notin Ids(q) => ws[j].messages \cap MessagesIn(q) = {})
       => Apart(r)

LEMMA Returning ==
  ASSUME QueueAssumption, NEW q \in Seq(Entry), NEW ws \in Seq(Entry),
         \A i \in DOMAIN q : Sound(q[i]), \A i \in DOMAIN ws : Sound(ws[i]),
         Distinct(q), PlacesOnce(ws)
  PROVE  Returns(q, ws, Requeue(q, ws))
<1> DEFINE a == Without(ws, Ids(q))
           c == a \o q
           r == Requeue(q, ws)
<1>1. /\ a \in Seq(Entry)
      /\ \A i \in DOMAIN a : a[i].id \notin Ids(q) /\ \E k \in DOMAIN ws : a[i] = ws[k]
      /\ \A k \in DOMAIN ws : ws[k].id \notin Ids(q) => \E i \in DOMAIN a : a[i] = ws[k]
      /\ \A i, j \in DOMAIN a : i # j => \E k, l \in DOMAIN ws : k # l /\ a[i] = ws[k] /\ a[j] = ws[l]
  BY ThinKeeps
<1> HIDE DEF a
<1>2. /\ c \in Seq(Entry)
      /\ \A i \in DOMAIN a : i \in DOMAIN c /\ c[i] = a[i]
      /\ \A i \in DOMAIN q : Len(a) + i \in DOMAIN c /\ c[Len(a) + i] = q[i]
      /\ \A i \in DOMAIN c : \/ i \in DOMAIN a
                             \/ \E k \in DOMAIN q : i = Len(a) + k
  BY <1>1, Joined
<1>3. r = FoldLeft(WithImmediate, <<>>, c)
  BY DEF Requeue, a
<1> HIDE DEF c, r
<1>4. \A i \in DOMAIN q : q[i].id \in Ids(q)
  BY DEF Ids
<1>5. \A i \in DOMAIN c : \/ c[i].id \notin Ids(q) /\ \E k \in DOMAIN ws : c[i] = ws[k]
                          \/ \E k \in DOMAIN q : c[i] = q[k]
  BY <1>1, <1>2
<1>6. \A i \in DOMAIN c : Sound(c[i])
  BY <1>5
<1>7. ASSUME NEW i \in DOMAIN c, NEW j \in DOMAIN c, i # j
      PROVE  \/ \E k, l \in DOMAIN ws : k # l /\ c[i] = ws[k] /\ c[j] = ws[l]
             \/ \E k, l \in DOMAIN q : k # l /\ c[i] = q[k] /\ c[j] = q[l]
             \/ \E k \in DOMAIN ws, l \in DOMAIN q :
                  ws[k].id \notin Ids(q) /\ {c[i], c[j]} = {ws[k], q[l]}
  <2>1. CASE i \in DOMAIN a /\ j \in DOMAIN a
    BY <2>1, <1>1, <1>2, <1>7
  <2>2. CASE i \in DOMAIN a /\ j \notin DOMAIN a
    <3>1. PICK l \in DOMAIN q : c[j] = q[l]
      BY <2>2, <1>2
    <3>2. PICK k \in DOMAIN ws : c[i] = ws[k] /\ ws[k].id \notin Ids(q)
      <4>1. a[i].id \notin Ids(q) /\ c[i] = a[i]
        BY <2>2, <1>1, <1>2
      <4>2. PICK k \in DOMAIN ws : a[i] = ws[k]
        BY <2>2, <1>1
      <4> QED BY <4>1, <4>2
    <3> QED BY <3>1, <3>2
  <2>3. CASE i \notin DOMAIN a /\ j \in DOMAIN a
    <3>1. PICK l \in DOMAIN q : c[i] = q[l]
      BY <2>3, <1>2
    <3>2. PICK k \in DOMAIN ws : c[j] = ws[k] /\ ws[k].id \notin Ids(q)
      <4>1. a[j].id \notin Ids(q) /\ c[j] = a[j]
        BY <2>3, <1>1, <1>2
      <4>2. PICK k \in DOMAIN ws : a[j] = ws[k]
        BY <2>3, <1>1
      <4> QED BY <4>1, <4>2
    <3> QED BY <3>1, <3>2
  <2>4. CASE i \notin DOMAIN a /\ j \notin DOMAIN a
    <3>1. PICK k \in DOMAIN q : i = Len(a) + k /\ c[i] = q[k]
      BY <2>4, <1>2
    <3>2. PICK l \in DOMAIN q : j = Len(a) + l /\ c[j] = q[l]
      BY <2>4, <1>2
    <3> QED BY <3>1, <3>2, <1>7
  <2> QED BY <2>1, <2>2, <2>3, <2>4
<1>8. PlacesOnce(c)
  <2> SUFFICES ASSUME NEW i \in DOMAIN c, NEW j \in DOMAIN c, i # j, c[i].id = c[j].id
               PROVE  c[i].place = NoPlace
    BY DEF PlacesOnce
  <2>1. CASE \E k, l \in DOMAIN ws : k # l /\ c[i] = ws[k] /\ c[j] = ws[l]
    BY <2>1 DEF PlacesOnce
  <2>2. CASE \E k, l \in DOMAIN q : k # l /\ c[i] = q[k] /\ c[j] = q[l]
    BY <2>2 DEF Distinct
  <2>3. CASE \E k \in DOMAIN ws, l \in DOMAIN q :
               ws[k].id \notin Ids(q) /\ {c[i], c[j]} = {ws[k], q[l]}
    <3>1. PICK k \in DOMAIN ws, l \in DOMAIN q :
               ws[k].id \notin Ids(q) /\ {c[i], c[j]} = {ws[k], q[l]}
      BY <2>3
    <3>2. ws[k].id = q[l].id
      BY <3>1
    <3> QED BY <3>1, <3>2, <1>4
  <2> QED BY <1>7, <2>1, <2>2, <2>3
<1>9. Gathers(c, Len(c), r)
  BY <1>2, <1>3, <1>6, <1>8, Gathering
<1>10. DOMAIN c = 1..Len(c)
  BY <1>2
<1>11. MessagesIn(q) \subseteq MessagesIn(r)
  <2>1. \A k \in DOMAIN q : q[k].messages \subseteq MessagesIn(r)
    BY <1>2, <1>9, <1>10 DEF Gathers
  <2> QED BY <2>1 DEF MessagesIn
<1>12. \A j \in DOMAIN ws : ws[j].id \notin Ids(q) => \E i \in DOMAIN c : c[i] = ws[j]
  BY <1>1, <1>2
<1>13. \A j \in DOMAIN ws : ws[j].id \notin Ids(q) => ws[j].messages \subseteq MessagesIn(r)
  BY <1>12, <1>9, <1>10 DEF Gathers
<1>14. \A i \in DOMAIN r, k \in DOMAIN q : q[k].id = r[i].id => q[k].messages \subseteq r[i].messages
  <2> TAKE i \in DOMAIN r, k \in DOMAIN q
  <2>1. Len(a) + k \in 1..Len(c) /\ c[Len(a) + k] = q[k]
    BY <1>2, <1>10
  <2> QED BY <2>1, <1>9 DEF Gathers
<1>15. \A i \in DOMAIN r, j \in DOMAIN ws :
         ws[j].id = r[i].id /\ ws[j].id \notin Ids(q) => ws[j].messages \subseteq r[i].messages
  BY <1>12, <1>9, <1>10 DEF Gathers
<1>16. ASSUME NEW m \in MessagesIn(r)
       PROVE  m \in MessagesIn(q) \/ \E j \in DOMAIN ws : ws[j].id \notin Ids(q) /\ m \in ws[j].messages
  <2>1. PICK k \in DOMAIN c : m \in c[k].messages
    BY <1>9, <1>10 DEF Gathers
  <2> QED BY <2>1, <1>5 DEF MessagesIn
<1>17. ASSUME Apart(q), Apart(ws),
              \A j \in DOMAIN ws : ws[j].id \notin Ids(q) => ws[j].messages \cap MessagesIn(q) = {}
       PROVE  Apart(r)
  <2>1. ASSUME NEW i \in DOMAIN c, NEW j \in DOMAIN c, i # j PROVE c[i].messages \cap c[j].messages = {}
    <3>1. CASE \E k, l \in DOMAIN ws : k # l /\ c[i] = ws[k] /\ c[j] = ws[l]
      BY <3>1, <1>17 DEF Apart
    <3>2. CASE \E k, l \in DOMAIN q : k # l /\ c[i] = q[k] /\ c[j] = q[l]
      BY <3>2, <1>17 DEF Apart
    <3>3. CASE \E k \in DOMAIN ws, l \in DOMAIN q :
                 ws[k].id \notin Ids(q) /\ {c[i], c[j]} = {ws[k], q[l]}
      <4>1. PICK k \in DOMAIN ws, l \in DOMAIN q :
                 ws[k].id \notin Ids(q) /\ {c[i], c[j]} = {ws[k], q[l]}
        BY <3>3
      <4>2. ws[k].messages \cap q[l].messages = {}
        BY <4>1, <1>17 DEF MessagesIn
      <4>3. c[i].id # c[j].id
        BY <4>1, <1>4
      <4> QED BY <4>1, <4>2, <4>3
    <3> QED BY <2>1, <1>7, <3>1, <3>2, <3>3
  <2>2. Apart(c)
    BY <2>1 DEF Apart
  <2> QED BY <2>2, <1>9 DEF Gathers
<1> QED BY <1>9, <1>11, <1>13, <1>14, <1>15, <1>16, <1>17 DEF Returns, Gathers, r

-----------------------------------------------------------------------------
(* The invariant is inductive: the initial states, then action by action *)

LEMMA Empty ==
  /\ MessagesIn(<<>>) = {} /\ Ids(<<>>) = {} /\ DOMAIN <<>> = {}
  /\ Distinct(<<>>) /\ PlacesOnce(<<>>) /\ Apart(<<>>)
BY DEF MessagesIn, Ids, Distinct, PlacesOnce, Apart

LEMMA InitInv ==
  ASSUME QueueAssumption, Init
  PROVE  IInv
<1>1. TypeOK
  <2>1. spent \in BOOLEAN
    BY Zenon DEF Init
  <2>2. <<>> \in Seq(Entry)
    OBVIOUS
  <2> QED BY <2>1, <2>2 DEF Init, TypeOK, QueueAssumption
<1>2. MessagesIn(<<>>) = {} /\ DOMAIN <<>> = {}
  BY DEF MessagesIn
<1>3. AllSound /\ IdsAreDistinct /\ NewIsNowhere /\ BatchStands /\ PeekStands
  BY <1>2 DEF Init, AllSound, IdsAreDistinct, Distinct, PlacesOnce, NewIsNowhere, BatchStands, PeekStands
<1>4. TurnCopies /\ GivenBack /\ TurnIsTaken /\ LineStands
  BY <1>2 DEF Init, TurnCopies, GivenBack, TurnIsTaken, LineStands, Reading
<1>5. TurnIsApart /\ NoMessageVanishes /\ WaitsOnce /\ OverflowIsOnePerPlace /\ QuietLinesConserved
  BY <1>2 DEF Init, TurnIsApart, Apart, NoMessageVanishes, WaitsOnce, OverflowIsOnePerPlace,
     QuietLinesConserved
<1> QED BY <1>1, <1>3, <1>4, <1>5 DEF IInv

LEMMA DecideKeeps ==
  ASSUME QueueAssumption, IInv, NEW m \in Messages, Decide(m)
  PROVE  IInv'
<1>1. TypeOK /\ AllSound /\ IdsAreDistinct /\ NewIsNowhere /\ BatchStands /\ PeekStands /\ TurnCopies /\ GivenBack
      /\ TurnIsTaken /\ LineStands /\ TurnIsApart /\ NoMessageVanishes /\ WaitsOnce /\ OverflowIsOnePerPlace /\ QuietLinesConserved
  BY DEF IInv
<1>2. UNCHANGED <<immediate, deferred, quiet, turnWakes, pc, peek, peekQuiet, batch, spent, days, crashes, raised, joined, late, heard, shown>>
  BY DEF Decide, file, cycle, counts, joins, vars
<1>3. TypeOK'
  BY <1>1, <1>2 DEF Decide, TypeOK
<1>4. NewIsNowhere'
  BY <1>1, <1>2 DEF Decide, NewIsNowhere
<1>5. NoMessageVanishes'
  BY <1>1, <1>2 DEF Decide, NoMessageVanishes
<1>6. (AllSound /\ IdsAreDistinct /\ BatchStands /\ PeekStands /\ TurnCopies /\ GivenBack /\ TurnIsTaken /\ LineStands /\ TurnIsApart /\ WaitsOnce /\ OverflowIsOnePerPlace /\ QuietLinesConserved)'
  BY <1>1, <1>2 DEF AllSound, IdsAreDistinct, BatchStands, PeekStands, TurnCopies, GivenBack, TurnIsTaken, LineStands, TurnIsApart, WaitsOnce, OverflowIsOnePerPlace, QuietLinesConserved, Reading, Orderly, Waiting
<1> QED BY <1>3, <1>4, <1>5, <1>6 DEF IInv

LEMMA DeferKeeps ==
  ASSUME QueueAssumption, IInv, NEW m \in Messages, Defer(m)
  PROVE  IInv'
<1>1. TypeOK /\ AllSound /\ IdsAreDistinct /\ NewIsNowhere /\ BatchStands /\ PeekStands /\ TurnCopies /\ GivenBack
      /\ TurnIsTaken /\ LineStands /\ TurnIsApart /\ NoMessageVanishes /\ WaitsOnce /\ OverflowIsOnePerPlace /\ QuietLinesConserved
  BY DEF IInv
<1>2. UNCHANGED <<immediate, quiet, turnWakes, pc, peek, peekQuiet, batch, spent, days, crashes, raised, joined, late, heard, shown>>
  BY DEF Defer, file, cycle, counts, joins, vars
<1>3. m \notin MessagesIn(immediate) \cup MessagesIn(turnWakes) \cup heard /\ deferred' = deferred \cup {m}
  BY <1>1 DEF NewIsNowhere, Defer
<1>4. TypeOK'
  BY <1>1, <1>2 DEF Defer, TypeOK
<1>5. NewIsNowhere'
  <2> SUFFICES ASSUME NEW n \in Messages, routing'[n] # "in"
               PROVE  n \notin (MessagesIn(immediate) \cup MessagesIn(turnWakes) \cup MessagesIn(peek)
                                 \cup deferred \cup heard \cup late)'
    BY DEF NewIsNowhere
  <2>1. n # m /\ routing[n] # "in"
    BY <1>1 DEF Defer, TypeOK
  <2> QED BY <2>1, <1>1, <1>2, <1>3 DEF NewIsNowhere
<1>6. BatchStands'
  BY <1>1, <1>2 DEF Defer, BatchStands
<1>7. TurnIsApart'
  <2>1. Orderly' => Orderly
    BY <1>2 DEF Orderly
  <2>2. Waiting' = Waiting \cup {m}
    BY <1>2, <1>3 DEF Waiting
  <2>3. \A j \in DOMAIN turnWakes : m \notin turnWakes[j].messages
    BY <1>3 DEF MessagesIn
  <2> QED BY <1>1, <1>2, <1>3, <2>1, <2>2, <2>3 DEF TurnIsApart
<1>8. NoMessageVanishes'
  BY <1>1, <1>2 DEF Defer, NoMessageVanishes
<1>9. WaitsOnce'
  BY <1>1, <1>2, <1>3 DEF WaitsOnce
<1>10. (AllSound /\ IdsAreDistinct /\ PeekStands /\ TurnCopies /\ GivenBack /\ TurnIsTaken /\ LineStands /\ OverflowIsOnePerPlace /\ QuietLinesConserved)'
  BY <1>1, <1>2 DEF AllSound, IdsAreDistinct, PeekStands, TurnCopies, GivenBack, TurnIsTaken, LineStands, OverflowIsOnePerPlace, QuietLinesConserved, Reading
<1> QED BY <1>4, <1>5, <1>6, <1>7, <1>8, <1>9, <1>10 DEF IInv

LEMMA RaiseQuietKeeps ==
  ASSUME QueueAssumption, IInv, RaiseQuiet
  PROVE  IInv'
<1>1. TypeOK /\ AllSound /\ IdsAreDistinct /\ NewIsNowhere /\ BatchStands /\ PeekStands /\ TurnCopies /\ GivenBack
      /\ TurnIsTaken /\ LineStands /\ TurnIsApart /\ NoMessageVanishes /\ WaitsOnce /\ OverflowIsOnePerPlace /\ QuietLinesConserved
  BY DEF IInv
<1>2. UNCHANGED <<immediate, deferred, turnWakes, pc, peek, peekQuiet, routing, batch, spent, days, crashes, joined, late, heard, shown>>
  BY DEF RaiseQuiet, file, cycle, counts, joins, vars
<1>3. TypeOK'
  BY <1>1, <1>2 DEF RaiseQuiet, TypeOK
<1>4. LineStands'
  BY <1>1, <1>2 DEF RaiseQuiet, LineStands, Reading, TypeOK
<1>5. QuietLinesConserved'
  BY <1>1, <1>2 DEF RaiseQuiet, QuietLinesConserved, TypeOK
<1>6. (AllSound /\ IdsAreDistinct /\ NewIsNowhere /\ BatchStands /\ PeekStands /\ TurnCopies /\ GivenBack /\ TurnIsTaken /\ TurnIsApart /\ NoMessageVanishes /\ WaitsOnce /\ OverflowIsOnePerPlace)'
  BY <1>1, <1>2 DEF AllSound, IdsAreDistinct, NewIsNowhere, BatchStands, PeekStands, TurnCopies, GivenBack, TurnIsTaken, TurnIsApart, NoMessageVanishes, WaitsOnce, OverflowIsOnePerPlace, Reading, Orderly, Waiting
<1> QED BY <1>3, <1>4, <1>5, <1>6 DEF IInv

LEMMA ReadBatchKeeps ==
  ASSUME QueueAssumption, IInv, ReadBatch
  PROVE  IInv'
<1>1. TypeOK /\ AllSound /\ IdsAreDistinct /\ NewIsNowhere /\ BatchStands /\ PeekStands /\ TurnCopies /\ GivenBack
      /\ TurnIsTaken /\ LineStands /\ TurnIsApart /\ NoMessageVanishes /\ WaitsOnce /\ OverflowIsOnePerPlace /\ QuietLinesConserved
  BY DEF IInv
<1>2. UNCHANGED <<immediate, deferred, quiet, turnWakes, pc, peek, peekQuiet, routing, spent, days, crashes, raised, joined, late, heard, shown>>
  BY DEF ReadBatch, file, cycle, counts, joins, vars
<1>3. TypeOK'
  BY <1>1, <1>2 DEF ReadBatch, TypeOK
<1>4. BatchStands'
  BY <1>1, <1>2 DEF ReadBatch, BatchStands
<1>5. (AllSound /\ IdsAreDistinct /\ NewIsNowhere /\ PeekStands /\ TurnCopies /\ GivenBack /\ TurnIsTaken /\ LineStands /\ TurnIsApart /\ NoMessageVanishes /\ WaitsOnce /\ OverflowIsOnePerPlace /\ QuietLinesConserved)'
  BY <1>1, <1>2 DEF AllSound, IdsAreDistinct, NewIsNowhere, PeekStands, TurnCopies, GivenBack, TurnIsTaken, LineStands, TurnIsApart, NoMessageVanishes, WaitsOnce, OverflowIsOnePerPlace, QuietLinesConserved, Reading, Orderly, Waiting
<1> QED BY <1>3, <1>4, <1>5 DEF IInv

LEMMA BatchConflictKeeps ==
  ASSUME QueueAssumption, IInv, BatchConflict
  PROVE  IInv'
<1>1. TypeOK /\ AllSound /\ IdsAreDistinct /\ NewIsNowhere /\ BatchStands /\ PeekStands /\ TurnCopies /\ GivenBack
      /\ TurnIsTaken /\ LineStands /\ TurnIsApart /\ NoMessageVanishes /\ WaitsOnce /\ OverflowIsOnePerPlace /\ QuietLinesConserved
  BY DEF IInv
<1>2. UNCHANGED <<immediate, deferred, quiet, turnWakes, pc, peek, peekQuiet, routing, spent, days, crashes, raised, joined, late, heard, shown>>
  BY DEF BatchConflict, file, cycle, counts, joins, vars
<1>3. TypeOK'
  BY <1>1, <1>2 DEF BatchConflict, TypeOK
<1>4. BatchStands'
  BY <1>1, <1>2 DEF BatchConflict, BatchStands
<1>5. (AllSound /\ IdsAreDistinct /\ NewIsNowhere /\ PeekStands /\ TurnCopies /\ GivenBack /\ TurnIsTaken /\ LineStands /\ TurnIsApart /\ NoMessageVanishes /\ WaitsOnce /\ OverflowIsOnePerPlace /\ QuietLinesConserved)'
  BY <1>1, <1>2 DEF AllSound, IdsAreDistinct, NewIsNowhere, PeekStands, TurnCopies, GivenBack, TurnIsTaken, LineStands, TurnIsApart, NoMessageVanishes, WaitsOnce, OverflowIsOnePerPlace, QuietLinesConserved, Reading, Orderly, Waiting
<1> QED BY <1>3, <1>4, <1>5 DEF IInv

LEMMA PeekKeeps ==
  ASSUME QueueAssumption, IInv, Peek
  PROVE  IInv'
<1>1. TypeOK /\ AllSound /\ IdsAreDistinct /\ NewIsNowhere /\ BatchStands /\ PeekStands /\ TurnCopies /\ GivenBack
      /\ TurnIsTaken /\ LineStands /\ TurnIsApart /\ NoMessageVanishes /\ WaitsOnce /\ OverflowIsOnePerPlace /\ QuietLinesConserved
  BY DEF IInv
<1>2. UNCHANGED <<immediate, deferred, quiet, turnWakes, routing, batch, spent, days, crashes, raised, joined, late, heard, shown>>
  BY DEF Peek, file, cycle, counts, joins, vars
<1>3. peek' = immediate /\ peekQuiet' = quiet /\ pc \in {"checked", "round"}
  BY DEF Peek
<1>4. (pc' = "idle" /\ immediate = <<>> /\ pc = "checked") \/ pc' = "peeked"
  BY DEF Peek
<1>5. TypeOK'
  BY <1>1, <1>2 DEF Peek, TypeOK
<1>6. AllSound'
  BY <1>1, <1>2 DEF Peek, AllSound
<1>7. IdsAreDistinct'
  BY <1>1, <1>2 DEF Peek, IdsAreDistinct
<1>8. NewIsNowhere'
  BY <1>1, <1>2 DEF Peek, NewIsNowhere
<1>9. PeekStands'
  <2>1. CASE pc' = "peeked"
    <3>1. \A j \in DOMAIN immediate : immediate[j].id \in Ids(immediate)
      BY DEF Ids
    <3>2. \A i, j \in DOMAIN immediate : immediate[i].id = immediate[j].id => i = j
      BY <1>1 DEF IdsAreDistinct, Distinct
    <3> QED BY <2>1, <3>1, <3>2, <1>2, <1>3 DEF PeekStands, Reading
  <2>2. CASE pc' = "idle" /\ immediate = <<>>
    BY <2>2, <1>2, <1>3 DEF PeekStands, Reading
  <2> QED BY <1>4, <2>1, <2>2
<1>10. GivenBack'
  BY <1>1, <1>2 DEF Peek, GivenBack
<1>11. TurnIsTaken'
  <2>1. pc = "checked" => DOMAIN turnWakes = {} /\ turnWakes = <<>>
    BY <1>1 DEF TurnIsTaken
  <2>2. pc = "checked" => Ids(turnWakes) = {}
    BY <2>1 DEF Ids
  <2> QED BY <1>1, <1>2, <1>3, <1>4, <2>1, <2>2 DEF TurnIsTaken
<1>12. LineStands'
  BY <1>2, <1>3, <1>1 DEF LineStands, TypeOK
<1>13. TurnIsApart'
  <2>1. pc = "checked" => MessagesIn(turnWakes) = {}
    BY <1>1, Empty DEF TurnIsTaken
  <2>2. Orderly' => Orderly /\ Waiting' = Waiting
    BY <1>2 DEF Orderly, Waiting
  <2> QED BY <1>1, <1>2, <1>3, <1>4, <2>1, <2>2 DEF TurnIsApart, Waiting, Orderly
<1>14. QuietLinesConserved'
  BY <1>1, <1>2 DEF Peek, QuietLinesConserved
<1>15. (BatchStands /\ TurnCopies /\ NoMessageVanishes /\ WaitsOnce /\ OverflowIsOnePerPlace)'
  BY <1>1, <1>2 DEF BatchStands, TurnCopies, NoMessageVanishes, WaitsOnce, OverflowIsOnePerPlace
<1> QED BY <1>5, <1>6, <1>7, <1>8, <1>9, <1>10, <1>11, <1>12, <1>13, <1>14, <1>15 DEF IInv

LEMMA RecordKeeps ==
  ASSUME QueueAssumption, IInv, Record
  PROVE  IInv'
<1>1. TypeOK /\ AllSound /\ IdsAreDistinct /\ NewIsNowhere /\ BatchStands /\ PeekStands /\ TurnCopies /\ GivenBack
      /\ TurnIsTaken /\ LineStands /\ TurnIsApart /\ NoMessageVanishes /\ WaitsOnce /\ OverflowIsOnePerPlace /\ QuietLinesConserved
  BY DEF IInv
<1>2. UNCHANGED <<immediate, deferred, quiet, peek, peekQuiet, routing, batch, spent, days, crashes, raised, joined, late, heard, shown>>
  BY DEF Record, file, cycle, counts, joins, vars
<1>3. pc = "peeked" /\ pc' = "recorded" /\ turnWakes' = turnWakes \o peek
  BY DEF Record
<1>4. turnWakes \in Seq(Entry) /\ peek \in Seq(Entry) /\ immediate \in Seq(Entry)
  BY <1>1 DEF TypeOK
<1>5. /\ turnWakes' \in Seq(Entry)
      /\ \A i \in DOMAIN turnWakes : i \in DOMAIN turnWakes' /\ turnWakes'[i] = turnWakes[i]
      /\ \A i \in DOMAIN peek : Len(turnWakes) + i \in DOMAIN turnWakes' /\ turnWakes'[Len(turnWakes) + i] = peek[i]
      /\ \A i \in DOMAIN turnWakes' : i \in DOMAIN turnWakes \/ \E k \in DOMAIN peek : i = Len(turnWakes) + k
  BY <1>3, <1>4, Joined
<1>6. \A i \in DOMAIN turnWakes' : \/ i \in DOMAIN turnWakes /\ turnWakes'[i] = turnWakes[i]
                                \/ \E k \in DOMAIN peek : turnWakes'[i] = peek[k]
  BY <1>5
\* What was read is in the queue, under the same id.
<1>7. ASSUME NEW k \in DOMAIN peek
      PROVE  \E i \in DOMAIN immediate : /\ immediate[i].id = peek[k].id
                                         /\ peek[k].messages \subseteq immediate[i].messages
  BY <1>1 DEF PeekStands, Ids
<1>8. MessagesIn(turnWakes') = MessagesIn(turnWakes) \cup MessagesIn(peek)
  <2>1. ASSUME NEW x \in MessagesIn(turnWakes') PROVE x \in MessagesIn(turnWakes) \cup MessagesIn(peek)
    BY <1>6, <2>1 DEF MessagesIn
  <2>2. ASSUME NEW x \in MessagesIn(turnWakes) PROVE x \in MessagesIn(turnWakes')
    BY <1>5, <2>2 DEF MessagesIn
  <2>3. ASSUME NEW x \in MessagesIn(peek) PROVE x \in MessagesIn(turnWakes')
    <3>1. PICK k \in DOMAIN peek : x \in peek[k].messages
      BY <2>3 DEF MessagesIn
    <3> QED BY <3>1, <1>5 DEF MessagesIn
  <2> QED BY <2>1, <2>2, <2>3
<1>9. TypeOK'
  BY <1>1, <1>2, <1>3, <1>5 DEF TypeOK
<1>10. AllSound'
  BY <1>1, <1>2, <1>6 DEF AllSound
<1>11. IdsAreDistinct'
  <2>1. PlacesOnce(turnWakes')
    <3> SUFFICES ASSUME NEW i \in DOMAIN turnWakes', NEW j \in DOMAIN turnWakes', i # j,
                        turnWakes'[i].id = turnWakes'[j].id
                 PROVE  turnWakes'[i].place = NoPlace
      BY DEF PlacesOnce
    <3>1. ASSUME NEW k \in DOMAIN turnWakes, NEW l \in DOMAIN peek, turnWakes[k].id = peek[l].id
          PROVE  turnWakes[k].place = NoPlace /\ peek[l].place = NoPlace
      <4>1. PICK h \in DOMAIN immediate : immediate[h].id = peek[l].id
        BY <1>7
      <4>2. immediate[h].id \in Ids(turnWakes)
        BY <4>1, <3>1 DEF Ids
      <4>3. immediate[h].place = NoPlace
        BY <4>2, <1>1, <1>3 DEF TurnIsTaken
      <4> QED BY <4>1, <4>3, <3>1, <1>1 DEF AllSound, Sound
    <3>2. CASE i \in DOMAIN turnWakes /\ j \in DOMAIN turnWakes
      BY <3>2, <1>1, <1>5 DEF IdsAreDistinct, PlacesOnce
    <3>3. CASE i \in DOMAIN turnWakes /\ j \notin DOMAIN turnWakes
      BY <3>1, <3>3, <1>5
    <3>4. CASE i \notin DOMAIN turnWakes /\ j \in DOMAIN turnWakes
      BY <3>1, <3>4, <1>5
    <3>5. CASE i \notin DOMAIN turnWakes /\ j \notin DOMAIN turnWakes
      <4>1. PICK k \in DOMAIN peek : i = Len(turnWakes) + k /\ turnWakes'[i] = peek[k]
        BY <3>5, <1>5
      <4>2. PICK l \in DOMAIN peek : j = Len(turnWakes) + l /\ turnWakes'[j] = peek[l]
        BY <3>5, <1>5
      <4>3. k = l
        BY <4>1, <4>2, <1>1 DEF IdsAreDistinct, Distinct
      <4> QED BY <4>1, <4>2, <4>3
    <3> QED BY <3>2, <3>3, <3>4, <3>5
  <2> QED BY <2>1, <1>1, <1>2 DEF IdsAreDistinct
<1>12. NewIsNowhere'
  BY <1>1, <1>2, <1>8 DEF NewIsNowhere
<1>13. PeekStands'
  <2>1. \A k \in DOMAIN peek : \E i \in DOMAIN turnWakes' : turnWakes'[i] = peek[k]
    BY <1>5
  <2> QED BY <2>1, <1>1, <1>2, <1>3 DEF PeekStands, Reading
<1>14. TurnCopies'
  <2> SUFFICES ASSUME NEW i \in DOMAIN immediate, NEW j \in DOMAIN turnWakes', immediate[i].id = turnWakes'[j].id
               PROVE  turnWakes'[j].messages \subseteq immediate[i].messages
    BY <1>2 DEF TurnCopies
  <2>1. CASE j \in DOMAIN turnWakes
    BY <2>1, <1>1, <1>5 DEF TurnCopies
  <2>2. CASE \E k \in DOMAIN peek : turnWakes'[j] = peek[k]
    BY <2>2, <1>1 DEF PeekStands
  <2> QED BY <2>1, <2>2, <1>6
<1>15. GivenBack'
  BY <1>1, <1>2 DEF Record, GivenBack
<1>16. TurnIsTaken'
  <2> SUFFICES ASSUME NEW i \in DOMAIN immediate, immediate[i].place # NoPlace, immediate[i].id \in Ids(turnWakes')
               PROVE  immediate[i].id \in Ids(peek)
    BY <1>2, <1>3 DEF TurnIsTaken
  <2>1. PICK j \in DOMAIN turnWakes' : turnWakes'[j].id = immediate[i].id
    BY DEF Ids
  <2>2. CASE j \in DOMAIN turnWakes
    <3>1. immediate[i].id \in Ids(turnWakes)
      BY <2>1, <2>2, <1>5 DEF Ids
    <3> QED BY <3>1, <1>1, <1>3 DEF TurnIsTaken
  <2>3. CASE \E k \in DOMAIN peek : turnWakes'[j] = peek[k]
    BY <2>1, <2>3 DEF Ids
  <2> QED BY <2>2, <2>3, <1>6
<1>17. LineStands'
  BY <1>1, <1>2 DEF Record, LineStands, Reading
<1>18. TurnIsApart'
  <2> SUFFICES ASSUME Orderly
               PROVE  /\ Apart(turnWakes') /\ MessagesIn(turnWakes') \cap heard = {}
                      /\ \A j \in DOMAIN turnWakes' :
                           turnWakes'[j].id \in Ids(peek) \/ turnWakes'[j].messages \cap Waiting = {}
    BY <1>2, <1>3 DEF TurnIsApart, Orderly, Waiting
  <2>1. /\ Apart(turnWakes) /\ MessagesIn(turnWakes) \cap heard = {}
        /\ MessagesIn(turnWakes) \cap Waiting = {}
    BY <1>1, <1>3 DEF TurnIsApart
  <2>2. Apart(immediate) /\ heard \cap MessagesIn(immediate) = {}
    BY <1>1 DEF WaitsOnce, Orderly, Apart
  <2>3. \A k \in DOMAIN peek : peek[k].messages \subseteq MessagesIn(immediate)
    BY <1>7 DEF MessagesIn
  <2>4. MessagesIn(peek) \subseteq MessagesIn(immediate)
    BY <2>3 DEF MessagesIn
  <2>5. \A k \in DOMAIN turnWakes : turnWakes[k].messages \subseteq MessagesIn(turnWakes)
    BY DEF MessagesIn
  <2>6. ASSUME NEW k \in DOMAIN turnWakes, NEW l \in DOMAIN peek
        PROVE  turnWakes[k].messages \cap peek[l].messages = {}
    BY <2>1, <2>3, <2>5 DEF Waiting
  <2>7. Apart(peek)
    <3> SUFFICES ASSUME NEW k \in DOMAIN peek, NEW l \in DOMAIN peek, k # l
                 PROVE  peek[k].messages \cap peek[l].messages = {}
      BY DEF Apart
    <3>1. PICK i \in DOMAIN immediate : immediate[i].id = peek[k].id /\ peek[k].messages \subseteq immediate[i].messages
      BY <1>7
    <3>2. PICK j \in DOMAIN immediate : immediate[j].id = peek[l].id /\ peek[l].messages \subseteq immediate[j].messages
      BY <1>7
    <3>3. i # j
      BY <3>1, <3>2, <1>1 DEF IdsAreDistinct, Distinct
    <3>4. immediate[i].messages \cap immediate[j].messages = {}
      BY <3>3, <2>2 DEF Apart
    <3> QED BY <3>1, <3>2, <3>4
  <2>8. Apart(turnWakes')
    <3> SUFFICES ASSUME NEW i \in DOMAIN turnWakes', NEW j \in DOMAIN turnWakes', i # j
                 PROVE  turnWakes'[i].messages \cap turnWakes'[j].messages = {}
      BY DEF Apart
    <3>1. CASE i \in DOMAIN turnWakes /\ j \in DOMAIN turnWakes
      BY <3>1, <2>1, <1>5 DEF Apart
    <3>2. CASE i \in DOMAIN turnWakes /\ j \notin DOMAIN turnWakes
      BY <3>2, <2>6, <1>5
    <3>3. CASE i \notin DOMAIN turnWakes /\ j \in DOMAIN turnWakes
      BY <3>3, <2>6, <1>5
    <3>4. CASE i \notin DOMAIN turnWakes /\ j \notin DOMAIN turnWakes
      BY <3>4, <2>7, <1>5 DEF Apart
    <3> QED BY <3>1, <3>2, <3>3, <3>4
  <2>9. ASSUME NEW j \in DOMAIN turnWakes'
        PROVE  turnWakes'[j].id \in Ids(peek) \/ turnWakes'[j].messages \cap Waiting = {}
    <3>1. CASE j \in DOMAIN turnWakes
      BY <3>1, <2>1, <2>5, <1>5
    <3>2. CASE \E k \in DOMAIN peek : turnWakes'[j] = peek[k]
      BY <3>2 DEF Ids
    <3> QED BY <3>1, <3>2, <1>6
  <2> QED BY <2>1, <2>2, <2>4, <2>8, <2>9, <1>8
<1>19. NoMessageVanishes'
  BY <1>1, <1>2, <1>8 DEF NoMessageVanishes
<1>20. QuietLinesConserved'
  BY <1>1, <1>2 DEF Record, QuietLinesConserved
<1>21. (BatchStands /\ WaitsOnce /\ OverflowIsOnePerPlace)'
  BY <1>1, <1>2 DEF BatchStands, WaitsOnce, OverflowIsOnePerPlace
<1> QED BY <1>9, <1>10, <1>11, <1>12, <1>13, <1>14, <1>15, <1>16, <1>17, <1>18, <1>19, <1>20, <1>21 DEF IInv

LEMMA ShowKeeps ==
  ASSUME QueueAssumption, IInv, Show
  PROVE  IInv'
<1>1. TypeOK /\ AllSound /\ IdsAreDistinct /\ NewIsNowhere /\ BatchStands /\ PeekStands /\ TurnCopies /\ GivenBack
      /\ TurnIsTaken /\ LineStands /\ TurnIsApart /\ NoMessageVanishes /\ WaitsOnce /\ OverflowIsOnePerPlace /\ QuietLinesConserved
  BY DEF IInv
<1>2. UNCHANGED <<immediate, deferred, quiet, turnWakes, peek, routing, batch, spent, days, crashes, raised, joined, late, heard>>
  BY DEF Show, file, cycle, counts, joins, vars
<1>3. TypeOK'
  BY <1>1, <1>2 DEF Show, TypeOK
<1>4. PeekStands'
  BY <1>1, <1>2 DEF Show, PeekStands, Reading
<1>5. GivenBack'
  BY <1>1, <1>2 DEF Show, GivenBack
<1>6. TurnIsTaken'
  BY <1>1, <1>2 DEF Show, TurnIsTaken
<1>7. LineStands'
  BY <1>1, <1>2 DEF Show, LineStands, Reading
<1>8. TurnIsApart'
  BY <1>1, <1>2 DEF Show, TurnIsApart, Orderly, Waiting
<1>9. QuietLinesConserved'
  BY <1>1, <1>2 DEF Show, QuietLinesConserved, TypeOK
<1>10. (AllSound /\ IdsAreDistinct /\ NewIsNowhere /\ BatchStands /\ TurnCopies /\ NoMessageVanishes /\ WaitsOnce /\ OverflowIsOnePerPlace)'
  BY <1>1, <1>2 DEF AllSound, IdsAreDistinct, NewIsNowhere, BatchStands, TurnCopies, NoMessageVanishes, WaitsOnce, OverflowIsOnePerPlace
<1> QED BY <1>3, <1>4, <1>5, <1>6, <1>7, <1>8, <1>9, <1>10 DEF IInv

LEMMA FinishKeeps ==
  ASSUME QueueAssumption, IInv, Finish
  PROVE  IInv'
<1>1. TypeOK /\ AllSound /\ IdsAreDistinct /\ NewIsNowhere /\ BatchStands /\ PeekStands /\ TurnCopies /\ GivenBack
      /\ TurnIsTaken /\ LineStands /\ TurnIsApart /\ NoMessageVanishes /\ WaitsOnce /\ OverflowIsOnePerPlace /\ QuietLinesConserved
  BY DEF IInv
<1>2. UNCHANGED <<immediate, deferred, quiet, peek, peekQuiet, routing, batch, spent, days, crashes, raised, joined, late, shown>>
  BY DEF Finish, file, cycle, counts, joins, vars
<1>3. /\ pc \in {"round", "requeued"} /\ pc' = "idle" /\ turnWakes' = <<>>
      /\ heard' = IF pc = "round" THEN heard \cup MessagesIn(turnWakes) ELSE heard
  BY DEF Finish
<1>4. TypeOK'
  <2>1. MessagesIn(turnWakes) \subseteq Messages
    <3>1. \A i \in DOMAIN turnWakes : turnWakes[i] \in Entry
      BY <1>1 DEF TypeOK
    <3>2. \A i \in DOMAIN turnWakes : turnWakes[i].messages \subseteq Messages
      BY <3>1 DEF Entry
    <3> QED BY <3>2 DEF MessagesIn
  <2>2. <<>> \in Seq(Entry)
    OBVIOUS
  <2> QED BY <2>1, <2>2, <1>1, <1>2, <1>3 DEF TypeOK
<1>5. AllSound'
  BY <1>1, <1>2, <1>3, Empty DEF AllSound
<1>6. IdsAreDistinct'
  BY <1>1, <1>2, <1>3, Empty DEF IdsAreDistinct
<1>7. NewIsNowhere'
  BY <1>1, <1>2, <1>3, Empty DEF NewIsNowhere
<1>8. PeekStands'
  BY <1>1, <1>2, <1>3 DEF PeekStands, Reading
<1>9. TurnCopies'
  BY <1>3, Empty DEF TurnCopies
<1>10. GivenBack'
  BY <1>3 DEF GivenBack
<1>11. TurnIsTaken'
  BY <1>3 DEF TurnIsTaken
<1>12. LineStands'
  BY <1>1, <1>2 DEF Finish, LineStands, Reading
<1>13. TurnIsApart'
  BY <1>3, Empty DEF TurnIsApart
<1>14. NoMessageVanishes'
  BY <1>1, <1>2, <1>3, Empty DEF NoMessageVanishes, GivenBack
<1>15. WaitsOnce'
  <2>1. Orderly /\ pc = "round" => MessagesIn(turnWakes) \cap Waiting = {}
    BY <1>1 DEF TurnIsApart
  <2> QED BY <2>1, <1>1, <1>2, <1>3 DEF WaitsOnce, Orderly, Waiting
<1>16. QuietLinesConserved'
  BY <1>1, <1>2 DEF Finish, QuietLinesConserved
<1>17. (BatchStands /\ OverflowIsOnePerPlace)'
  BY <1>1, <1>2 DEF BatchStands, OverflowIsOnePerPlace
<1> QED BY <1>4, <1>5, <1>6, <1>7, <1>8, <1>9, <1>10, <1>11, <1>12, <1>13, <1>14, <1>15, <1>16, <1>17 DEF IInv

LEMMA SpendKeeps ==
  ASSUME QueueAssumption, IInv, Spend
  PROVE  IInv'
<1>1. TypeOK /\ AllSound /\ IdsAreDistinct /\ NewIsNowhere /\ BatchStands /\ PeekStands /\ TurnCopies /\ GivenBack
      /\ TurnIsTaken /\ LineStands /\ TurnIsApart /\ NoMessageVanishes /\ WaitsOnce /\ OverflowIsOnePerPlace /\ QuietLinesConserved
  BY DEF IInv
<1>2. UNCHANGED <<immediate, deferred, quiet, turnWakes, pc, peek, peekQuiet, routing, batch, crashes, raised, joined, late, heard, shown>>
  BY DEF Spend, file, cycle, counts, joins, vars
<1>3. TypeOK'
  BY <1>1, <1>2 DEF Spend, TypeOK
<1>4. (AllSound /\ IdsAreDistinct /\ NewIsNowhere /\ BatchStands /\ PeekStands /\ TurnCopies /\ GivenBack /\ TurnIsTaken /\ LineStands /\ TurnIsApart /\ NoMessageVanishes /\ WaitsOnce /\ OverflowIsOnePerPlace /\ QuietLinesConserved)'
  BY <1>1, <1>2 DEF AllSound, IdsAreDistinct, NewIsNowhere, BatchStands, PeekStands, TurnCopies, GivenBack, TurnIsTaken, LineStands, TurnIsApart, NoMessageVanishes, WaitsOnce, OverflowIsOnePerPlace, QuietLinesConserved, Reading, Orderly, Waiting
<1> QED BY <1>3, <1>4 DEF IInv

LEMMA NextDayKeeps ==
  ASSUME QueueAssumption, IInv, NextDay
  PROVE  IInv'
<1>1. TypeOK /\ AllSound /\ IdsAreDistinct /\ NewIsNowhere /\ BatchStands /\ PeekStands /\ TurnCopies /\ GivenBack
      /\ TurnIsTaken /\ LineStands /\ TurnIsApart /\ NoMessageVanishes /\ WaitsOnce /\ OverflowIsOnePerPlace /\ QuietLinesConserved
  BY DEF IInv
<1>2. UNCHANGED <<immediate, deferred, quiet, turnWakes, pc, peek, peekQuiet, routing, batch, days, crashes, raised, joined, late, heard, shown>>
  BY DEF NextDay, file, cycle, counts, joins, vars
<1>3. TypeOK'
  BY <1>1, <1>2 DEF NextDay, TypeOK
<1>4. (AllSound /\ IdsAreDistinct /\ NewIsNowhere /\ BatchStands /\ PeekStands /\ TurnCopies /\ GivenBack /\ TurnIsTaken /\ LineStands /\ TurnIsApart /\ NoMessageVanishes /\ WaitsOnce /\ OverflowIsOnePerPlace /\ QuietLinesConserved)'
  BY <1>1, <1>2 DEF AllSound, IdsAreDistinct, NewIsNowhere, BatchStands, PeekStands, TurnCopies, GivenBack, TurnIsTaken, LineStands, TurnIsApart, NoMessageVanishes, WaitsOnce, OverflowIsOnePerPlace, QuietLinesConserved, Reading, Orderly, Waiting
<1> QED BY <1>3, <1>4 DEF IInv

LEMMA CrashKeeps ==
  ASSUME QueueAssumption, IInv, Crash
  PROVE  IInv'
<1>1. TypeOK /\ AllSound /\ IdsAreDistinct /\ NewIsNowhere /\ BatchStands /\ PeekStands /\ TurnCopies /\ GivenBack
      /\ TurnIsTaken /\ LineStands /\ TurnIsApart /\ NoMessageVanishes /\ WaitsOnce /\ OverflowIsOnePerPlace /\ QuietLinesConserved
  BY DEF IInv
<1>2. UNCHANGED <<immediate, deferred, quiet, turnWakes, spent, days, raised, joined, late, heard, shown>>
  BY DEF Crash, file, cycle, counts, joins, vars
<1>3. /\ pc' = "down" /\ peek' = <<>> /\ batch' = {} /\ crashes' = crashes + 1 /\ pc # "down"
      /\ peekQuiet' = 0
      /\ routing' = [m \in Messages |-> IF routing[m] = "in" THEN "in" ELSE "new"]
  BY DEF Crash, Up
<1>4. TypeOK'
  BY <1>1, <1>2 DEF Crash, TypeOK
<1>5. AllSound'
  BY <1>1, <1>2, <1>3, Empty DEF AllSound
<1>6. IdsAreDistinct'
  BY <1>1, <1>2, <1>3, Empty DEF IdsAreDistinct
<1>7. NewIsNowhere'
  BY <1>1, <1>2, <1>3, Empty DEF NewIsNowhere
<1>8. BatchStands'
  BY <1>1, <1>2 DEF Crash, BatchStands
<1>9. PeekStands'
  BY <1>3, Empty DEF PeekStands, Reading
<1>10. GivenBack'
  BY <1>1, <1>2 DEF Crash, GivenBack
<1>11. TurnIsTaken'
  BY <1>1, <1>2 DEF Crash, TurnIsTaken
<1>12. LineStands'
  BY <1>1, <1>2 DEF Crash, LineStands, Reading
<1>13. TurnIsApart'
  <2> SUFFICES ASSUME Orderly'
               PROVE  /\ Apart(turnWakes) /\ MessagesIn(turnWakes) \cap heard = {}
                      /\ \A j \in DOMAIN turnWakes :
                           turnWakes[j].id \in Ids(immediate) \/ turnWakes[j].messages \cap Waiting = {}
    BY <1>2, <1>3 DEF TurnIsApart, Waiting
  <2>1. ~joined /\ Orderly
    BY <1>1, <1>2, <1>3 DEF Orderly, TypeOK
  <2>2. \A j \in DOMAIN turnWakes : turnWakes[j].messages \subseteq MessagesIn(turnWakes) /\ turnWakes[j].id \in Ids(turnWakes)
    BY DEF MessagesIn, Ids
  <2>3. Ids(peek) \subseteq Ids(immediate)
    BY <1>1 DEF PeekStands, Ids
  <2>4. pc \in {"idle", "checked"} => DOMAIN turnWakes = {}
    BY <1>1, Empty DEF TurnIsTaken
  <2>5. pc \in {"idle", "checked", "peeked", "recorded", "taken", "round", "requeued", "repair"}
    BY <1>1, <1>3 DEF TypeOK
  <2> QED BY <2>1, <2>2, <2>3, <2>4, <2>5, <1>1 DEF TurnIsApart
<1>14. NoMessageVanishes'
  BY <1>1, <1>2 DEF Crash, NoMessageVanishes
<1>15. WaitsOnce'
  <2>1. (crashes' = 0 \/ ~joined') => (crashes = 0 \/ ~joined)
    BY <1>1, <1>2, <1>3 DEF TypeOK
  <2> QED BY <2>1, <1>1, <1>2 DEF WaitsOnce
<1>16. QuietLinesConserved'
  BY <1>1, <1>2, <1>3 DEF QuietLinesConserved, TypeOK
<1>17. (TurnCopies /\ OverflowIsOnePerPlace)'
  BY <1>1, <1>2 DEF TurnCopies, OverflowIsOnePerPlace
<1> QED BY <1>4, <1>5, <1>6, <1>7, <1>8, <1>9, <1>10, <1>11, <1>12, <1>13, <1>14, <1>15, <1>16, <1>17 DEF IInv

LEMMA BootKeeps ==
  ASSUME QueueAssumption, IInv, Boot
  PROVE  IInv'
<1>1. TypeOK /\ AllSound /\ IdsAreDistinct /\ NewIsNowhere /\ BatchStands /\ PeekStands /\ TurnCopies /\ GivenBack
      /\ TurnIsTaken /\ LineStands /\ TurnIsApart /\ NoMessageVanishes /\ WaitsOnce /\ OverflowIsOnePerPlace /\ QuietLinesConserved
  BY DEF IInv
<1>2. UNCHANGED <<immediate, deferred, quiet, turnWakes, peek, peekQuiet, routing, batch, spent, days, crashes, raised, joined, late, heard, shown>>
  BY DEF Boot, file, cycle, counts, joins, vars
<1>3. TypeOK'
  BY <1>1, <1>2 DEF Boot, TypeOK
<1>4. PeekStands'
  BY <1>1, <1>2 DEF Boot, PeekStands, Reading
<1>5. GivenBack'
  BY <1>1, <1>2 DEF Boot, GivenBack
<1>6. TurnIsTaken'
  BY <1>1, <1>2 DEF Boot, TurnIsTaken
<1>7. LineStands'
  BY <1>1, <1>2 DEF Boot, LineStands, Reading
<1>8. TurnIsApart'
  BY <1>1, <1>2 DEF Boot, TurnIsApart, Orderly, Waiting
<1>9. QuietLinesConserved'
  BY <1>1, <1>2 DEF Boot, QuietLinesConserved
<1>10. (AllSound /\ IdsAreDistinct /\ NewIsNowhere /\ BatchStands /\ TurnCopies /\ NoMessageVanishes /\ WaitsOnce /\ OverflowIsOnePerPlace)'
  BY <1>1, <1>2 DEF AllSound, IdsAreDistinct, NewIsNowhere, BatchStands, TurnCopies, NoMessageVanishes, WaitsOnce, OverflowIsOnePerPlace
<1> QED BY <1>3, <1>4, <1>5, <1>6, <1>7, <1>8, <1>9, <1>10 DEF IInv

LEMMA EnqueueKeeps ==
  ASSUME QueueAssumption, IInv, NEW m \in Messages, Enqueue(m)
  PROVE  IInv'
<1>1. TypeOK /\ AllSound /\ IdsAreDistinct /\ NewIsNowhere /\ BatchStands /\ PeekStands /\ TurnCopies /\ GivenBack
      /\ TurnIsTaken /\ LineStands /\ TurnIsApart /\ NoMessageVanishes /\ WaitsOnce /\ OverflowIsOnePerPlace /\ QuietLinesConserved
  BY DEF IInv
<1>2. UNCHANGED <<deferred, quiet, turnWakes, pc, peek, peekQuiet, batch, spent, days, crashes, raised, joined, heard, shown>>
  BY DEF Enqueue, file, cycle, counts, joins, vars
<1> DEFINE w == EntryOf(PlaceOf[m], {m})
<1>3. /\ routing[m] = "queue" /\ routing' = [routing EXCEPT ![m] = "in"]
      /\ immediate' = WithImmediate(immediate, w)
      /\ late' = IF JoinsPeeked(w) THEN late \cup {m} ELSE late
  BY DEF Enqueue
<1>4. Sound(w) /\ w.messages = {m} /\ w.id[2] = {m}
  BY DEF EntryOf, Sound, Entry, QueueAssumption
<1>5. m \notin MessagesIn(immediate) \cup MessagesIn(turnWakes) \cup MessagesIn(peek) \cup deferred \cup heard
  BY <1>1, <1>3 DEF NewIsNowhere
<1>6. ASSUME NEW q, \A i \in DOMAIN q : Sound(q[i]), w.id \in Ids(q) PROVE m \in MessagesIn(q)
  <2> HIDE DEF w
  <2>1. PICK i \in DOMAIN q : q[i].id = w.id
    BY <1>6 DEF Ids
  <2>2. q[i].id[2] = {m} /\ q[i].id[2] \subseteq q[i].messages
    BY <2>1, <1>4, <1>6 DEF Sound
  <2>3. m \in q[i].messages
    BY <2>2
  <2> QED BY <2>1, <2>3 DEF MessagesIn
<1>7. w.id \notin Ids(immediate) /\ w.id \notin Ids(turnWakes) /\ w.id \notin Ids(peek)
  BY <1>1, <1>5, <1>6 DEF AllSound
<1>8. Grows(immediate, w, immediate')
  BY <1>1, <1>3, <1>4, AddGrows DEF TypeOK, AllSound
<1> HIDE DEF w
<1>9. MessagesIn(immediate') = MessagesIn(immediate) \cup {m}
  <2>1. ASSUME NEW x \in MessagesIn(immediate') PROVE x \in MessagesIn(immediate) \cup {m}
    <3>1. PICK i \in DOMAIN immediate' : x \in immediate'[i].messages
      BY <2>1 DEF MessagesIn
    <3>2. CASE i \notin DOMAIN immediate
      BY <3>1, <3>2, <1>4, <1>8 DEF Grows
    <3>3. CASE i \in DOMAIN immediate
      <4>1. x \in immediate[i].messages \/ x \in w.messages
        BY <3>1, <3>3, <1>8 DEF Grows
      <4> QED BY <4>1, <3>3, <1>4 DEF MessagesIn
    <3> QED BY <3>2, <3>3
  <2>2. ASSUME NEW x \in MessagesIn(immediate) PROVE x \in MessagesIn(immediate')
    BY <2>2, <1>8 DEF Grows, MessagesIn
  <2>3. m \in MessagesIn(immediate')
    BY <1>4, <1>7, <1>8 DEF Grows, MessagesIn
  <2> QED BY <2>1, <2>2, <2>3
<1>10. Ids(immediate) \subseteq Ids(immediate') /\ Ids(immediate') \subseteq Ids(immediate) \cup {w.id}
  <2>1. \A i \in DOMAIN immediate' : immediate'[i].id = w.id \/ (i \in DOMAIN immediate /\ immediate'[i].id = immediate[i].id)
    BY <1>8 DEF Grows
  <2> QED BY <2>1, <1>8 DEF Grows, Ids
<1>11. Waiting' = Waiting \cup {m}
  BY <1>2, <1>9 DEF Waiting
<1>12. TypeOK'
  BY <1>1, <1>2, <1>3, <1>8 DEF TypeOK, Grows
<1>13. AllSound'
  BY <1>1, <1>2, <1>8 DEF AllSound, Grows
<1>14. IdsAreDistinct'
  BY <1>1, <1>2, <1>8 DEF IdsAreDistinct, Grows
<1>15. NewIsNowhere'
  <2> SUFFICES ASSUME NEW n \in Messages, routing'[n] # "in"
               PROVE  n \notin (MessagesIn(immediate) \cup MessagesIn(turnWakes) \cup MessagesIn(peek)
                                 \cup deferred \cup heard \cup late)'
    BY DEF NewIsNowhere
  <2>1. n # m /\ routing[n] # "in" /\ late' \subseteq late \cup {m}
    BY <1>1, <1>3 DEF TypeOK
  <2> QED BY <2>1, <1>1, <1>2, <1>9 DEF NewIsNowhere
<1>16. PeekStands'
  <2>1. ASSUME NEW j \in DOMAIN peek, NEW i \in DOMAIN immediate', immediate'[i].id = peek[j].id
        PROVE  /\ peek[j].messages \subseteq immediate'[i].messages
               /\ immediate'[i].messages \subseteq peek[j].messages \cup late'
    <3>1. immediate'[i].id \in Ids(peek)
      BY <2>1 DEF Ids
    <3>2. i \in DOMAIN immediate /\ immediate'[i].id = immediate[i].id
      BY <3>1, <1>7, <1>8 DEF Grows
    <3>3. /\ peek[j].messages \subseteq immediate[i].messages
          /\ immediate[i].messages \subseteq peek[j].messages \cup late
      BY <3>2, <2>1, <1>1 DEF PeekStands
    <3>4. CASE immediate'[i].messages = immediate[i].messages
      BY <3>3, <3>4, <1>3
    <3>5. CASE immediate'[i].messages # immediate[i].messages
      <4>1. /\ immediate'[i].messages = immediate[i].messages \cup {m}
            /\ Len(immediate) >= Limit /\ At(immediate, w.place) # {} /\ i = Min(At(immediate, w.place))
        BY <3>2, <3>5, <1>4, <1>8 DEF Grows
      <4>2. m \in late'
        BY <4>1, <3>1, <3>2, <1>3 DEF JoinsPeeked, w
      <4> QED BY <4>1, <4>2, <3>3, <1>3
    <3> QED BY <3>4, <3>5
  <2>2. \A j \in DOMAIN peek : peek[j].id \in Ids(immediate')
    BY <1>1, <1>10 DEF PeekStands
  <2> QED BY <2>1, <2>2, <1>1, <1>2 DEF PeekStands, Reading
<1>17. TurnCopies'
  <2> SUFFICES ASSUME NEW i \in DOMAIN immediate', NEW j \in DOMAIN turnWakes, immediate'[i].id = turnWakes[j].id
               PROVE  turnWakes[j].messages \subseteq immediate'[i].messages
    BY <1>2 DEF TurnCopies
  <2>1. immediate'[i].id # w.id
    BY <1>7 DEF Ids
  <2>2. i \in DOMAIN immediate /\ immediate[i].id = turnWakes[j].id /\ immediate[i].messages \subseteq immediate'[i].messages
    BY <2>1, <1>8 DEF Grows
  <2> QED BY <2>2, <1>1 DEF TurnCopies
<1>18. GivenBack'
  BY <1>1, <1>2, <1>9 DEF GivenBack
<1>19. TurnIsTaken'
  <2>1. ASSUME NEW i \in DOMAIN immediate', immediate'[i].id \in Ids(turnWakes)
        PROVE  i \in DOMAIN immediate /\ immediate'[i].id = immediate[i].id /\ immediate'[i].place = immediate[i].place
    BY <2>1, <1>7, <1>8 DEF Grows
  <2> QED BY <2>1, <1>1, <1>2 DEF TurnIsTaken
<1>20. TurnIsApart'
  <2>1. Orderly' => Orderly
    BY <1>2 DEF Orderly
  <2>2. \A j \in DOMAIN turnWakes : m \notin turnWakes[j].messages
    BY <1>5 DEF MessagesIn
  <2> QED BY <1>1, <1>2, <1>5, <1>10, <1>11, <2>1, <2>2 DEF TurnIsApart
<1>21. NoMessageVanishes'
  <2> SUFFICES ASSUME NEW n \in Messages, routing'[n] = "in", n \notin late'
               PROVE  n \in MessagesIn(immediate') \cup deferred \cup MessagesIn(turnWakes) \cup heard
    BY <1>2 DEF NoMessageVanishes
  <2>1. n = m \/ (routing[n] = "in" /\ n \notin late)
    BY <1>1, <1>3 DEF TypeOK
  <2> QED BY <2>1, <1>1, <1>9 DEF NoMessageVanishes
<1>22. WaitsOnce'
  <2>1. (crashes = 0 \/ ~joined) => Apart(immediate)
    BY <1>1 DEF WaitsOnce, Apart
  <2>2. (crashes = 0 \/ ~joined) => Apart(immediate')
    BY <2>1, <1>4, <1>5, <1>8 DEF Grows
  <2> QED BY <2>2, <1>1, <1>2, <1>5, <1>9 DEF WaitsOnce, Apart
<1>23. OverflowIsOnePerPlace'
  BY <1>1, <1>8 DEF OverflowIsOnePerPlace, OverflowOf, Grows
<1>24. (BatchStands /\ LineStands /\ QuietLinesConserved)'
  BY <1>1, <1>2 DEF BatchStands, LineStands, QuietLinesConserved, Reading
<1> QED BY <1>12, <1>13, <1>14, <1>15, <1>16, <1>17, <1>18, <1>19, <1>20, <1>21, <1>22, <1>23, <1>24 DEF IInv

LEMMA TakeBatchKeeps ==
  ASSUME QueueAssumption, IInv, TakeBatch
  PROVE  IInv'
<1>1. TypeOK /\ AllSound /\ IdsAreDistinct /\ NewIsNowhere /\ BatchStands /\ PeekStands /\ TurnCopies /\ GivenBack
      /\ TurnIsTaken /\ LineStands /\ TurnIsApart /\ NoMessageVanishes /\ WaitsOnce /\ OverflowIsOnePerPlace /\ QuietLinesConserved
  BY DEF IInv
<1>2. UNCHANGED <<quiet, turnWakes, pc, peek, peekQuiet, routing, spent, days, crashes, raised, joined, late, heard, shown>>
  BY DEF TakeBatch, file, cycle, counts, joins, vars
<1> DEFINE w == EntryOf(NoPlace, batch)
<1>3. /\ batch # {} /\ deferred = batch /\ deferred' = {} /\ batch' = {}
      /\ immediate' = WithImmediate(immediate, w)
  BY DEF TakeBatch
<1>4. Sound(w) /\ w.messages = batch /\ w.id = <<NoPlace, batch>> /\ w.place = NoPlace
  BY <1>1, <1>3 DEF EntryOf, Sound, Entry, TypeOK
<1>5. \A e : Sound(e) /\ e.id = w.id => e.messages = batch
  BY <1>4 DEF Sound
<1>6. Grows(immediate, w, immediate')
  BY <1>1, <1>3, <1>4, AddGrows DEF TypeOK, AllSound
<1> HIDE DEF w
<1>7. /\ \A i \in DOMAIN immediate : /\ i \in DOMAIN immediate' /\ immediate'[i].id = immediate[i].id
                                     /\ immediate'[i].messages = immediate[i].messages
      /\ \A i \in DOMAIN immediate' :
           \/ immediate'[i] = w /\ w.id \notin Ids(immediate)
           \/ /\ i \in DOMAIN immediate /\ immediate'[i].id = immediate[i].id
              /\ immediate'[i].place = immediate[i].place /\ immediate'[i].messages = immediate[i].messages
  BY <1>4, <1>6 DEF Grows
<1>8. MessagesIn(immediate') = MessagesIn(immediate) \cup batch
  <2>1. ASSUME NEW x \in MessagesIn(immediate') PROVE x \in MessagesIn(immediate) \cup batch
    BY <2>1, <1>4, <1>7 DEF MessagesIn
  <2>2. ASSUME NEW x \in MessagesIn(immediate) PROVE x \in MessagesIn(immediate')
    BY <2>2, <1>7 DEF MessagesIn
  <2>3. batch \subseteq MessagesIn(immediate')
    <3>1. CASE w.id \in Ids(immediate)
      <4>1. PICK i \in DOMAIN immediate : immediate[i].id = w.id
        BY <3>1 DEF Ids
      <4>2. immediate[i].messages = batch
        BY <4>1, <1>1, <1>5 DEF AllSound
      <4> QED BY <4>1, <4>2, <1>7 DEF MessagesIn
    <3>2. CASE w.id \notin Ids(immediate)
      BY <3>2, <1>4, <1>6 DEF Grows, MessagesIn
    <3> QED BY <3>1, <3>2
  <2> QED BY <2>1, <2>2, <2>3
<1>9. Ids(immediate) \subseteq Ids(immediate')
  BY <1>7 DEF Ids
<1>10. Waiting' = Waiting /\ (Orderly' <=> Orderly)
  BY <1>2, <1>3, <1>8 DEF Waiting, Orderly
<1>11. TypeOK'
  BY <1>1, <1>2, <1>3, <1>6 DEF TypeOK, Grows
<1>12. AllSound'
  BY <1>1, <1>2, <1>6 DEF AllSound, Grows
<1>13. IdsAreDistinct'
  BY <1>1, <1>2, <1>6 DEF IdsAreDistinct, Grows
<1>14. NewIsNowhere'
  BY <1>1, <1>2, <1>3, <1>8 DEF NewIsNowhere
<1>15. BatchStands'
  BY <1>3 DEF BatchStands
<1>16. PeekStands'
  <2>1. ASSUME NEW j \in DOMAIN peek, NEW i \in DOMAIN immediate', immediate'[i].id = peek[j].id
        PROVE  /\ peek[j].messages \subseteq immediate'[i].messages
               /\ immediate'[i].messages \subseteq peek[j].messages \cup late
    <3>1. immediate'[i].id \in Ids(immediate)
      BY <2>1, <1>1 DEF PeekStands
    <3> QED BY <3>1, <2>1, <1>1, <1>7 DEF PeekStands
  <2>2. \A j \in DOMAIN peek : peek[j].id \in Ids(immediate')
    BY <1>1, <1>9 DEF PeekStands
  <2> QED BY <2>1, <2>2, <1>1, <1>2 DEF PeekStands, Reading
<1>17. TurnCopies'
  <2> SUFFICES ASSUME NEW i \in DOMAIN immediate', NEW j \in DOMAIN turnWakes, immediate'[i].id = turnWakes[j].id
               PROVE  turnWakes[j].messages \subseteq immediate'[i].messages
    BY <1>2 DEF TurnCopies
  <2>1. CASE immediate'[i] = w
    BY <2>1, <1>1, <1>4, <1>5 DEF AllSound
  <2>2. CASE immediate'[i] # w
    BY <2>2, <1>1, <1>7 DEF TurnCopies
  <2> QED BY <2>1, <2>2
<1>18. GivenBack'
  BY <1>1, <1>2, <1>8 DEF GivenBack
<1>19. TurnIsTaken'
  <2>1. ASSUME NEW i \in DOMAIN immediate', immediate'[i].place # NoPlace
        PROVE  i \in DOMAIN immediate /\ immediate'[i].id = immediate[i].id /\ immediate'[i].place = immediate[i].place
    BY <2>1, <1>4, <1>7
  <2> QED BY <2>1, <1>1, <1>2 DEF TurnIsTaken
<1>20. TurnIsApart'
  BY <1>1, <1>2, <1>9, <1>10 DEF TurnIsApart
<1>21. NoMessageVanishes'
  BY <1>1, <1>2, <1>3, <1>8 DEF NoMessageVanishes
<1>22. WaitsOnce'
  <2>1. Orderly => Apart(immediate) /\ w.messages \cap MessagesIn(immediate) = {} /\ heard \cap batch = {}
    BY <1>1, <1>3, <1>4 DEF WaitsOnce, Apart, Orderly
  <2>2. Orderly => Apart(immediate')
    BY <2>1, <1>6 DEF Grows
  <2> QED BY <2>1, <2>2, <1>1, <1>2, <1>3, <1>8 DEF WaitsOnce, Apart, Orderly
<1>23. OverflowIsOnePerPlace'
  BY <1>1, <1>6 DEF OverflowIsOnePerPlace, OverflowOf, Grows
<1>24. (LineStands /\ QuietLinesConserved)'
  BY <1>1, <1>2 DEF LineStands, QuietLinesConserved, Reading
<1> QED BY <1>11, <1>12, <1>13, <1>14, <1>15, <1>16, <1>17, <1>18, <1>19, <1>20, <1>21, <1>22, <1>23, <1>24 DEF IInv

LEMMA StartTurnKeeps ==
  ASSUME QueueAssumption, IInv, StartTurn
  PROVE  IInv'
<1>1. TypeOK /\ AllSound /\ IdsAreDistinct /\ NewIsNowhere /\ BatchStands /\ PeekStands /\ TurnCopies /\ GivenBack
      /\ TurnIsTaken /\ LineStands /\ TurnIsApart /\ NoMessageVanishes /\ WaitsOnce /\ OverflowIsOnePerPlace /\ QuietLinesConserved
  BY DEF IInv
<1>2. UNCHANGED <<quiet, turnWakes, peek, peekQuiet, routing, batch, spent, days, crashes, raised, joined, late, heard, shown>>
  BY DEF StartTurn, file, cycle, counts, joins, vars
<1> DEFINE over == {i \in DOMAIN immediate : spent /\ \E m \in immediate[i].messages : ~Owners(m)}
           gone == {immediate[i].id : i \in over}
<1>3. /\ pc = "idle" /\ pc' \in {"idle", "checked"} /\ immediate' = Without(immediate, gone)
      /\ deferred' = deferred \cup (MessagesIn(immediate) \ MessagesIn(immediate'))
  BY DEF StartTurn
<1> HIDE DEF over, gone
<1>4. turnWakes = <<>> /\ peek = <<>>
  BY <1>1, <1>3 DEF TurnIsTaken, PeekStands, Reading
<1>5. LeavesOut(immediate, gone, immediate')
  BY <1>1, <1>3, LeavingOut DEF TypeOK, AllSound
<1>6. MessagesIn(immediate') \subseteq MessagesIn(immediate)
  BY <1>5 DEF LeavesOut
<1>7. Waiting' = Waiting /\ deferred \subseteq deferred'
  BY <1>3, <1>6 DEF Waiting
<1>8. MessagesIn(immediate) \subseteq Messages
  <2>1. \A i \in DOMAIN immediate : immediate[i] \in Entry
    BY <1>1 DEF TypeOK
  <2>2. \A i \in DOMAIN immediate : immediate[i].messages \subseteq Messages
    BY <2>1 DEF Entry
  <2> QED BY <2>2 DEF MessagesIn
<1>9. TypeOK'
  BY <1>1, <1>2, <1>3, <1>5, <1>8 DEF TypeOK, LeavesOut
<1>10. AllSound'
  BY <1>1, <1>2, <1>5 DEF AllSound, LeavesOut
<1>11. IdsAreDistinct'
  BY <1>1, <1>2, <1>5 DEF IdsAreDistinct, LeavesOut
<1>12. NewIsNowhere'
  BY <1>1, <1>2, <1>7 DEF NewIsNowhere, Waiting
<1>13. BatchStands'
  BY <1>1, <1>2, <1>7 DEF BatchStands
<1>14. PeekStands'
  BY <1>2, <1>3, <1>4, Empty DEF PeekStands, Reading
<1>15. TurnCopies'
  BY <1>2, <1>4, Empty DEF TurnCopies
<1>16. GivenBack'
  BY <1>3 DEF GivenBack
<1>17. TurnIsTaken'
  BY <1>2, <1>3, <1>4 DEF TurnIsTaken
<1>18. LineStands'
  BY <1>3 DEF LineStands, Reading
<1>19. TurnIsApart'
  BY <1>2, <1>3, <1>4, Empty DEF TurnIsApart
<1>20. NoMessageVanishes'
  BY <1>1, <1>2, <1>7 DEF NoMessageVanishes, Waiting
<1>21. WaitsOnce'
  <2>1. Orderly' => Orderly
    BY <1>2 DEF Orderly
  <2>2. Orderly => /\ Apart(immediate) /\ MessagesIn(immediate) \cap deferred = {}
                   /\ heard \cap Waiting = {}
    BY <1>1 DEF WaitsOnce, Apart, Orderly, Waiting
  <2>3. Orderly => Apart(immediate')
    BY <2>2, <1>5 DEF LeavesOut
  <2>4. Orderly => MessagesIn(immediate') \cap deferred' = {}
    BY <2>2, <1>3, <1>6
  <2>5. Orderly => heard \cap Waiting' = {}
    BY <2>2, <1>7
  <2> QED BY <2>1, <2>3, <2>4, <2>5, <1>2 DEF WaitsOnce, Apart, Orderly, Waiting
<1>22. OverflowIsOnePerPlace'
  BY <1>1, <1>5 DEF OverflowIsOnePerPlace, OverflowOf, LeavesOut
<1>23. QuietLinesConserved'
  BY <1>1, <1>2, <1>3 DEF QuietLinesConserved
<1> QED BY <1>9, <1>10, <1>11, <1>12, <1>13, <1>14, <1>15, <1>16, <1>17, <1>18, <1>19, <1>20, <1>21, <1>22, <1>23 DEF IInv

LEMMA TakeKeeps ==
  ASSUME QueueAssumption, IInv, Take
  PROVE  IInv'
<1>1. TypeOK /\ AllSound /\ IdsAreDistinct /\ NewIsNowhere /\ BatchStands /\ PeekStands /\ TurnCopies /\ GivenBack
      /\ TurnIsTaken /\ LineStands /\ TurnIsApart /\ NoMessageVanishes /\ WaitsOnce /\ OverflowIsOnePerPlace /\ QuietLinesConserved
  BY DEF IInv
<1>2. UNCHANGED <<deferred, turnWakes, peekQuiet, routing, batch, spent, days, crashes, raised, joined, late, heard, shown>>
  BY DEF Take, file, cycle, counts, joins, vars
<1>3. /\ pc = "recorded" /\ pc' = "taken" /\ peek' = <<>> /\ quiet' = quiet - peekQuiet
      /\ immediate' = Without(immediate, Ids(peek))
  BY DEF Take, Taken
<1>4. LeavesOut(immediate, Ids(peek), immediate')
  BY <1>1, <1>3, LeavingOut DEF TypeOK, AllSound
<1>5. /\ \A i \in DOMAIN immediate' : immediate'[i].id \notin Ids(peek) /\ \E k \in DOMAIN immediate : immediate'[i] = immediate[k]
      /\ \A k \in DOMAIN immediate : immediate[k].id \notin Ids(peek) => \E i \in DOMAIN immediate' : immediate'[i] = immediate[k]
      /\ MessagesIn(immediate') \subseteq MessagesIn(immediate)
  BY <1>4 DEF LeavesOut
<1>6. quiet \in Nat /\ peekQuiet \in Nat /\ shown \in Nat /\ raised \in Nat /\ peekQuiet <= quiet
  BY <1>1, <1>3 DEF TypeOK, LineStands, Reading
<1>7. Waiting' \subseteq Waiting /\ (Orderly' <=> Orderly)
  BY <1>2, <1>5 DEF Waiting, Orderly
<1>8. Orderly => /\ Apart(immediate) /\ MessagesIn(immediate) \cap deferred = {} /\ heard \cap Waiting = {}
  BY <1>1 DEF WaitsOnce, Apart, Orderly, Waiting
<1>9. TypeOK'
  <2>1. <<>> \in Seq(Entry) /\ quiet' \in Nat
    BY <1>3, <1>6
  <2> QED BY <2>1, <1>1, <1>2, <1>3, <1>4 DEF TypeOK, LeavesOut
<1>10. AllSound'
  BY <1>1, <1>2, <1>3, <1>4, Empty DEF AllSound, LeavesOut
<1>11. IdsAreDistinct'
  BY <1>1, <1>2, <1>3, <1>4, Empty DEF IdsAreDistinct, LeavesOut
<1>12. NewIsNowhere'
  BY <1>1, <1>2, <1>3, <1>5, Empty DEF NewIsNowhere
<1>13. PeekStands'
  BY <1>3, Empty DEF PeekStands, Reading
<1>14. TurnCopies'
  BY <1>1, <1>2, <1>5 DEF TurnCopies
<1>15. GivenBack'
  BY <1>3 DEF GivenBack
<1>16. TurnIsTaken'
  <2> SUFFICES ASSUME NEW i \in DOMAIN immediate', immediate'[i].place # NoPlace, immediate'[i].id \in Ids(turnWakes)
               PROVE  FALSE
    BY <1>2, <1>3 DEF TurnIsTaken
  <2>1. PICK k \in DOMAIN immediate : immediate'[i] = immediate[k]
    BY <1>5
  <2>2. immediate[k].id \in Ids(peek)
    BY <2>1, <1>1, <1>3 DEF TurnIsTaken
  <2> QED BY <2>1, <2>2, <1>5
<1>17. LineStands'
  BY <1>3 DEF LineStands, Reading
<1>18. TurnIsApart'
  <2> SUFFICES ASSUME Orderly
               PROVE  /\ Apart(turnWakes) /\ MessagesIn(turnWakes) \cap heard = {}
                      /\ MessagesIn(turnWakes) \cap Waiting' = {}
    BY <1>2, <1>3, <1>7 DEF TurnIsApart
  <2>1. /\ Apart(turnWakes) /\ MessagesIn(turnWakes) \cap heard = {}
        /\ \A j \in DOMAIN turnWakes : turnWakes[j].id \in Ids(peek) \/ turnWakes[j].messages \cap Waiting = {}
    BY <1>1, <1>3 DEF TurnIsApart
  <2>2. ASSUME NEW j \in DOMAIN turnWakes PROVE turnWakes[j].messages \cap Waiting' = {}
    <3>1. CASE turnWakes[j].id \notin Ids(peek)
      BY <3>1, <2>1, <1>7
    <3>2. CASE turnWakes[j].id \in Ids(peek)
      <4>1. PICK h \in DOMAIN immediate : immediate[h].id = turnWakes[j].id
        BY <3>2, <1>1 DEF PeekStands, Ids
      <4>2. turnWakes[j].messages \subseteq immediate[h].messages
        BY <4>1, <1>1 DEF TurnCopies
      <4>3. \A i \in DOMAIN immediate' : immediate'[i].messages \cap immediate[h].messages = {}
        <5> TAKE i \in DOMAIN immediate'
        <5>1. PICK k \in DOMAIN immediate : immediate'[i] = immediate[k]
          BY <1>5
        <5>2. k # h
          BY <5>1, <4>1, <3>2, <1>5
        <5> QED BY <5>1, <5>2, <1>8 DEF Apart
      <4>4. immediate[h].messages \cap MessagesIn(immediate') = {}
        BY <4>3 DEF MessagesIn
      <4>5. immediate[h].messages \cap deferred = {}
        BY <1>8 DEF MessagesIn
      <4> QED BY <4>2, <4>4, <4>5, <1>2 DEF Waiting
    <3> QED BY <3>1, <3>2
  <2> QED BY <2>1, <2>2 DEF MessagesIn
<1>19. NoMessageVanishes'
  <2> SUFFICES ASSUME NEW m \in MessagesIn(immediate), m \notin late
               PROVE  m \in MessagesIn(immediate') \cup MessagesIn(turnWakes)
    BY <1>1, <1>2 DEF NoMessageVanishes
  <2>1. PICK i \in DOMAIN immediate : m \in immediate[i].messages
    BY DEF MessagesIn
  <2>2. CASE immediate[i].id \notin Ids(peek)
    BY <2>1, <2>2, <1>5 DEF MessagesIn
  <2>3. CASE immediate[i].id \in Ids(peek)
    <3>1. PICK l \in DOMAIN peek : peek[l].id = immediate[i].id
      BY <2>3 DEF Ids
    <3>2. m \in peek[l].messages
      BY <2>1, <3>1, <1>1 DEF PeekStands
    <3>3. PICK k \in DOMAIN turnWakes : turnWakes[k] = peek[l]
      BY <1>1, <1>3 DEF PeekStands
    <3> QED BY <3>2, <3>3 DEF MessagesIn
  <2> QED BY <2>2, <2>3
<1>20. WaitsOnce'
  <2>1. Orderly => Apart(immediate')
    BY <1>4, <1>8 DEF LeavesOut
  <2>2. Orderly => MessagesIn(immediate') \cap deferred' = {} /\ heard \cap Waiting' = {}
    BY <1>2, <1>5, <1>7, <1>8
  <2> QED BY <2>1, <2>2, <1>2, <1>7 DEF WaitsOnce, Apart, Orderly, Waiting
<1>21. OverflowIsOnePerPlace'
  BY <1>1, <1>4 DEF OverflowIsOnePerPlace, OverflowOf, LeavesOut
<1>22. QuietLinesConserved'
  BY <1>1, <1>2, <1>3, <1>6 DEF QuietLinesConserved
<1>23. (BatchStands)'
  BY <1>1, <1>2 DEF BatchStands
<1> QED BY <1>9, <1>10, <1>11, <1>12, <1>13, <1>14, <1>15, <1>16, <1>17, <1>18, <1>19, <1>20, <1>21, <1>22, <1>23 DEF IInv

LEMMA GiveBackKeeps ==
  ASSUME QueueAssumption, IInv, GiveBack
  PROVE  IInv'
<1>1. TypeOK /\ AllSound /\ IdsAreDistinct /\ NewIsNowhere /\ BatchStands /\ PeekStands /\ TurnCopies /\ GivenBack
      /\ TurnIsTaken /\ LineStands /\ TurnIsApart /\ NoMessageVanishes /\ WaitsOnce /\ OverflowIsOnePerPlace /\ QuietLinesConserved
  BY DEF IInv
<1>2. UNCHANGED <<deferred, quiet, turnWakes, peek, peekQuiet, routing, batch, spent, days, crashes, raised, late, heard, shown>>
  BY DEF GiveBack, file, cycle, counts, joins, vars
<1>3. /\ pc \in {"round", "repair"} /\ pc' = "requeued" /\ immediate' = Requeue(immediate, turnWakes)
      /\ ~joined' => ~joined /\ Ids(turnWakes) \subseteq Ids(immediate')
  BY DEF GiveBack
<1>4. Returns(immediate, turnWakes, immediate')
  BY <1>1, <1>3, Returning DEF TypeOK, AllSound, IdsAreDistinct
<1>5. peek = <<>>
  BY <1>1, <1>3 DEF PeekStands, Reading
<1>6. /\ MessagesIn(immediate) \subseteq MessagesIn(immediate')
      /\ \A j \in DOMAIN turnWakes : turnWakes[j].id \notin Ids(immediate) => turnWakes[j].messages \subseteq MessagesIn(immediate')
      /\ \A m \in MessagesIn(immediate') :
           \/ m \in MessagesIn(immediate)
           \/ \E j \in DOMAIN turnWakes : turnWakes[j].id \notin Ids(immediate) /\ m \in turnWakes[j].messages
  BY <1>4 DEF Returns
<1>7. MessagesIn(immediate') \subseteq MessagesIn(immediate) \cup MessagesIn(turnWakes)
  BY <1>6 DEF MessagesIn
<1>8. Orderly' => Orderly
  BY <1>2, <1>3 DEF Orderly
<1>9. Orderly => /\ Apart(immediate) /\ MessagesIn(immediate) \cap deferred = {} /\ heard \cap Waiting = {}
  BY <1>1 DEF WaitsOnce, Apart, Orderly, Waiting
<1>10. Orderly => Apart(turnWakes) /\ MessagesIn(turnWakes) \cap heard = {}
  BY <1>1 DEF TurnIsApart
\* What is put back as an entry of its own waited nowhere.
<1>11. ASSUME Orderly, NEW j \in DOMAIN turnWakes, turnWakes[j].id \notin Ids(immediate)
       PROVE  turnWakes[j].messages \cap Waiting = {}
  <2>1. CASE pc = "round"
    <3>1. MessagesIn(turnWakes) \cap Waiting = {}
      BY <2>1, <1>1, <1>11 DEF TurnIsApart
    <3> QED BY <3>1 DEF MessagesIn
  <2>2. CASE pc = "repair"
    BY <2>2, <1>1, <1>11 DEF TurnIsApart
  <2> QED BY <2>1, <2>2, <1>3
<1>12. TypeOK'
  BY <1>1, <1>2, <1>3, <1>4 DEF TypeOK, Returns
<1>13. AllSound'
  BY <1>1, <1>2, <1>4 DEF AllSound, Returns
<1>14. IdsAreDistinct'
  BY <1>1, <1>2, <1>4 DEF IdsAreDistinct, Returns
<1>15. NewIsNowhere'
  BY <1>1, <1>2, <1>7 DEF NewIsNowhere
<1>16. PeekStands'
  BY <1>2, <1>3, <1>5, Empty DEF PeekStands, Reading
<1>17. TurnCopies'
  <2> SUFFICES ASSUME NEW i \in DOMAIN immediate', NEW j \in DOMAIN turnWakes, immediate'[i].id = turnWakes[j].id
               PROVE  turnWakes[j].messages \subseteq immediate'[i].messages
    BY <1>2 DEF TurnCopies
  <2>1. CASE turnWakes[j].id \notin Ids(immediate)
    BY <2>1, <1>4 DEF Returns
  <2>2. CASE turnWakes[j].id \in Ids(immediate)
    <3>1. PICK k \in DOMAIN immediate : immediate[k].id = turnWakes[j].id
      BY <2>2 DEF Ids
    <3>2. immediate[k].messages \subseteq immediate'[i].messages
      BY <3>1, <1>4 DEF Returns
    <3>3. turnWakes[j].messages \subseteq immediate[k].messages
      BY <3>1, <1>1 DEF TurnCopies
    <3> QED BY <3>2, <3>3
  <2> QED BY <2>1, <2>2
<1>18. GivenBack'
  <2> SUFFICES ASSUME NEW j \in DOMAIN turnWakes PROVE turnWakes[j].messages \subseteq MessagesIn(immediate')
    BY <1>2 DEF GivenBack, MessagesIn
  <2>1. CASE turnWakes[j].id \notin Ids(immediate)
    BY <2>1, <1>6
  <2>2. CASE turnWakes[j].id \in Ids(immediate)
    <3>1. PICK k \in DOMAIN immediate : immediate[k].id = turnWakes[j].id
      BY <2>2 DEF Ids
    <3>2. turnWakes[j].messages \subseteq immediate[k].messages
      BY <3>1, <1>1 DEF TurnCopies
    <3>3. immediate[k].messages \subseteq MessagesIn(immediate)
      BY DEF MessagesIn
    <3> QED BY <3>2, <3>3, <1>6
  <2> QED BY <2>1, <2>2
<1>19. TurnIsTaken'
  BY <1>3 DEF TurnIsTaken
<1>20. LineStands'
  BY <1>3 DEF LineStands, Reading
<1>21. TurnIsApart'
  <2> SUFFICES ASSUME Orderly'
               PROVE  /\ Apart(turnWakes) /\ MessagesIn(turnWakes) \cap heard = {}
                      /\ ~joined' => Ids(turnWakes) \subseteq Ids(immediate')
    BY <1>2, <1>3 DEF TurnIsApart
  <2> QED BY <1>3, <1>8, <1>10
<1>22. NoMessageVanishes'
  BY <1>1, <1>2, <1>6 DEF NoMessageVanishes
<1>23. WaitsOnce'
  <2> SUFFICES ASSUME Orderly
               PROVE  /\ Apart(immediate') /\ MessagesIn(immediate') \cap deferred = {}
                      /\ heard \cap (MessagesIn(immediate') \cup deferred) = {}
    BY <1>2, <1>8 DEF WaitsOnce, Apart, Orderly
  <2>1. \A j \in DOMAIN turnWakes : turnWakes[j].id \notin Ids(immediate) =>
          turnWakes[j].messages \cap MessagesIn(immediate) = {} /\ turnWakes[j].messages \cap deferred = {}
    BY <1>11 DEF Waiting
  <2>2. Apart(immediate')
    BY <2>1, <1>4, <1>9, <1>10 DEF Returns
  <2>3. MessagesIn(immediate') \cap deferred = {}
    BY <2>1, <1>6, <1>9
  <2>4. heard \cap (MessagesIn(immediate') \cup deferred) = {}
    BY <1>7, <1>9, <1>10 DEF Waiting
  <2> QED BY <2>2, <2>3, <2>4
<1>24. OverflowIsOnePerPlace'
  BY <1>4 DEF OverflowIsOnePerPlace, OverflowOf, Returns
<1>25. QuietLinesConserved'
  BY <1>1, <1>2, <1>3 DEF QuietLinesConserved
<1>26. (BatchStands)'
  BY <1>1, <1>2 DEF BatchStands
<1> QED BY <1>12, <1>13, <1>14, <1>15, <1>16, <1>17, <1>18, <1>19, <1>20, <1>21, <1>22, <1>23, <1>24, <1>25, <1>26 DEF IInv

LEMMA NextKeeps ==
  ASSUME QueueAssumption, IInv, [Next]_vars
  PROVE  IInv'
<1>1. ASSUME NEW m \in Messages, Decide(m) \/ Enqueue(m) \/ Defer(m) PROVE IInv'
  BY <1>1, DecideKeeps, EnqueueKeeps, DeferKeeps
<1>2. CASE RaiseQuiet
  BY <1>2, RaiseQuietKeeps
<1>3. CASE ReadBatch \/ TakeBatch \/ BatchConflict
  BY <1>3, ReadBatchKeeps, TakeBatchKeeps, BatchConflictKeeps
<1>4. CASE StartTurn \/ Peek \/ Record \/ Take
  BY <1>4, StartTurnKeeps, PeekKeeps, RecordKeeps, TakeKeeps
<1>5. CASE Show \/ Finish \/ GiveBack
  BY <1>5, ShowKeeps, FinishKeeps, GiveBackKeeps
<1>6. CASE Spend \/ NextDay \/ Crash \/ Boot
  BY <1>6, SpendKeeps, NextDayKeeps, CrashKeeps, BootKeeps
<1>7. CASE UNCHANGED vars
  <2>1. UNCHANGED <<immediate, deferred, quiet, turnWakes, pc, peek, peekQuiet>>
    BY <1>7 DEF vars, file, cycle
  <2>2. UNCHANGED <<routing, batch, spent, days, crashes, raised, joined, late, heard, shown>>
    BY <1>7 DEF vars, counts, joins
  <2>3. (TypeOK /\ AllSound /\ IdsAreDistinct /\ NewIsNowhere /\ BatchStands)'
    BY <2>1, <2>2 DEF IInv, TypeOK, AllSound, IdsAreDistinct, NewIsNowhere, BatchStands
  <2>4. (PeekStands /\ TurnCopies /\ GivenBack /\ TurnIsTaken /\ LineStands)'
    BY <2>1, <2>2 DEF IInv, PeekStands, Reading, TurnCopies, GivenBack, TurnIsTaken, LineStands
  <2>5. (TurnIsApart /\ NoMessageVanishes /\ WaitsOnce /\ OverflowIsOnePerPlace /\ QuietLinesConserved)'
    BY <2>1, <2>2 DEF IInv, TurnIsApart, Orderly, Waiting, NoMessageVanishes, WaitsOnce,
       OverflowIsOnePerPlace, QuietLinesConserved
  <2> QED BY <2>3, <2>4, <2>5 DEF IInv
<1> QED BY <1>1, <1>2, <1>3, <1>4, <1>5, <1>6, <1>7 DEF Next

LEMMA Invariance == Spec => []IInv
<1>1. Init => IInv
  BY QueueAssumption, InitInv
<1>2. IInv /\ [Next]_vars => IInv'
  BY QueueAssumption, NextKeeps
<1> QED BY <1>1, <1>2, PTL DEF Spec

-----------------------------------------------------------------------------
(* For any messages and places, any limit, and any number of days and      *)
(* crashes, a message that wakes her waits, is in the open turn or was in  *)
(* one that ended, but for one that joined an entry between a turn's read  *)
(* of it and its removal (takeWakes drops the entry by id).                *)
THEOREM NothingVanishes == Spec => []NoMessageVanishes
<1>1. IInv => NoMessageVanishes
  BY DEF IInv
<1> QED BY <1>1, Invariance, PTL

(* A message waits in one entry or in the batch and nowhere once its turn  *)
(* ended, while no crash follows a join; past the limit there is one entry *)
(* per place (mergeInto).                                                  *)
THEOREM Orderliness == Spec => []QueueIsOrderly
<1>1. IInv => QueueIsOrderly
  BY DEF IInv, QueueIsOrderly
<1> QED BY <1>1, Invariance, PTL

(* However often the "+N more" line grows between a turn's read and its    *)
(* removal, no quiet wake is counted twice, and without a crash none is    *)
(* lost.                                                                   *)
THEOREM NoQuietLineIsLost == Spec => []QuietLinesConserved
<1>1. IInv => QuietLinesConserved
  BY DEF IInv
<1> QED BY <1>1, Invariance, PTL
=============================================================================
