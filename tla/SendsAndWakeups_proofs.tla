----------------------- MODULE SendsAndWakeups_proofs -----------------------
(***************************************************************************)
(* Proofs about two parts of a life that a crash cuts into: the repair of  *)
(* a turn's sends (SendRecovery), for any script, texts, places and        *)
(* faults, and her wakeups (Wakeups), for any messages, spacing, cap,      *)
(* times and upsets.  The two share no variable.                           *)
(***************************************************************************)
EXTENDS SendRecovery, Wakeups, FiniteSetTheorems, TLAPS

(***************************************************************************)
(* The repair of sends                                                     *)
(***************************************************************************)
\* The parts of the type invariant.
JournalType ==
    /\ text \in [Lines \cup {0} -> Texts] /\ place \in [Calls -> Places]
    /\ discord \subseteq Lines \cup {0}
    /\ intents \in [start : BOOLEAN, plans : SUBSET Calls, tried : SUBSET Lines,
                    booked : SUBSET Lines, ended : SUBSET Calls, listed : [Calls -> SUBSET Lines],
                    done : BOOLEAN]

RunType ==
    /\ tool \in {"asked", "running", "settled", "done", "logged", "down"}
    /\ call \in {0} \cup Calls /\ at \in Nat
    /\ step \in {"none", "next", "tried", "taken", "stopped"}
    /\ begun \in 0..Len(Plan) /\ sent \subseteq Lines /\ aborted \in BOOLEAN

ToldType ==
    /\ told \in [Lines -> Said]
    /\ lost \subseteq Lines /\ unbooked \subseteq Lines /\ adrift \subseteq Calls
    /\ faults \in 0..MaxFaults

\* The call under way is the last begun: it has sent the lines before its next
\* one, and one the tool call no longer waits for is adrift.
CallRuns ==
    /\ call = 0 => step = "none" /\ sent = {}
    /\ call # 0 =>
         /\ call = begun /\ call \in intents.plans /\ call \notin intents.ended
         /\ tool \in {"running", "settled", "done", "logged"}
         /\ tool # "running" => call \in adrift
         /\ at \in 1..(Len(Plan[call]) + 1) /\ sent = Prefix(call, at - 1)
         /\ step # "none"
         /\ step \in {"tried", "taken"} => More /\ Line \in intents.tried
         /\ step = "taken" => Line \in discord

\* What the journal holds of the lines of the call under way.
CallBooks ==
    call # 0 =>
      /\ sent \subseteq intents.booked \cup unbooked
      /\ intents.booked \cap LinesOf(call) \subseteq sent
      /\ discord \cap LinesOf(call) \subseteq
           sent \cup lost \cup (IF step = "taken" THEN {Line} ELSE {})

\* A message was planned and tried before it went out, and is booked after.
Journal ==
    /\ intents.plans \subseteq 1..begun /\ intents.ended \subseteq intents.plans
    /\ intents.done => tool \in {"done", "logged", "down"}
    /\ \A l \in discord \ {0} : CallOf(l) \in intents.plans /\ l \in intents.tried
    /\ intents.booked \cup unbooked \cup lost \subseteq discord

\* A line goes out only when the lines before it have been answered for.
InItsOrder ==
    \A m \in discord \ {0} : \A l \in LinesOf(CallOf(m)) :
      l < m => l \in intents.booked \cup unbooked

\* The list of a call that is over: its first lines, all that went out but
\* those whose answer was lost.
EndedLists ==
    /\ \A c \in intents.ended :
         /\ \E n \in 0..Len(Plan[c]) : intents.listed[c] = Prefix(c, n)
         /\ intents.listed[c] \subseteq discord
         /\ Booked(c) \subseteq intents.listed[c]
         /\ discord \cap LinesOf(c) \subseteq intents.listed[c] \cup lost
    /\ \A c \in Calls \ intents.ended : intents.listed[c] = {}

\* Every message of the script is booked, failed to be, or is the one in flight;
\* after a crash that one is of a call adrift when the tool call was done.
Accounted ==
    \A l \in discord \ {0} :
      \/ l \in intents.booked \cup unbooked \cup lost
      \/ call = CallOf(l) /\ step = "taken" /\ l = Line
      \/ call = 0 /\ tool \in {"down", "logged"} /\ (intents.done => CallOf(l) \in adrift)

\* Why a message may be denied.
Excused(l) ==
    \/ l \in lost
    \/ /\ CallOf(l) \notin intents.ended
       /\ \/ \E u \in unbooked \cap LinesOf(CallOf(l)) : u <= l
          \/ CallOf(l) \in adrift /\ intents.done

\* Why a message may be claimed.
Founded(l) ==
    \/ l \in discord
    \/ \E m \in discord \ LinesOf(CallOf(l)) :
         text[m] = text[l] /\ (m = 0 \/ place[CallOf(m)] = place[CallOf(l)])

\* What she may be told of a line, which is not denied before its call is over.
TellsOf(says, l) ==
    /\ says = "not sent" /\ l \in discord => Excused(l)
    /\ says = "sent" => Founded(l)

ToldInv ==
    \A l \in Lines :
      /\ told[l] = "not sent" =>
           CallOf(l) # call /\ (tool \in {"asked", "running"} => CallOf(l) <= begun)
      /\ TellsOf(told[l], l)

IInv == TypeOK /\ CallRuns /\ CallBooks /\ Journal /\ InItsOrder /\ EndedLists /\ Accounted /\ ToldInv
-----------------------------------------------------------------------------
(* Lines and calls *)

\* A nonempty set of numbers has a smallest one: the intervals up to its
\* members are finite, and strict inclusion is well founded on finite sets.
LEMMA SmallestOf ==
  ASSUME NEW S \in SUBSET Nat, S # {}
  PROVE  \E m \in S : \A n \in S : m <= n
<1> DEFINE T == {1..n : n \in S}
           R == StrictSubsetOrdering(Nat)
<1>1. IsWellFoundedOn(R, FiniteSubsetsOf(Nat))
  BY FS_StrictSubsetOrderingWellFounded
<1>2. T \subseteq FiniteSubsetsOf(Nat) /\ T # {}
  <2>1. ASSUME NEW n \in S PROVE 1..n \in FiniteSubsetsOf(Nat)
    BY FS_Interval DEF FiniteSubsetsOf
  <2> QED BY <2>1
<1>3. PICK x \in T : \A y \in T : <<y, x>> \notin R
  <2> HIDE DEF R, T
  <2> QED BY <1>1, <1>2, WFMin
<1>4. PICK m \in S : x = 1..m
  OBVIOUS
<1>5. ASSUME NEW n \in S, n < m PROVE FALSE
  <2>1. 1..n \subseteq 1..m /\ m \in 1..m /\ m \notin 1..n
    BY <1>5
  <2>2. <<1..n, x>> \in R
    BY <2>1, <1>4 DEF StrictSubsetOrdering
  <2> QED BY <2>2, <1>3
<1> QED BY <1>5

\* A line is a positive number and is of one call.
LEMMA PlanFacts ==
  /\ MaxFaults \in Nat /\ Len(Plan) \in Nat /\ Calls = 1..Len(Plan) /\ 0 \notin Calls
  /\ Lines \subseteq Nat \ {0}
  /\ \A c \in Calls : Len(Plan[c]) \in Nat /\ LinesOf(c) \subseteq Lines
  /\ \A c \in Calls : \A i \in 1..Len(Plan[c]) : Plan[c][i] \in LinesOf(c)
  /\ \A c \in Calls : \A l \in LinesOf(c) : CallOf(l) = c
  /\ \A l \in Lines : CallOf(l) \in Calls /\ l \in LinesOf(CallOf(l))
<1> USE PlanAssumption DEF PlanAssumption
<1>1. Len(Plan) \in Nat /\ Calls = 1..Len(Plan)
  BY DEF Calls
<1>2. ASSUME NEW c \in Calls
      PROVE  /\ Plan[c] \in Seq(Nat \ {0}) /\ Len(Plan[c]) \in Nat
             /\ DOMAIN Plan[c] = 1..Len(Plan[c])
  BY <1>1
<1>3. ASSUME NEW c \in Calls PROVE LinesOf(c) \subseteq Nat \ {0} /\ LinesOf(c) \subseteq Lines
  BY <1>2 DEF LinesOf, Lines
<1>4. Lines \subseteq Nat \ {0}
  BY <1>3 DEF Lines
<1>5. ASSUME NEW c \in Calls, NEW i \in 1..Len(Plan[c]) PROVE Plan[c][i] \in LinesOf(c)
  BY <1>2 DEF LinesOf
<1>6. ASSUME NEW c \in Calls, NEW l \in LinesOf(c) PROVE CallOf(l) = c
  BY <1>3 DEF CallOf
<1>7. ASSUME NEW l \in Lines PROVE CallOf(l) \in Calls /\ l \in LinesOf(CallOf(l))
  BY <1>6 DEF Lines
<1> QED BY <1>1, <1>2, <1>3, <1>4, <1>5, <1>6, <1>7

\* The first lines of a call, which are in order.
LEMMA PrefixFacts ==
  ASSUME NEW c \in Calls
  PROVE  /\ Prefix(c, 0) = {} /\ Prefix(c, Len(Plan[c])) = LinesOf(c)
         /\ \A n \in 0..Len(Plan[c]) : Prefix(c, n) \subseteq LinesOf(c)
         /\ \A i \in 1..Len(Plan[c]) :
              /\ Prefix(c, i) = Prefix(c, i - 1) \cup {Plan[c][i]}
              /\ \A l \in LinesOf(c) : l < Plan[c][i] => l \in Prefix(c, i - 1)
<1>1. Plan[c] \in Seq(Nat \ {0}) /\ Len(Plan[c]) \in Nat /\ DOMAIN Plan[c] = 1..Len(Plan[c])
  BY PlanAssumption, PlanFacts DEF PlanAssumption
<1>2. \A i, j \in 1..Len(Plan[c]) : i < j => Plan[c][i] < Plan[c][j]
  BY <1>1, PlanAssumption DEF PlanAssumption
<1>3. Prefix(c, 0) = {} /\ Prefix(c, Len(Plan[c])) = LinesOf(c)
  BY <1>1 DEF Prefix, LinesOf
<1>4. ASSUME NEW n \in 0..Len(Plan[c]) PROVE Prefix(c, n) \subseteq LinesOf(c)
  BY <1>1 DEF Prefix, LinesOf
<1>5. ASSUME NEW i \in 1..Len(Plan[c])
      PROVE  /\ Prefix(c, i) = Prefix(c, i - 1) \cup {Plan[c][i]}
             /\ \A l \in LinesOf(c) : l < Plan[c][i] => l \in Prefix(c, i - 1)
  <2>1. 1..i = (1..(i - 1)) \cup {i}
    OBVIOUS
  <2>2. Prefix(c, i) = Prefix(c, i - 1) \cup {Plan[c][i]}
    BY <2>1 DEF Prefix
  <2>3. ASSUME NEW l \in LinesOf(c), l < Plan[c][i] PROVE l \in Prefix(c, i - 1)
    <3>1. PICK j \in 1..Len(Plan[c]) : l = Plan[c][j]
      BY <1>1 DEF LinesOf
    <3>2. Plan[c][i] \in Nat /\ Plan[c][j] \in Nat
      BY <1>1
    <3>3. j < i
      BY <1>1, <1>2, <2>3, <3>1, <3>2
    <3> QED BY <3>1, <3>3 DEF Prefix
  <2> QED BY <2>2, <2>3
<1> QED BY <1>3, <1>4, <1>5

\* A call has as many first lines as their number says.
LEMMA PrefixSize ==
  ASSUME NEW c \in Calls, NEW n \in 0..Len(Plan[c])
  PROVE  IsFiniteSet(Prefix(c, n)) /\ Cardinality(Prefix(c, n)) = n
<1>1. Plan[c] \in Seq(Nat \ {0}) /\ Len(Plan[c]) \in Nat /\ DOMAIN Plan[c] = 1..Len(Plan[c])
  BY PlanAssumption, PlanFacts DEF PlanAssumption
<1>2. \A i, j \in 1..Len(Plan[c]) : i < j => Plan[c][i] < Plan[c][j]
  BY <1>1, PlanAssumption DEF PlanAssumption
<1> DEFINE f == [i \in 1..n |-> Plan[c][i]]
<1>3. ASSUME NEW i \in 1..n, NEW j \in 1..n, i # j PROVE Plan[c][i] # Plan[c][j]
  <2>1. Plan[c][i] \in Nat /\ Plan[c][j] \in Nat
    BY <1>1
  <2>2. i \in 1..Len(Plan[c]) /\ j \in 1..Len(Plan[c]) /\ (i < j \/ j < i)
    BY <1>1, <1>3
  <2> QED BY <1>2, <2>1, <2>2
<1>4. f \in Bijection(1..n, Prefix(c, n))
  BY <1>3 DEF Bijection, Injection, Surjection, IsInjective, Prefix
<1>5. ExistsBijection(1..n, Prefix(c, n))
  BY <1>4 DEF ExistsBijection
<1>6. IsFiniteSet(1..n) /\ Cardinality(1..n) = n
  BY FS_Interval
<1> HIDE DEF f
<1> QED BY <1>5, <1>6, FS_Bijection

\* The first of a set of lines.
LEMMA FirstFacts ==
  ASSUME NEW S, S \subseteq Lines
  PROVE  /\ S = {} => FirstOf(S) = {}
         /\ S # {} => \E m \in S : FirstOf(S) = {m} /\ \A l \in S : m <= l
<1>1. CASE S = {}
  BY <1>1 DEF FirstOf
<1>2. CASE S # {}
  <2>1. \E m \in S : \A l \in S : m <= l
    BY <1>2, SmallestOf, PlanFacts
  <2> QED BY <1>2, <2>1 DEF FirstOf
<1> QED BY <1>1, <1>2

\* The next line of the call under way.
LEMMA NextLine ==
  ASSUME TypeOK, CallRuns, call # 0
  PROVE  /\ call \in Calls /\ LinesOf(call) \subseteq Lines /\ sent \subseteq LinesOf(call)
         /\ step \in {"tried", "taken"} => More
         /\ More => /\ Line \in LinesOf(call) /\ Line \in Lines /\ Line # 0 /\ CallOf(Line) = call
                    /\ at \in 1..Len(Plan[call]) /\ Prefix(call, at) = sent \cup {Line}
                    /\ \A l \in LinesOf(call) : l < Line => l \in sent
<1>1. call \in Calls /\ Len(Plan[call]) \in Nat /\ LinesOf(call) \subseteq Lines
  BY PlanFacts DEF TypeOK
<1>2. at \in 1..(Len(Plan[call]) + 1) /\ sent = Prefix(call, at - 1) /\ at - 1 \in 0..Len(Plan[call])
  BY <1>1 DEF CallRuns
<1>3. sent \subseteq LinesOf(call)
  BY <1>1, <1>2, PrefixFacts
<1>4. ASSUME More
      PROVE  /\ Line \in LinesOf(call) /\ Line \in Lines /\ Line # 0 /\ CallOf(Line) = call
             /\ at \in 1..Len(Plan[call]) /\ Prefix(call, at) = sent \cup {Line}
             /\ \A l \in LinesOf(call) : l < Line => l \in sent
  <2>1. at \in 1..Len(Plan[call])
    BY <1>1, <1>2, <1>4 DEF More
  <2>2. Line \in LinesOf(call)
    BY <1>1, <2>1, PlanFacts DEF Line
  <2>3. Prefix(call, at) = sent \cup {Line} /\ \A l \in LinesOf(call) : l < Line => l \in sent
    BY <1>1, <1>2, <2>1, PrefixFacts DEF Line
  <2> QED BY <1>1, <2>1, <2>2, <2>3, PlanFacts
<1>5. step \in {"tried", "taken"} => More
  BY DEF CallRuns
<1> QED BY <1>1, <1>3, <1>4, <1>5

\* The bounds the types of a step need.
LEMMA Bounds ==
  ASSUME TypeOK, CallRuns
  PROVE  /\ faults < MaxFaults => faults + 1 \in 0..MaxFaults
         /\ begun < Len(Plan) => begun + 1 \in Calls /\ begun + 1 \in 0..Len(Plan)
         /\ call # 0 /\ (More \/ step \in {"tried", "taken"}) => Line \in Lines
         /\ Lines \subseteq Lines \cup {0} /\ at + 1 \in Nat
<1>1. faults < MaxFaults => faults + 1 \in 0..MaxFaults
  BY PlanFacts DEF TypeOK
<1>2. begun < Len(Plan) => begun + 1 \in Calls /\ begun + 1 \in 0..Len(Plan)
  BY PlanFacts DEF TypeOK
<1> QED BY <1>1, <1>2, NextLine DEF TypeOK

\* What booking a line changes, and what the end of a call does.
Books ==
    /\ call # 0 /\ step = "taken" /\ step' = "next" /\ at' = at + 1 /\ sent' = sent \cup {Line}
    /\ Line \in Lines /\ Line \in LinesOf(call) /\ Line \in discord /\ More
    /\ intents'.plans = intents.plans /\ intents'.tried = intents.tried
    /\ intents'.ended = intents.ended /\ intents'.listed = intents.listed
    /\ intents'.done = intents.done
    /\ intents'.booked \cup unbooked' = intents.booked \cup unbooked \cup {Line}
    /\ intents.booked \subseteq intents'.booked /\ unbooked \subseteq unbooked'
    /\ intents'.booked \subseteq intents.booked \cup {Line}
    /\ UNCHANGED <<text, place, discord, tool, call, begun, aborted, told, lost, adrift>>

Ends ==
    /\ call # 0 /\ step \in {"stopped", "next"} /\ call \in Calls /\ sent \subseteq LinesOf(call)
    /\ call' = 0 /\ at' = 0 /\ step' = "none" /\ sent' = {} /\ told' = Receipt
    /\ intents'.plans = intents.plans /\ intents'.tried = intents.tried
    /\ intents'.booked = intents.booked /\ intents'.done = intents.done
    /\ \/ intents'.ended = intents.ended /\ intents'.listed = intents.listed
       \/ /\ intents'.ended = intents.ended \cup {call}
          /\ intents'.listed = [intents.listed EXCEPT ![call] = sent]
    /\ UNCHANGED <<text, place, discord, tool, begun, aborted, lost, unbooked, adrift>>

\* That is what they do.
LEMMA BookEffect ==
  ASSUME IInv, Book
  PROVE  Books /\ JournalType'
<1>1. TypeOK /\ CallRuns
  BY DEF IInv
<1>2. call # 0 /\ step = "taken" /\ step' = "next" /\ at' = at + 1 /\ sent' = sent \cup {Line}
  BY DEF Book
<1>3. UNCHANGED <<text, place, discord, tool, call, begun, aborted, told, lost, adrift>>
  BY DEF Book, input
<1>4. Line \in Lines /\ Line \in LinesOf(call) /\ Line \in discord /\ More
  BY <1>1, <1>2, NextLine DEF CallRuns
<1>5. JournalType
  BY <1>1 DEF TypeOK, JournalType
<1>6. CASE intents' = [intents EXCEPT !.booked = @ \cup {Line}] /\ unbooked' = unbooked
  <2>1. JournalType'
    BY <1>3, <1>4, <1>5, <1>6 DEF JournalType
  <2>2. intents'.booked = intents.booked \cup {Line}
    BY <1>5, <1>6 DEF JournalType
  <2> QED BY <1>2, <1>3, <1>4, <1>6, <2>1, <2>2 DEF Books
<1>7. CASE intents' = intents /\ unbooked' = unbooked \cup {Line}
  <2>1. JournalType'
    BY <1>3, <1>5, <1>7 DEF JournalType
  <2> QED BY <1>2, <1>3, <1>4, <1>7, <2>1 DEF Books
<1>8. \/ intents' = [intents EXCEPT !.booked = @ \cup {Line}] /\ unbooked' = unbooked
      \/ intents' = intents /\ unbooked' = unbooked \cup {Line}
  BY Zenon DEF Book
<1> QED BY <1>6, <1>7, <1>8

\* That is what the end of a call does.
LEMMA EndEffect ==
  ASSUME IInv, EndCall
  PROVE  Ends /\ JournalType'
<1>1. TypeOK /\ CallRuns
  BY DEF IInv
<1>2. call # 0 /\ step \in {"stopped", "next"} /\ call' = 0 /\ at' = 0 /\ step' = "none" /\ sent' = {}
      /\ told' = Receipt
  BY DEF EndCall
<1>3. UNCHANGED <<text, place, discord, tool, begun, aborted, lost, unbooked, adrift>>
  BY DEF EndCall, input, ghosts
<1>4. call \in Calls /\ sent \subseteq LinesOf(call) /\ sent \in SUBSET Lines
  BY <1>1, <1>2, NextLine DEF TypeOK
<1>5. JournalType
  BY <1>1 DEF TypeOK, JournalType
<1>6. CASE intents' = [intents EXCEPT !.ended = @ \cup {call}, !.listed[call] = sent]
  <2>1. [intents.listed EXCEPT ![call] = sent] \in [Calls -> SUBSET Lines]
    BY <1>4, <1>5 DEF JournalType
  <2>2. intents' = [intents EXCEPT !.ended = intents.ended \cup {call},
                                   !.listed = [intents.listed EXCEPT ![call] = sent]]
    BY <1>5, <1>6 DEF JournalType
  <2>3. JournalType'
    BY <1>3, <1>4, <1>5, <2>1, <2>2 DEF JournalType
  <2>4. intents'.ended = intents.ended \cup {call} /\ intents'.listed = [intents.listed EXCEPT ![call] = sent]
        /\ intents'.plans = intents.plans /\ intents'.tried = intents.tried
        /\ intents'.booked = intents.booked /\ intents'.done = intents.done
    BY <1>5, <2>2 DEF JournalType
  <2> QED BY <1>2, <1>3, <1>4, <2>3, <2>4 DEF Ends
<1>7. CASE intents' = intents
  <2>1. JournalType'
    BY <1>3, <1>5, <1>7 DEF JournalType
  <2> QED BY <1>2, <1>3, <1>4, <1>7, <2>1 DEF Ends
<1>8. intents' = intents \/ intents' = [intents EXCEPT !.ended = @ \cup {call}, !.listed[call] = sent]
  BY Zenon DEF EndCall
<1> QED BY <1>6, <1>7, <1>8

\* What she was told stays true while the journal only grows, and no line of a
\* call that is over goes out.
LEMMA ToldStays ==
  ASSUME ToldInv, UNCHANGED <<text, place, told>>,
         discord \subseteq discord', lost \subseteq lost', unbooked \subseteq unbooked',
         adrift \subseteq adrift', intents.done => intents'.done,
         \A l \in Lines : told[l] = "not sent" =>
           /\ CallOf(l) \in intents'.ended => CallOf(l) \in intents.ended
           /\ l \in discord' => l \in discord
           /\ CallOf(l) # call' /\ (tool' \in {"asked", "running"} => CallOf(l) <= begun')
  PROVE  ToldInv'
<1> SUFFICES ASSUME NEW l \in Lines
             PROVE  /\ told'[l] = "not sent" =>
                         CallOf(l) # call' /\ (tool' \in {"asked", "running"} => CallOf(l) <= begun')
                    /\ TellsOf(told[l], l)'
  BY DEF ToldInv
<1>1. ASSUME told[l] = "sent" PROVE Founded(l)'
  <2>1. Founded(l)
    BY <1>1 DEF ToldInv, TellsOf
  <2> QED BY <2>1 DEF Founded
<1>2. ASSUME told[l] = "not sent", l \in discord' PROVE Excused(l)'
  <2>1. Excused(l)
    BY <1>2 DEF ToldInv, TellsOf
  <2> QED BY <1>2, <2>1 DEF Excused
<1> QED BY <1>1, <1>2 DEF TellsOf

\* What the repair starts from.
Dead == IInv /\ tool = "down"

\* The lines of a call with a done line are on Discord, and the first without
\* one is unbooked when a later one went out.
LEMMA DeadFacts ==
  ASSUME Dead, NEW c \in Calls, NEW l \in LinesOf(c)
  PROVE  /\ call = 0 /\ CallOf(l) = c /\ l \in Lines /\ l \in Nat /\ l # 0
         /\ l \in Booked(c) => l \in discord
         /\ l \in discord => l \in intents.tried /\ c \in intents.plans
         /\ l \in discord => \A m \in LinesOf(c) : m < l => m \in Booked(c) \cup unbooked
         /\ unbooked \subseteq discord
<1>1. CallOf(l) = c /\ l \in Lines /\ l \in Nat /\ l # 0
  BY PlanFacts
<1>2. call = 0
  BY DEF Dead, IInv, CallRuns
<1> QED BY <1>1, <1>2 DEF Dead, IInv, Journal, InItsOrder, Booked

\* The repair of a call that is over.
LEMMA EndedTells ==
  ASSUME Dead, NEW c \in Calls, NEW l \in LinesOf(c), intents.done \/ c \in intents.ended
  PROVE  OfEndedCall(c)[l] \in Said \ {"silent"} /\ TellsOf(OfEndedCall(c)[l], l)
<1> DEFINE listed == intents.listed[c]
           out == IF Cardinality(listed) > Cardinality(Booked(c))
                  THEN Prefix(c, Cardinality(listed)) ELSE Booked(c)
<1>1. OfEndedCall(c)[l] = IF l \in out THEN "sent" ELSE "not sent"
  <2>1. OfEndedCall(c) = Told(c, out, {})
    BY DEF OfEndedCall
  <2> HIDE DEF out
  <2>2. Told(c, out, {})[l] = IF l \in out THEN "sent" ELSE IF l \in {} THEN "unknown" ELSE "not sent"
    BY DEF Told
  <2> QED BY <2>1, <2>2
<1>2. IsFiniteSet(LinesOf(c)) /\ Booked(c) \subseteq LinesOf(c)
  BY PlanFacts, PrefixFacts, PrefixSize DEF Booked
<1>3. IsFiniteSet(Booked(c)) /\ Cardinality(Booked(c)) \in Nat
  BY <1>2, FS_Subset, FS_CardinalityType
<1>4. CASE c \in intents.ended
  <2>1. PICK n \in 0..Len(Plan[c]) : listed = Prefix(c, n)
    BY <1>4 DEF Dead, IInv, EndedLists
  <2>2. listed \subseteq discord /\ Booked(c) \subseteq listed /\ discord \cap LinesOf(c) \subseteq listed \cup lost
    BY <1>4 DEF Dead, IInv, EndedLists
  <2>3. IsFiniteSet(listed) /\ Cardinality(listed) = n
    BY <2>1, PrefixSize
  <2> HIDE DEF listed
  <2>4. ASSUME Cardinality(listed) > Cardinality(Booked(c)) PROVE out = listed
    BY <2>1, <2>3, <2>4
  <2>5. ASSUME ~(Cardinality(listed) > Cardinality(Booked(c))) PROVE out = listed
    <3>1. Cardinality(Booked(c)) <= Cardinality(listed)
      BY <2>2, <2>3, FS_Subset
    <3>2. Cardinality(Booked(c)) = Cardinality(listed)
      BY <1>3, <2>3, <2>5, <3>1
    <3>3. Booked(c) = listed
      BY <2>2, <2>3, <3>2, FS_Subset
    <3> QED BY <2>5, <3>3
  <2>6. out = listed
    BY <2>4, <2>5
  <2> HIDE DEF out
  <2> QED BY <1>1, <2>2, <2>6 DEF TellsOf, Excused, Founded, Said
<1>5. CASE c \notin intents.ended
  <2>1. listed = {}
    BY <1>5 DEF Dead, IInv, EndedLists
  <2>2. Cardinality(listed) = 0
    BY <2>1, FS_EmptySet
  <2>3. out = Booked(c)
    BY <1>3, <2>2
  <2> HIDE DEF out, listed
  <2>4. ASSUME l \in discord, l \notin Booked(c) PROVE Excused(l)
    <3>1. CallOf(l) = c /\ call = 0 /\ l \in Nat /\ l # 0 /\ l <= l
      BY DeadFacts
    <3>2. l \in unbooked \/ l \in lost \/ c \in adrift
      BY <1>5, <2>4, <3>1, PlanFacts DEF Dead, IInv, Accounted, Booked
    <3> QED BY <1>5, <3>1, <3>2 DEF Excused
  <2> QED BY <1>1, <2>3, <2>4, DeadFacts DEF TellsOf, Founded, Said
<1> QED BY <1>4, <1>5

\* The first line without a done line, of a call that is not over.
LEMMA NextTells ==
  ASSUME Dead, NEW c \in Calls, c \notin intents.ended, LinesOf(c) \ Booked(c) # {}
  PROVE  \E m \in LinesOf(c) \ Booked(c) :
           /\ FirstOf(LinesOf(c) \ Booked(c)) = {m} /\ m \in Nat
           /\ \A x \in LinesOf(c) : x < m => x \in Booked(c)
           /\ \A x \in LinesOf(c) \ Booked(c) : m <= x
           /\ \A x \in LinesOf(c) \cap discord : m < x => m \in discord /\ Excused(x)
<1>1. LinesOf(c) \ Booked(c) \subseteq Lines
  BY PlanFacts
<1>2. PICK m \in LinesOf(c) \ Booked(c) :
        FirstOf(LinesOf(c) \ Booked(c)) = {m} /\ \A x \in LinesOf(c) \ Booked(c) : m <= x
  BY <1>1, FirstFacts
<1>3. m \in Nat
  BY PlanFacts
<1>4. ASSUME NEW x \in LinesOf(c), x < m PROVE x \in Booked(c)
  <2>1. x \in Nat
    BY PlanFacts
  <2> QED BY <1>2, <1>3, <1>4, <2>1
<1>5. ASSUME NEW x \in LinesOf(c) \cap discord, m < x PROVE m \in discord /\ Excused(x)
  <2>1. m \in unbooked /\ m \in discord /\ CallOf(x) = c /\ x \in Nat
    BY <1>5, DeadFacts
  <2> QED BY <1>3, <1>5, <2>1 DEF Excused
<1> QED BY <1>2, <1>3, <1>4, <1>5

\* The repair of a call whose place is gone.
LEMMA LostTells ==
  ASSUME Dead, NEW c \in Calls, c \notin intents.ended, NEW l \in LinesOf(c)
  PROVE  OfLostPlace(c)[l] \in Said \ {"silent"} /\ TellsOf(OfLostPlace(c)[l], l)
<1> DEFINE doubt == FirstOf(LinesOf(c) \ Booked(c)) \cap intents.tried
<1>1. OfLostPlace(c)[l] =
        IF l \in Booked(c) THEN "sent" ELSE IF l \in doubt THEN "unknown" ELSE "not sent"
  <2>1. OfLostPlace(c) = Told(c, Booked(c), doubt)
    BY DEF OfLostPlace
  <2> HIDE DEF doubt
  <2> QED BY <2>1 DEF Told
<1>2. CASE l \in Booked(c)
  BY <1>1, <1>2, DeadFacts DEF TellsOf, Founded, Said
<1>3. CASE l \notin Booked(c)
  <2>1. PICK m \in LinesOf(c) \ Booked(c) :
          /\ FirstOf(LinesOf(c) \ Booked(c)) = {m} /\ m \in Nat
          /\ \A x \in LinesOf(c) \ Booked(c) : m <= x
          /\ \A x \in LinesOf(c) \cap discord : m < x => m \in discord /\ Excused(x)
    BY <1>3, NextTells
  <2>2. l \in Nat /\ (l \in discord => l \in intents.tried)
    BY DeadFacts
  <2>3. l = m \/ m < l
    BY <1>3, <2>1, <2>2
  <2>4. l \in discord /\ l \notin doubt => Excused(l)
    BY <2>1, <2>2, <2>3
  <2> HIDE DEF doubt
  <2> QED BY <1>1, <1>3, <2>4 DEF TellsOf, Said
<1> QED BY <1>2, <1>3

\* The repair of a call from the messages of its place.
LEMMA ScriptTells ==
  ASSUME Dead, NEW c \in Calls, c \notin intents.ended, NEW l \in LinesOf(c), NEW readable \in BOOLEAN
  PROVE  OfScript(c, readable)[l] \in Said \ {"silent"} /\ TellsOf(OfScript(c, readable)[l], l)
<1> DEFINE next == FirstOf(LinesOf(c) \ Booked(c))
           sure == {x \in LinesOf(c) : \A n \in next : x < n}
           found == {x \in next : Alike(c, x, sure) # {}}
           says == OfScript(c, readable)[l]
<1>1. says = IF readable THEN Told(c, sure \cup found, {})[l] ELSE Told(c, sure, next)[l]
  BY DEF OfScript
<1>2. /\ Told(c, sure \cup found, {})[l] = IF l \in sure \cup found THEN "sent" ELSE "not sent"
      /\ Told(c, sure, next)[l] =
           IF l \in sure THEN "sent" ELSE IF l \in next THEN "unknown" ELSE "not sent"
  <2> HIDE DEF sure, found, next
  <2> QED BY DEF Told
<1>3. \/ says = "sent" /\ l \in sure
      \/ says = "sent" /\ l \in found
      \/ says = "unknown"
      \/ says = "not sent" /\ l \notin sure /\ l \notin next
      \/ says = "not sent" /\ l \notin sure /\ l \notin found /\ readable
  BY <1>1, <1>2
<1> HIDE DEF says
<1>4. ASSUME l \in sure PROVE l \in Booked(c)
  <2>1. SUFFICES ASSUME l \notin Booked(c) PROVE FALSE
    OBVIOUS
  <2>2. PICK m \in LinesOf(c) \ Booked(c) :
          next = {m} /\ m \in Nat /\ \A x \in LinesOf(c) \ Booked(c) : m <= x
    BY <2>1, NextTells
  <2>3. l < m /\ m <= l /\ l \in Nat
    BY <1>4, <2>1, <2>2, DeadFacts
  <2> QED BY <2>2, <2>3
<1>5. ASSUME l \in found PROVE Founded(l)
  <2>1. CASE l \in Booked(c)
    BY <2>1, DeadFacts DEF Founded
  <2>2. CASE l \notin Booked(c)
    <3>1. PICK m \in LinesOf(c) \ Booked(c) :
            /\ next = {m}
            /\ \A x \in LinesOf(c) : x < m => x \in Booked(c)
            /\ \A x \in LinesOf(c) \cap discord : m < x => m \in discord /\ Excused(x)
      BY <2>2, NextTells
    <3>2. l = m
      BY <1>5, <3>1
    <3>3. PICK x \in discord \ sure :
            text[x] = text[l] /\ (x # 0 => place[CallOf(x)] = place[c])
      BY <1>5 DEF Alike
    <3>4. CASE x \in LinesOf(c)
      <4>1. ~(x < m) /\ x \in Nat /\ m \in Nat
        BY <3>1, <3>3, <3>4, PlanFacts
      <4>2. x = m \/ m < x
        BY <4>1
      <4> QED BY <3>1, <3>2, <3>3, <3>4, <4>2 DEF Founded
    <3>5. CASE x \notin LinesOf(c)
      BY <3>3, <3>5, DeadFacts DEF Founded
    <3> QED BY <3>4, <3>5
  <2> QED BY <2>1, <2>2
<1>6. ASSUME l \notin sure, l \notin next \/ (l \notin found /\ readable), l \in discord
      PROVE  Excused(l)
  <2>1. CASE LinesOf(c) \ Booked(c) = {}
    <3>1. next = {}
      BY <2>1, FirstFacts
    <3> QED BY <1>6, <3>1
  <2>2. CASE LinesOf(c) \ Booked(c) # {}
    <3>1. PICK m \in LinesOf(c) \ Booked(c) :
            /\ next = {m} /\ m \in Nat
            /\ \A x \in LinesOf(c) \cap discord : m < x => m \in discord /\ Excused(x)
      BY <2>2, NextTells
    <3>2. l \in Nat /\ CallOf(l) = c /\ ~(l < m)
      BY <1>6, <3>1, DeadFacts
    <3>3. ASSUME l = m PROVE FALSE
      <4>1. l \in next /\ l \notin found
        BY <1>6, <3>1, <3>3
      <4>2. l \in Alike(c, l, sure)
        <5> HIDE DEF sure, next, found
        <5> QED BY <1>6, <3>2 DEF Alike
      <4> QED BY <4>1, <4>2
    <3>4. m < l
      BY <3>1, <3>2, <3>3
    <3> QED BY <1>6, <3>1, <3>4
  <2> QED BY <2>1, <2>2
<1> HIDE DEF sure, next, found
<1>7. says = "not sent" /\ l \in discord => Excused(l)
  BY <1>3, <1>6
<1>8. says = "sent" => Founded(l)
  BY <1>3, <1>4, <1>5, DeadFacts DEF Founded
<1>9. says \in Said \ {"silent"}
  BY <1>3 DEF Said
<1> QED BY <1>7, <1>8, <1>9 DEF TellsOf, says

\* What the repair says is what it may.
LEMMA RepairTells ==
  ASSUME IInv, Repair
  PROVE  told' \in [Lines -> Said] /\ ToldInv'
<1> DEFINE tells(of) ==
      LET all == {of[CallOf(l)][l] : l \in UNION {LinesOf(c) : c \in intents.plans}}
      IN IF "sent" \in all
         THEN [l \in Lines |-> IF CallOf(l) \in intents.plans THEN of[CallOf(l)][l] ELSE "silent"]
         ELSE [l \in Lines |-> IF "unknown" \in all THEN "unknown" ELSE "not sent"]
<1>1. Dead /\ call = 0 /\ intents.plans \subseteq Calls
  BY DEF Dead, IInv, CallRuns, Repair, TypeOK
<1>2. UNCHANGED <<text, place, discord, intents, lost, unbooked, adrift, begun, call>> /\ tool' = "logged"
  BY DEF Repair, input, cursor, ghosts
<1>3. PICK reach \in [Places -> {"readable", "unreadable", "gone"}] :
        told' = IF intents.start THEN Recovered(reach) ELSE told
  BY DEF Repair
<1> DEFINE of == [c \in intents.plans |-> OfPlan(c, reach[place[c]])]
<1>4. Recovered(reach) = tells(of)
  BY DEF Recovered
<1>5. ASSUME NEW c \in intents.plans, NEW l \in LinesOf(c)
      PROVE  of[c][l] \in Said \ {"silent"} /\ TellsOf(of[c][l], l)
  <2>1. of[c] = OfPlan(c, reach[place[c]]) /\ c \in Calls
    BY <1>1
  <2>2. CASE intents.done \/ c \in intents.ended
    BY <1>1, <2>1, <2>2, EndedTells DEF OfPlan
  <2>3. CASE ~(intents.done \/ c \in intents.ended)
    <3>1. OfPlan(c, reach[place[c]]) \in {OfLostPlace(c), OfScript(c, TRUE), OfScript(c, FALSE)}
      BY <2>3 DEF OfPlan
    <3> HIDE DEF of
    <3> QED BY <1>1, <2>1, <2>3, <3>1, LostTells, ScriptTells
  <2> QED BY <2>2, <2>3
<1> HIDE DEF of
<1>6. ASSUME NEW l \in Lines
      PROVE  tells(of)[l] \in Said /\ TellsOf(tells(of)[l], l)
  <2> DEFINE all == {of[CallOf(k)][k] : k \in UNION {LinesOf(c) : c \in intents.plans}}
  <2>1. CallOf(l) \in Calls /\ l \in LinesOf(CallOf(l))
    BY PlanFacts
  <2>2. CallOf(l) \in intents.plans => of[CallOf(l)][l] \in all
    BY <2>1
  <2>3. l \in discord => CallOf(l) \in intents.plans
    BY <1>1, <2>1, DeadFacts
  <2>4. CASE "sent" \in all
    <3>1. tells(of)[l] = IF CallOf(l) \in intents.plans THEN of[CallOf(l)][l] ELSE "silent"
      BY <2>4
    <3> QED BY <1>5, <2>1, <3>1 DEF TellsOf, Said
  <2>5. CASE "sent" \notin all
    <3>1. tells(of)[l] = IF "unknown" \in all THEN "unknown" ELSE "not sent"
      BY <2>5
    <3> HIDE DEF all, tells
    <3>2. ASSUME "unknown" \notin all, l \in discord PROVE Excused(l)
      <4>1. of[CallOf(l)][l] \in Said \ {"silent"} /\ TellsOf(of[CallOf(l)][l], l) /\ of[CallOf(l)][l] \in all
        BY <1>5, <2>1, <2>2, <2>3, <3>2
      <4>2. of[CallOf(l)][l] = "not sent"
        BY <2>5, <3>2, <4>1 DEF Said
      <4> QED BY <3>2, <4>1, <4>2 DEF TellsOf
    <3> QED BY <3>1, <3>2 DEF TellsOf, Said
  <2> QED BY <2>4, <2>5
<1>7. tells(of) \in [Lines -> Said]
  <2>1. tells(of) = [l \in Lines |-> tells(of)[l]]
    OBVIOUS
  <2> HIDE DEF tells
  <2> QED BY <1>6, <2>1
<1>8. told \in [Lines -> Said] /\ ToldInv
  BY DEF IInv, TypeOK
<1> HIDE DEF tells
<1>9. told' \in [Lines -> Said] /\ \A l \in Lines : TellsOf(told'[l], l)
  <2>1. CASE intents.start
    BY <1>3, <1>4, <1>6, <1>7, <2>1
  <2>2. CASE ~intents.start
    BY <1>3, <1>8, <2>2 DEF ToldInv
  <2> QED BY <2>1, <2>2
<1>10. ASSUME NEW l \in Lines
       PROVE  /\ CallOf(l) # call' /\ tool' \notin {"asked", "running"}
              /\ TellsOf(told[l], l)'
  <2>1. CallOf(l) # call' /\ tool' \notin {"asked", "running"}
    BY <1>1, <1>2, PlanFacts
  <2>2. UNCHANGED discord
    BY DEF Repair
  <2>3. TellsOf(told[l], l)'
    BY <1>2, <1>9, <2>2 DEF TellsOf, Excused, Founded
  <2> QED BY <2>1, <2>3
<1> QED BY <1>9, <1>10 DEF ToldInv

\* Types of the messages and the journal.
LEMMA JournalTypeStep ==
  ASSUME IInv, Next
  PROVE  JournalType'
<1> USE Bounds
<1> USE DEF input, cursor, ghosts, IInv, TypeOK, Said, Fault, JournalType
<1>1. CASE Begin
  BY <1>1 DEF Begin
<1>2. CASE BeginCall
  BY <1>2 DEF BeginCall
<1>3. CASE CallRefused
  BY <1>3 DEF CallRefused, Fault
<1>4. CASE Try
  BY <1>4 DEF Try
<1>5. CASE TryFails
  BY <1>5 DEF TryFails, Fault
<1>6. CASE DiscordTakes
  BY <1>6 DEF DiscordTakes
<1>7. CASE DiscordFails
  BY <1>7 DEF DiscordFails, Fault
<1>8. CASE Book
  BY <1>8, BookEffect DEF Books
<1>9. CASE Stop
  BY <1>9 DEF Stop
<1>10. CASE EndCall
  BY <1>10, EndEffect DEF Ends
<1>11. CASE CallThrows
  BY <1>11 DEF CallThrows, Fault, Receipt
<1>12. CASE Abort
  BY <1>12 DEF Abort
<1>13. CASE ScriptEnds
  BY <1>13 DEF ScriptEnds
<1>14. CASE GraceEnds
  BY <1>14 DEF GraceEnds, Says
<1>15. CASE ToolDone
  BY <1>15 DEF ToolDone
<1>16. CASE Log
  BY <1>16 DEF Log
<1>17. CASE Crash
  BY <1>17 DEF Crash
<1>18. CASE Repair
  BY <1>18 DEF Repair
<1> QED BY <1>1, <1>2, <1>3, <1>4, <1>5, <1>6, <1>7, <1>8, <1>9, <1>10, <1>11, <1>12, <1>13,
          <1>14, <1>15, <1>16, <1>17, <1>18 DEF Next

\* Types of the calls.
LEMMA RunTypeStep ==
  ASSUME IInv, Next
  PROVE  RunType'
<1> USE Bounds
<1> USE DEF input, cursor, ghosts, IInv, TypeOK, Said, Fault, RunType
<1>1. CASE Begin
  BY <1>1 DEF Begin
<1>2. CASE BeginCall
  BY <1>2 DEF BeginCall
<1>3. CASE CallRefused
  BY <1>3 DEF CallRefused, Fault
<1>4. CASE Try
  BY <1>4 DEF Try
<1>5. CASE TryFails
  BY <1>5 DEF TryFails, Fault
<1>6. CASE DiscordTakes
  BY <1>6 DEF DiscordTakes
<1>7. CASE DiscordFails
  BY <1>7 DEF DiscordFails, Fault
<1>8. CASE Book
  BY <1>8 DEF Book, Fault
<1>9. CASE Stop
  BY <1>9 DEF Stop
<1>10. CASE EndCall
  BY <1>10 DEF EndCall, Fault, Receipt
<1>11. CASE CallThrows
  BY <1>11 DEF CallThrows, Fault, Receipt
<1>12. CASE Abort
  BY <1>12 DEF Abort
<1>13. CASE ScriptEnds
  BY <1>13 DEF ScriptEnds
<1>14. CASE GraceEnds
  BY <1>14 DEF GraceEnds, Says
<1>15. CASE ToolDone
  BY <1>15 DEF ToolDone
<1>16. CASE Log
  BY <1>16 DEF Log
<1>17. CASE Crash
  BY <1>17 DEF Crash
<1>18. CASE Repair
  BY <1>18 DEF Repair
<1> QED BY <1>1, <1>2, <1>3, <1>4, <1>5, <1>6, <1>7, <1>8, <1>9, <1>10, <1>11, <1>12, <1>13,
          <1>14, <1>15, <1>16, <1>17, <1>18 DEF Next

\* Types of what is told.
LEMMA ToldTypeStep ==
  ASSUME IInv, Next
  PROVE  ToldType'
<1> USE Bounds
<1> USE DEF input, cursor, ghosts, IInv, TypeOK, Said, Fault, ToldType
<1>1. CASE Begin
  BY <1>1 DEF Begin
<1>2. CASE BeginCall
  BY <1>2 DEF BeginCall
<1>3. CASE CallRefused
  BY <1>3 DEF CallRefused, Fault
<1>4. CASE Try
  BY <1>4 DEF Try
<1>5. CASE TryFails
  BY <1>5 DEF TryFails, Fault
<1>6. CASE DiscordTakes
  BY <1>6 DEF DiscordTakes
<1>7. CASE DiscordFails
  BY <1>7 DEF DiscordFails, Fault
<1>8. CASE Book
  BY <1>8 DEF Book, Fault
<1>9. CASE Stop
  BY <1>9 DEF Stop
<1>10. CASE EndCall
  <2>1. Receipt \in [Lines -> Said]
    BY DEF Receipt
  <2>2. told' = Receipt /\ UNCHANGED <<lost, unbooked, adrift>>
    BY <1>10 DEF EndCall
  <2>3. faults' \in 0..MaxFaults
    BY <1>10 DEF EndCall
  <2> QED BY <2>1, <2>2, <2>3
<1>11. CASE CallThrows
  BY <1>11 DEF CallThrows, Fault, Receipt
<1>12. CASE Abort
  BY <1>12 DEF Abort
<1>13. CASE ScriptEnds
  BY <1>13 DEF ScriptEnds
<1>14. CASE GraceEnds
  BY <1>14 DEF GraceEnds, Says
<1>15. CASE ToolDone
  BY <1>15 DEF ToolDone
<1>16. CASE Log
  BY <1>16 DEF Log
<1>17. CASE Crash
  BY <1>17 DEF Crash
<1>18. CASE Repair
  <2>1. told' \in [Lines -> Said]
    BY <1>18, RepairTells
  <2> QED BY <1>18, <2>1 DEF Repair
<1> QED BY <1>1, <1>2, <1>3, <1>4, <1>5, <1>6, <1>7, <1>8, <1>9, <1>10, <1>11, <1>12, <1>13,
          <1>14, <1>15, <1>16, <1>17, <1>18 DEF Next

\* The call under way.
LEMMA RunsStep ==
  ASSUME IInv, Next
  PROVE  CallRuns' /\ CallBooks'
<1>a. /\ TypeOK /\ CallRuns /\ CallBooks /\ Journal /\ InItsOrder /\ EndedLists /\ Accounted /\ ToldInv
      /\ JournalType /\ RunType
  BY DEF IInv, TypeOK, JournalType, RunType
<1>b. (Book => Books) /\ (EndCall => Ends)
  BY BookEffect, EndEffect
<1>c. /\ call # 0 => call \in Calls /\ LinesOf(call) \subseteq Lines /\ sent \subseteq LinesOf(call)
      /\ call # 0 /\ (More \/ step \in {"tried", "taken"}) =>
           /\ Line \in LinesOf(call) /\ Line \in Lines /\ Line # 0 /\ CallOf(Line) = call
           /\ at \in 1..Len(Plan[call]) /\ Prefix(call, at) = sent \cup {Line}
           /\ \A l \in LinesOf(call) : l < Line => l \in sent
  BY <1>a, NextLine
<1> USE <1>a, <1>c, PlanFacts
<1> USE DEF input, cursor, ghosts, Fault, Line, More, CallRuns, CallBooks, Journal, JournalType,
            RunType
<1>1. CASE Begin
  BY <1>1 DEF Begin
<1>2. CASE BeginCall
  <2>1. begun + 1 \in Calls /\ Prefix(begun + 1, 0) = {} /\ begun + 1 \notin intents.plans
    BY <1>2, PrefixFacts DEF BeginCall
  <2>2. ASSUME NEW l \in discord \cap LinesOf(begun + 1) PROVE FALSE
    BY <2>1
  <2> QED BY <1>2, <2>1, <2>2 DEF BeginCall
<1>3. CASE CallRefused
  BY <1>3 DEF CallRefused, Fault
<1>4. CASE Try
  BY <1>4 DEF Try
<1>5. CASE TryFails
  BY <1>5 DEF TryFails, Fault
<1>6. CASE DiscordTakes
  BY <1>6 DEF DiscordTakes
<1>7. CASE DiscordFails
  BY <1>7 DEF DiscordFails, Fault
<1>8. CASE Book
  <2>1. /\ call' = call /\ sent' = sent \cup {Line} /\ Prefix(call, at) = sent \cup {Line}
        /\ at \in 1..Len(Plan[call]) /\ at' = at + 1 /\ Len(Plan[call]) \in Nat
    BY <1>8, <1>b DEF Books
  <2>2. at' - 1 = at /\ at' \in 1..(Len(Plan[call]) + 1)
    BY <2>1
  <2>3. sent' = Prefix(call', at' - 1)
    BY <2>1, <2>2
  <2>4. CallRuns'
    BY <1>8, <1>b, <2>1, <2>2, <2>3 DEF Books
  <2>5. CallBooks'
    <3>1. /\ call # 0 /\ step = "taken" /\ step' = "next" /\ UNCHANGED <<discord, lost>>
          /\ intents'.booked \cup unbooked' = intents.booked \cup unbooked \cup {Line}
          /\ intents'.booked \subseteq intents.booked \cup {Line}
      BY <1>8, <1>b DEF Books
    <3>2. /\ sent \subseteq intents.booked \cup unbooked
          /\ intents.booked \cap LinesOf(call) \subseteq sent
          /\ discord \cap LinesOf(call) \subseteq sent \cup lost \cup {Line}
      BY <3>1
    <3> QED BY <2>1, <3>1, <3>2
  <2> QED BY <2>4, <2>5
<1>9. CASE Stop
  BY <1>9 DEF Stop
<1>10. CASE EndCall
  BY <1>10, <1>b DEF Ends
<1>11. CASE CallThrows
  BY <1>11 DEF CallThrows, Fault, Receipt
<1>12. CASE Abort
  BY <1>12 DEF Abort
<1>13. CASE ScriptEnds
  BY <1>13 DEF ScriptEnds
<1>14. CASE GraceEnds
  BY <1>14 DEF GraceEnds, Says
<1>15. CASE ToolDone
  BY <1>15 DEF ToolDone
<1>16. CASE Log
  BY <1>16 DEF Log
<1>17. CASE Crash
  BY <1>17 DEF Crash
<1>18. CASE Repair
  BY <1>18 DEF Repair
<1> QED BY <1>1, <1>2, <1>3, <1>4, <1>5, <1>6, <1>7, <1>8, <1>9, <1>10, <1>11, <1>12, <1>13,
          <1>14, <1>15, <1>16, <1>17, <1>18 DEF Next

\* The journal and the order of the lines.
LEMMA JournalStep ==
  ASSUME IInv, Next
  PROVE  Journal' /\ InItsOrder'
<1>a. /\ TypeOK /\ CallRuns /\ CallBooks /\ Journal /\ InItsOrder /\ EndedLists /\ Accounted /\ ToldInv
      /\ JournalType /\ RunType
  BY DEF IInv, TypeOK, JournalType, RunType
<1>b. (Book => Books) /\ (EndCall => Ends)
  BY BookEffect, EndEffect
<1>c. /\ call # 0 => call \in Calls /\ LinesOf(call) \subseteq Lines /\ sent \subseteq LinesOf(call)
      /\ call # 0 /\ (More \/ step \in {"tried", "taken"}) =>
           /\ Line \in LinesOf(call) /\ Line \in Lines /\ Line # 0 /\ CallOf(Line) = call
           /\ at \in 1..Len(Plan[call]) /\ Prefix(call, at) = sent \cup {Line}
           /\ \A l \in LinesOf(call) : l < Line => l \in sent
  BY <1>a, NextLine
<1> USE <1>a, <1>c, PlanFacts
<1> USE DEF input, cursor, ghosts, Fault, Line, More, CallRuns, CallBooks, Journal, JournalType,
            RunType, InItsOrder
<1>1. CASE Begin
  BY <1>1 DEF Begin
<1>2. CASE BeginCall
  BY <1>2 DEF BeginCall
<1>3. CASE CallRefused
  BY <1>3 DEF CallRefused, Fault
<1>4. CASE Try
  BY <1>4 DEF Try
<1>5. CASE TryFails
  BY <1>5 DEF TryFails, Fault
<1>6. CASE DiscordTakes
  <2>1. /\ discord' = discord \cup {Line} /\ call # 0 /\ step = "tried" /\ CallOf(Line) = call
        /\ sent \subseteq intents.booked \cup unbooked /\ UNCHANGED <<intents, unbooked, lost>>
        /\ \A l \in LinesOf(call) : l < Line => l \in sent
    BY <1>6 DEF DiscordTakes
  <2>2. ASSUME NEW m \in discord' \ {0}, NEW l \in LinesOf(CallOf(m)), l < m
        PROVE  l \in intents.booked \cup unbooked
    <3>1. CASE m = Line
      BY <2>1, <2>2, <3>1
    <3>2. CASE m \in discord
      BY <2>2, <3>2
    <3> QED BY <2>1, <3>1, <3>2
  <2>3. Journal'
    BY <1>6 DEF DiscordTakes
  <2>4. InItsOrder'
    BY <2>1, <2>2
  <2> QED BY <2>3, <2>4
<1>7. CASE DiscordFails
  BY <1>7 DEF DiscordFails, Fault
<1>8. CASE Book
  <2>1. /\ Line \in discord /\ UNCHANGED <<discord, lost, tool, begun>>
        /\ intents'.booked \cup unbooked' = intents.booked \cup unbooked \cup {Line}
        /\ intents'.plans = intents.plans /\ intents'.tried = intents.tried
        /\ intents'.ended = intents.ended /\ intents'.done = intents.done
    BY <1>8, <1>b DEF Books
  <2>2. Journal'
    BY <2>1
  <2>3. InItsOrder'
    BY <2>1
  <2> QED BY <2>2, <2>3
<1>9. CASE Stop
  BY <1>9 DEF Stop
<1>10. CASE EndCall
  BY <1>10, <1>b DEF Ends
<1>11. CASE CallThrows
  BY <1>11 DEF CallThrows, Fault, Receipt
<1>12. CASE Abort
  BY <1>12 DEF Abort
<1>13. CASE ScriptEnds
  BY <1>13 DEF ScriptEnds
<1>14. CASE GraceEnds
  BY <1>14 DEF GraceEnds, Says
<1>15. CASE ToolDone
  BY <1>15 DEF ToolDone
<1>16. CASE Log
  BY <1>16 DEF Log
<1>17. CASE Crash
  BY <1>17 DEF Crash
<1>18. CASE Repair
  BY <1>18 DEF Repair
<1> QED BY <1>1, <1>2, <1>3, <1>4, <1>5, <1>6, <1>7, <1>8, <1>9, <1>10, <1>11, <1>12, <1>13,
          <1>14, <1>15, <1>16, <1>17, <1>18 DEF Next

\* The lists of the calls that are over.
LEMMA ListsStep ==
  ASSUME IInv, Next
  PROVE  EndedLists'
<1>a. /\ TypeOK /\ CallRuns /\ CallBooks /\ Journal /\ InItsOrder /\ EndedLists /\ Accounted /\ ToldInv
      /\ JournalType /\ RunType
  BY DEF IInv, TypeOK, JournalType, RunType
<1>b. (Book => Books) /\ (EndCall => Ends)
  BY BookEffect, EndEffect
<1>c. /\ call # 0 => call \in Calls /\ LinesOf(call) \subseteq Lines /\ sent \subseteq LinesOf(call)
      /\ call # 0 /\ (More \/ step \in {"tried", "taken"}) =>
           /\ Line \in LinesOf(call) /\ Line \in Lines /\ Line # 0 /\ CallOf(Line) = call
           /\ at \in 1..Len(Plan[call]) /\ Prefix(call, at) = sent \cup {Line}
           /\ \A l \in LinesOf(call) : l < Line => l \in sent
  BY <1>a, NextLine
<1> USE <1>a, <1>c, PlanFacts
<1> USE DEF input, cursor, ghosts, Fault, Line, More, CallRuns, CallBooks, Journal, JournalType,
            RunType, EndedLists, Booked
<1>1. CASE Begin
  BY <1>1 DEF Begin
<1>2. CASE BeginCall
  BY <1>2 DEF BeginCall
<1>3. CASE CallRefused
  BY <1>3 DEF CallRefused, Fault
<1>4. CASE Try
  BY <1>4 DEF Try
<1>5. CASE TryFails
  BY <1>5 DEF TryFails, Fault
<1>6. CASE DiscordTakes
  BY <1>6 DEF DiscordTakes
<1>7. CASE DiscordFails
  BY <1>7 DEF DiscordFails, Fault
<1>8. CASE Book
  BY <1>8, <1>b DEF Books
<1>9. CASE Stop
  BY <1>9 DEF Stop
<1>10. CASE EndCall
  <2>1. /\ call \in Calls /\ sent = Prefix(call, at - 1) /\ at - 1 \in 0..Len(Plan[call])
        /\ intents.booked \cap LinesOf(call) \subseteq sent /\ sent \subseteq discord
        /\ discord \cap LinesOf(call) \subseteq sent \cup lost
    BY <1>10, <1>b DEF Ends
  <2>2. UNCHANGED <<discord, lost>> /\ intents'.booked = intents.booked
    BY <1>10, <1>b DEF Ends
  <2>3. CASE intents'.ended = intents.ended /\ intents'.listed = intents.listed
    BY <2>2, <2>3
  <2>4. CASE /\ intents'.ended = intents.ended \cup {call}
             /\ intents'.listed = [intents.listed EXCEPT ![call] = sent]
    <3>1. intents'.listed[call] = sent /\ \A c \in Calls \ {call} : intents'.listed[c] = intents.listed[c]
      BY <2>1, <2>4
    <3> QED BY <2>1, <2>2, <2>4, <3>1
  <2> QED BY <1>10, <1>b, <2>3, <2>4 DEF Ends
<1>11. CASE CallThrows
  BY <1>11 DEF CallThrows, Fault, Receipt
<1>12. CASE Abort
  BY <1>12 DEF Abort
<1>13. CASE ScriptEnds
  BY <1>13 DEF ScriptEnds
<1>14. CASE GraceEnds
  BY <1>14 DEF GraceEnds, Says
<1>15. CASE ToolDone
  BY <1>15 DEF ToolDone
<1>16. CASE Log
  BY <1>16 DEF Log
<1>17. CASE Crash
  BY <1>17 DEF Crash
<1>18. CASE Repair
  BY <1>18 DEF Repair
<1> QED BY <1>1, <1>2, <1>3, <1>4, <1>5, <1>6, <1>7, <1>8, <1>9, <1>10, <1>11, <1>12, <1>13,
          <1>14, <1>15, <1>16, <1>17, <1>18 DEF Next

\* Where each message is.
LEMMA AccountStep ==
  ASSUME IInv, Next
  PROVE  Accounted'
<1>a. /\ TypeOK /\ CallRuns /\ CallBooks /\ Journal /\ InItsOrder /\ EndedLists /\ Accounted /\ ToldInv
      /\ JournalType /\ RunType
  BY DEF IInv, TypeOK, JournalType, RunType
<1>b. (Book => Books) /\ (EndCall => Ends)
  BY BookEffect, EndEffect
<1>c. /\ call # 0 => call \in Calls /\ LinesOf(call) \subseteq Lines /\ sent \subseteq LinesOf(call)
      /\ call # 0 /\ (More \/ step \in {"tried", "taken"}) =>
           /\ Line \in LinesOf(call) /\ Line \in Lines /\ Line # 0 /\ CallOf(Line) = call
           /\ at \in 1..Len(Plan[call]) /\ Prefix(call, at) = sent \cup {Line}
           /\ \A l \in LinesOf(call) : l < Line => l \in sent
  BY <1>a, NextLine
<1> USE <1>a, <1>c, PlanFacts
<1> USE DEF input, cursor, ghosts, Fault, Line, More, CallRuns, CallBooks, Journal, JournalType,
            RunType, Accounted
<1>1. CASE Begin
  BY <1>1 DEF Begin
<1>2. CASE BeginCall
  BY <1>2 DEF BeginCall
<1>3. CASE CallRefused
  BY <1>3 DEF CallRefused, Fault
<1>4. CASE Try
  BY <1>4 DEF Try
<1>5. CASE TryFails
  BY <1>5 DEF TryFails, Fault
<1>6. CASE DiscordTakes
  BY <1>6 DEF DiscordTakes
<1>7. CASE DiscordFails
  BY <1>7 DEF DiscordFails, Fault
<1>8. CASE Book
  BY <1>8, <1>b DEF Books
<1>9. CASE Stop
  BY <1>9 DEF Stop
<1>10. CASE EndCall
  BY <1>10, <1>b DEF Ends
<1>11. CASE CallThrows
  BY <1>11 DEF CallThrows, Fault, Receipt
<1>12. CASE Abort
  BY <1>12 DEF Abort
<1>13. CASE ScriptEnds
  BY <1>13 DEF ScriptEnds
<1>14. CASE GraceEnds
  BY <1>14 DEF GraceEnds, Says
<1>15. CASE ToolDone
  BY <1>15 DEF ToolDone
<1>16. CASE Log
  BY <1>16 DEF Log
<1>17. CASE Crash
  BY <1>17 DEF Crash
<1>18. CASE Repair
  BY <1>18 DEF Repair
<1> QED BY <1>1, <1>2, <1>3, <1>4, <1>5, <1>6, <1>7, <1>8, <1>9, <1>10, <1>11, <1>12, <1>13,
          <1>14, <1>15, <1>16, <1>17, <1>18 DEF Next

\* What she is told.
LEMMA ToldStep ==
  ASSUME IInv, Next
  PROVE  ToldInv'
<1>a. /\ TypeOK /\ CallRuns /\ CallBooks /\ Journal /\ InItsOrder /\ EndedLists /\ Accounted /\ ToldInv
      /\ JournalType /\ RunType
  BY DEF IInv, TypeOK, JournalType, RunType
<1>b. (Book => Books) /\ (EndCall => Ends)
  BY BookEffect, EndEffect
<1>c. /\ call # 0 => call \in Calls /\ LinesOf(call) \subseteq Lines /\ sent \subseteq LinesOf(call)
      /\ call # 0 /\ (More \/ step \in {"tried", "taken"}) =>
           /\ Line \in LinesOf(call) /\ Line \in Lines /\ Line # 0 /\ CallOf(Line) = call
           /\ at \in 1..Len(Plan[call]) /\ Prefix(call, at) = sent \cup {Line}
           /\ \A l \in LinesOf(call) : l < Line => l \in sent
  BY <1>a, NextLine
<1>d. \A l \in Lines : told[l] = "not sent" =>
        CallOf(l) # call /\ (tool \in {"asked", "running"} => CallOf(l) <= begun)
  BY <1>a DEF ToldInv
<1>e. begun \in Nat /\ \A l \in Lines : CallOf(l) \in Nat /\ CallOf(l) # 0
  BY <1>a, PlanFacts DEF RunType
<1>f. begun <= begun
  BY <1>e
<1> USE DEF input, cursor, ghosts, Fault, JournalType
<1>1. CASE Begin
  BY <1>1, <1>a, <1>c, <1>d, <1>e, ToldStays DEF Begin
<1>2. CASE BeginCall
  <2>1. intents'.done = intents.done /\ intents'.ended = intents.ended /\ call' = begun + 1 /\ begun' = begun + 1
    BY <1>2, <1>a, <1>c, <1>d, <1>e DEF BeginCall
  <2>2. ASSUME NEW l \in Lines, told[l] = "not sent"
        PROVE  CallOf(l) # begun + 1 /\ CallOf(l) <= begun + 1 /\ CallOf(l) \notin {0}
    <3>1. CallOf(l) <= begun /\ CallOf(l) \in Nat /\ begun \in Nat /\ CallOf(l) # 0
      BY <1>2, <1>a, <1>c, <1>d, <1>e, <2>2 DEF BeginCall
    <3> QED BY <3>1
  <2> QED BY <1>2, <1>a, <1>c, <1>d, <1>e, <2>1, <2>2, ToldStays DEF BeginCall
<1>3. CASE CallRefused
  <2>1. ASSUME NEW l \in Lines, told[l] = "not sent"
        PROVE  CallOf(l) # 0 /\ CallOf(l) <= begun + 1
    <3>1. CallOf(l) <= begun /\ CallOf(l) \in Nat /\ begun \in Nat /\ CallOf(l) # 0
      BY <1>3, <1>a, <1>c, <1>d, <1>e, <2>1 DEF CallRefused
    <3> QED BY <3>1
  <2> QED BY <1>3, <1>a, <1>c, <1>d, <1>e, <2>1, ToldStays DEF CallRefused
<1>4. CASE Try
  BY <1>4, <1>a, <1>c, <1>d, <1>e, ToldStays DEF Try
<1>5. CASE TryFails
  BY <1>5, <1>a, <1>c, <1>d, <1>e, ToldStays DEF TryFails, Fault
<1>6. CASE DiscordTakes
  BY <1>6, <1>a, <1>c, <1>d, <1>e, ToldStays DEF DiscordTakes
<1>7. CASE DiscordFails
  BY <1>7, <1>a, <1>c, <1>d, <1>e, ToldStays DEF DiscordFails, Fault
<1>8. CASE Book
  BY <1>8, <1>a, <1>c, <1>d, <1>e, <1>b, ToldStays DEF Books
<1>9. CASE Stop
  BY <1>9, <1>a, <1>c, <1>d, <1>e, ToldStays DEF Stop
<1>10. CASE EndCall
  <2>1. ASSUME NEW l \in Lines
        PROVE  /\ told'[l] = "not sent" =>
                    CallOf(l) # call' /\ (tool' \in {"asked", "running"} => CallOf(l) <= begun')
               /\ TellsOf(told[l], l)'
    <3>0. call # 0 /\ call' = 0 /\ begun' = begun /\ tool' = tool
      BY <1>10, <1>a, <1>c, <1>d, <1>e DEF EndCall
    <3>1. call = begun /\ CallOf(l) # 0 /\ begun <= begun
      BY <3>0, <1>a, <1>e, <1>f DEF CallRuns
    <3>2. CASE told'[l] = told[l]
      <4>1. CallOf(l) \in intents'.ended /\ told[l] = "not sent" => CallOf(l) \in intents.ended
        BY <1>10, <1>a, <1>c, <1>d, <1>e, <1>b DEF Ends
      <4>2. Excused(l) /\ told[l] = "not sent" => Excused(l)'
        BY <1>10, <1>a, <1>c, <1>d, <1>e, <1>b, <4>1 DEF Ends, Excused
      <4>3. Founded(l) => Founded(l)'
        BY <1>10, <1>a, <1>c, <1>d, <1>e, <1>b DEF Ends, Founded
      <4>4. discord' = discord
        BY <1>10, <1>a, <1>c, <1>d, <1>e, <1>b DEF Ends
      <4> QED BY <1>a, <1>d, <3>0, <3>1, <3>2, <4>2, <4>3, <4>4 DEF ToldInv, TellsOf
    <3>3. CASE l \in sent /\ told'[l] = "sent"
      <4>1. l \in discord'
        BY <1>10, <1>a, <1>c, <1>d, <1>e, <1>b, <3>0, <3>1, <3>3 DEF Ends, CallBooks, Journal
      <4> QED BY <3>3, <4>1 DEF TellsOf, Founded
    <3>4. CASE l \in LinesOf(call) /\ l \notin sent /\ told'[l] = "not sent"
      <4>1. CallOf(l) = call
        BY <3>0, <3>1, <3>4, <1>c, PlanFacts
      <4>2. l \in discord' => l \in lost'
        BY <1>10, <1>a, <1>c, <1>d, <1>e, <1>b, <3>0, <3>1, <3>4 DEF Ends, CallBooks
      <4> QED BY <3>0, <3>1, <3>4, <4>1, <4>2 DEF TellsOf, Excused
    <3>5. \/ told'[l] = told[l]
          \/ l \in sent /\ told'[l] = "sent"
          \/ l \in LinesOf(call) /\ l \notin sent /\ told'[l] = "not sent"
      <4> DEFINE new == [x \in Lines |-> IF x \in sent THEN "sent"
                                        ELSE IF x \in LinesOf(call) THEN "not sent" ELSE told[x]]
      <4>1. told' = told \/ told' = new
        BY <1>10, <1>b DEF Ends, Receipt
      <4>2. \/ new[l] = told[l]
            \/ l \in sent /\ new[l] = "sent"
            \/ l \in LinesOf(call) /\ l \notin sent /\ new[l] = "not sent"
        OBVIOUS
      <4> HIDE DEF new
      <4> QED BY <4>1, <4>2
    <3> QED BY <3>2, <3>3, <3>4, <3>5
  <2> QED BY <2>1 DEF ToldInv
<1>11. CASE CallThrows
  <2>1. ASSUME NEW l \in Lines
        PROVE  /\ told'[l] = "not sent" =>
                    CallOf(l) # call' /\ (tool' \in {"asked", "running"} => CallOf(l) <= begun')
               /\ TellsOf(told[l], l)'
    <3>0. call # 0 /\ call' = 0 /\ begun' = begun /\ tool' = tool
      BY <1>11, <1>a, <1>c, <1>d, <1>e DEF CallThrows
    <3>1. call = begun /\ CallOf(l) # 0 /\ begun <= begun
      BY <3>0, <1>a, <1>e, <1>f DEF CallRuns
    <3>2. CASE told'[l] = told[l]
      <4>1. CallOf(l) \in intents'.ended /\ told[l] = "not sent" => CallOf(l) \in intents.ended
        BY <1>11, <1>a, <1>c, <1>d, <1>e DEF CallThrows
      <4>2. Excused(l) /\ told[l] = "not sent" => Excused(l)'
        BY <1>11, <1>a, <1>c, <1>d, <1>e, <4>1 DEF CallThrows, Excused
      <4>3. Founded(l) => Founded(l)'
        BY <1>11, <1>a, <1>c, <1>d, <1>e DEF CallThrows, Founded
      <4>4. discord' = discord
        BY <1>11, <1>a, <1>c, <1>d, <1>e DEF CallThrows
      <4> QED BY <1>a, <1>d, <3>0, <3>1, <3>2, <4>2, <4>3, <4>4 DEF ToldInv, TellsOf
    <3>3. CASE l \in sent /\ told'[l] = "sent"
      <4>1. l \in discord'
        BY <1>11, <1>a, <1>c, <1>d, <1>e, <3>0, <3>1, <3>3 DEF CallThrows, CallBooks, Journal
      <4> QED BY <3>3, <4>1 DEF TellsOf, Founded
    <3>4. CASE l \in LinesOf(call) /\ l \notin sent /\ told'[l] = "not sent"
      <4>1. CallOf(l) = call
        BY <3>0, <3>1, <3>4, <1>c, PlanFacts
      <4>2. l \in discord' => l \in lost'
        BY <1>11, <1>a, <1>c, <1>d, <1>e, <3>0, <3>1, <3>4 DEF CallThrows, CallBooks
      <4> QED BY <3>0, <3>1, <3>4, <4>1, <4>2 DEF TellsOf, Excused
    <3>5. \/ told'[l] = told[l]
          \/ l \in sent /\ told'[l] = "sent"
          \/ l \in LinesOf(call) /\ l \notin sent /\ told'[l] = "not sent"
      <4> DEFINE new == [x \in Lines |-> IF x \in sent THEN "sent"
                                        ELSE IF x \in LinesOf(call) THEN "not sent" ELSE told[x]]
      <4>1. told' = told \/ told' = new
        BY <1>11 DEF CallThrows, Receipt
      <4>2. \/ new[l] = told[l]
            \/ l \in sent /\ new[l] = "sent"
            \/ l \in LinesOf(call) /\ l \notin sent /\ new[l] = "not sent"
        OBVIOUS
      <4> HIDE DEF new
      <4> QED BY <4>1, <4>2
    <3> QED BY <3>2, <3>3, <3>4, <3>5
  <2> QED BY <2>1 DEF ToldInv
<1>12. CASE Abort
  BY <1>12, <1>a, <1>c, <1>d, <1>e, ToldStays DEF Abort
<1>13. CASE ScriptEnds
  BY <1>13, <1>a, <1>c, <1>d, <1>e, ToldStays DEF ScriptEnds
<1>14. CASE GraceEnds
  <2>1. ASSUME NEW l \in Lines
        PROVE  /\ told'[l] = "not sent" =>
                    CallOf(l) # call' /\ (tool' \in {"asked", "running"} => CallOf(l) <= begun')
               /\ TellsOf(told[l], l)'
    <3>1. told'[l] = "unknown" \/ told'[l] = told[l]
      BY <1>14, <1>a, <1>c, <1>d, <1>e DEF GraceEnds, Says
    <3>2. Excused(l) => Excused(l)'
      BY <1>14, <1>a, <1>c, <1>d, <1>e DEF GraceEnds, Excused
    <3>3. Founded(l) => Founded(l)'
      BY <1>14, <1>a, <1>c, <1>d, <1>e DEF GraceEnds, Founded
    <3>4. call' = call /\ begun' = begun /\ discord' = discord /\ tool' = "settled"
      BY <1>14, <1>a, <1>c, <1>d, <1>e DEF GraceEnds
    <3> QED BY <1>a, <1>d, <3>1, <3>2, <3>3, <3>4 DEF ToldInv, TellsOf
  <2> QED BY <2>1 DEF ToldInv
<1>15. CASE ToolDone
  BY <1>15, <1>a, <1>c, <1>d, <1>e, ToldStays DEF ToolDone
<1>16. CASE Log
  BY <1>16, <1>a, <1>c, <1>d, <1>e, ToldStays DEF Log
<1>17. CASE Crash
  <2>1. \A l \in Lines : told'[l] = "silent"
    BY <1>17, <1>a, <1>c, <1>d, <1>e DEF Crash
  <2> QED BY <2>1 DEF ToldInv, TellsOf
<1>18. CASE Repair
  BY <1>18, <1>a, <1>c, <1>d, <1>e, RepairTells
<1> QED BY <1>1, <1>2, <1>3, <1>4, <1>5, <1>6, <1>7, <1>8, <1>9, <1>10, <1>11, <1>12, <1>13,
          <1>14, <1>15, <1>16, <1>17, <1>18 DEF Next

\* Nothing has been tried.
LEMMA InitInv ==
  ASSUME Init
  PROVE  IInv
<1> USE PlanFacts DEF Init, input
<1>1. TypeOK
  <2>1. text \in [Lines \cup {0} -> Texts] /\ place \in [Calls -> Places]
    OBVIOUS
  <2>2. [start |-> FALSE, plans |-> {}, tried |-> {}, booked |-> {}, ended |-> {},
         listed |-> [c \in Calls |-> {}], done |-> FALSE]
          \in [start : BOOLEAN, plans : SUBSET Calls, tried : SUBSET Lines, booked : SUBSET Lines,
               ended : SUBSET Calls, listed : [Calls -> SUBSET Lines], done : BOOLEAN]
    OBVIOUS
  <2>3. aborted \in BOOLEAN
    <3>1. FALSE \in BOOLEAN
      OBVIOUS
    <3> QED BY <3>1, Zenon DEF Init
  <2>4. faults \in 0..MaxFaults /\ begun \in 0..Len(Plan)
    OBVIOUS
  <2> QED BY <2>1, <2>2, <2>3, <2>4 DEF TypeOK, Said
<1>2. CallRuns /\ CallBooks /\ Journal /\ InItsOrder
  BY DEF CallRuns, CallBooks, Journal, InItsOrder
<1>3. EndedLists /\ Accounted /\ ToldInv
  BY DEF EndedLists, Accounted, ToldInv, TellsOf
<1> QED BY <1>1, <1>2, <1>3 DEF IInv

\* A step that changes nothing.
LEMMA Stutter ==
  ASSUME IInv, UNCHANGED vars
  PROVE  IInv'
<1> USE DEF vars, input, cursor, ghosts
<1>1. TypeOK'
  BY DEF IInv, TypeOK
<1>2. CallRuns' /\ CallBooks'
  BY DEF IInv, CallRuns, CallBooks, Line, More, Booked
<1>3. Journal' /\ InItsOrder'
  BY DEF IInv, Journal, InItsOrder, Line, More, Booked
<1>4. EndedLists' /\ Accounted'
  BY DEF IInv, EndedLists, Accounted, Excused, Founded, Line, More, Booked
<1>5. ToldInv'
  BY DEF IInv, ToldInv, TellsOf, Excused, Founded, Line, More, Booked
<1> QED BY <1>1, <1>2, <1>3, <1>4, <1>5 DEF IInv

\* The invariant holds throughout.
LEMMA Invariance == Spec => []IInv
<1>1. Init => IInv
  BY InitInv
<1>2. IInv /\ [Next]_vars => IInv'
  <2> SUFFICES ASSUME IInv, [Next]_vars PROVE IInv'
    OBVIOUS
  <2>1. CASE Next
    <3>1. JournalType' /\ RunType' /\ ToldType'
      BY <2>1, JournalTypeStep, RunTypeStep, ToldTypeStep
    <3>2. TypeOK'
      BY <3>1 DEF TypeOK, JournalType, RunType, ToldType
    <3> QED BY <2>1, <3>2, RunsStep, JournalStep, ListsStep, AccountStep, ToldStep DEF IInv
  <2>2. CASE UNCHANGED vars
    BY <2>2, Stutter
  <2> QED BY <2>1, <2>2
<1> QED BY <1>1, <1>2, PTL DEF Spec

-----------------------------------------------------------------------------
(* Theorems *)

\* A send that began is never told as not sent, by a receipt or by boot repair,
\* for any script and any crash, but for the causes that are named.
THEOREM SendIsNotDenied == Spec => []ToldAsItIs
<1>1. ASSUME IInv PROVE ToldAsItIs
  <2>1. ASSUME NEW l \in Denied PROVE Excused(l)
    BY <1>1 DEF IInv, ToldInv, TellsOf, Denied
  <2>2. SentIsNotDenied
    BY <2>1 DEF SentIsNotDenied, Excused
  <2> QED BY <1>1, <2>2 DEF IInv, ToldAsItIs
<1> QED BY <1>1, Invariance, PTL

\* What she is told was sent is on Discord, or was taken for a message of
\* another call that says the same in the same place.
THEOREM ClaimIsFounded == Spec => []ClaimedIsSent
<1>1. ASSUME IInv PROVE ClaimedIsSent
  BY <1>1 DEF IInv, ToldInv, TellsOf, Founded, Claimed, ClaimedIsSent
<1> QED BY <1>1, Invariance, PTL

(***************************************************************************)
(* Her wakeups.  The invariant accounts for every wake that is out, part   *)
(* by part: timed ones against what the side file and the tick will        *)
(* record, held matches against the message they came from, the once watch *)
(* against the message it fired for, the repeating one against its fires.  *)
(***************************************************************************)
\* The wakes of a message are matches of that message, and it has some only
\* once it matched.
OwnWakes ==
  \A m \in Msgs :
    /\ msg[m].wakes \subseteq {Match("o", m), Match("r", m)}
    /\ msg[m].wakes # {} => msg[m].pc \in {"matched", "done"}

\* The tick routes only what it will mark, marks it before it removes
\* anything, and has rung only a match it read.
TickOrder ==
  /\ tick.left \subseteq tick.marks
  /\ tick.pc # "route" => tick.left = {}
  /\ tick.pc = "rewrite" => tick.marks \subseteq fired
  /\ tick.rang => tick.held # {} /\ tick.pc = "release"

\* What this tick has routed so far, of what it will mark.
RoutedNow == IF tick.pc \in {"route", "mark"} THEN tick.marks \ tick.left ELSE {}

\* Every timed wake with her was recorded, or the tick will record it, or it
\* ended before it could; none of those it has still to route is with her.
TimedAccount ==
  /\ Out \intersect TimedWakes \subseteq fired \union again \union RoutedNow
  /\ RoutedNow \subseteq Out
  /\ tick.left \intersect Out \subseteq again
  /\ \A w \in TimedWakes \ again :
       /\ ~(w \in queue /\ w \in deferred)
       /\ ~(w \in queue /\ w \in heard)
       /\ ~(w \in deferred /\ w \in heard)
       /\ w \notin twice

\* What the tick will remove from her file is recorded, or among what it marks.
RemovalAccount ==
  tick.pc \in {"route", "mark", "rewrite"} =>
    /\ "a" \in tick.gone => At(tick.due) \in fired \union tick.marks
    /\ "o" \in tick.gone => {End, OnceKey} \intersect (fired \union tick.marks) # {}

\* Why a held match may ring twice.
MayRingAgain(m) ==
  Held(m) \in again \/ "held" \in crossed \/ Match("o", m) \in cutOff

\* A match is held, or has rung, only once its message was handled; one that
\* rang is held no more, or the tick is about to clear it.
HeldBook(m) ==
  /\ m \in held \/ Held(m) \in Out =>
       \/ msg[m].pc = "done"
       \/ msg[m].pc = "matched" /\ Match("o", m) \in msg[m].wakes
  /\ Held(m) \in Out /\ m \in held => tick.rang /\ m \in tick.held
  /\ ~(Held(m) \in queue /\ Held(m) \in deferred)
  /\ ~(Held(m) \in queue /\ Held(m) \in heard)
  /\ ~(Held(m) \in deferred /\ Held(m) \in heard)
  /\ Held(m) \notin twice

\* The match the tick read is the one held.
HeldAccount ==
  /\ "held" \in crossed \/ tick.held = {} \/ held = tick.held
  /\ \A m \in Msgs : MayRingAgain(m) \/ HeldBook(m)

\* The match of the once watch is with her or on its way.
FiredFor(m) ==
  \/ Match("o", m) \in Out
  \/ msg[m].pc = "matched" /\ Match("o", m) \in msg[m].wakes

OnceAccount ==
  /\ OnceKey \notin fired => \A m \in Msgs : ~FiredFor(m)
  /\ \A m, n \in Msgs : FiredFor(m) /\ FiredFor(n) => m = n
  /\ OnceKey \in fired => \E m \in Msgs : FiredFor(m) \/ Match("o", m) \in cutOff
  /\ OnceKey \in fired /\ End \in Out \union tick.marks => "end" \in crossed

\* Her side file counts every ring, but the one the tick is about to count;
\* a match it has still to ring is at its spacing and under the cap.
RepeatAccount ==
  \/ "held" \in crossed
  \/ again \intersect HeldWakes # {}
  \/ /\ rung = IF tick.rang THEN Append(fires, tick.at) ELSE fires
     /\ tick.held # {} /\ ~tick.rang =>
          /\ UnderCap
          /\ Spaced(tick.at)
     /\ Len(rung) <= MaxFires
     /\ ~tooSoon

RingInv == /\ WakeupsTypeOK /\ OwnWakes /\ TickOrder /\ RecordedIsOut /\ TimedAccount
           /\ RemovedIsRecorded /\ RemovalAccount /\ HeldAccount
WatchInv == OnceAccount /\ RepeatAccount
WakeInv == RingInv /\ WatchInv
-----------------------------------------------------------------------------
(* Wakes *)

\* The wakes of a life are told apart: timed ones, matches and held matches
\* never share an id.
LEMMA WakeFacts ==
  /\ \A t \in DueAt : At(t) \in TimedWakes
  /\ \A t \in Times : EveryAt(t) \in TimedWakes
  /\ End \in TimedWakes /\ OnceKey \notin Wakes /\ End # OnceKey
  /\ \A t : End # At(t) /\ End # EveryAt(t)
  /\ \A m \in Msgs : Match("o", m) \in MatchWakes /\ Match("r", m) \in MatchWakes
                     /\ Held(m) \in HeldWakes
  /\ \A m : Match("o", m) # Match("r", m)
  /\ \A m, n : m # n => /\ Match("o", m) # Match("o", n) /\ Held(m) # Held(n)
  /\ \A m, n : Match("o", m) # Match("r", n)
  /\ TimedWakes \intersect MatchWakes = {} /\ TimedWakes \intersect HeldWakes = {}
  /\ MatchWakes \intersect HeldWakes = {}
<1>1. /\ \A t \in DueAt : At(t) \in TimedWakes
      /\ \A t \in Times : EveryAt(t) \in TimedWakes
      /\ End \in TimedWakes /\ OnceKey \notin Wakes /\ End # OnceKey
  BY DEF TimedWakes, Wakes, MatchWakes, HeldWakes, At, EveryAt, End, OnceKey, Match, Held
<1>2. /\ \A t : End # At(t) /\ End # EveryAt(t)
      /\ \A m \in Msgs : Match("o", m) \in MatchWakes /\ Match("r", m) \in MatchWakes
                         /\ Held(m) \in HeldWakes
      /\ \A m : Match("o", m) # Match("r", m)
      /\ \A m, n : m # n => /\ Match("o", m) # Match("o", n) /\ Held(m) # Held(n)
      /\ \A m, n : Match("o", m) # Match("r", n)
  BY DEF MatchWakes, HeldWakes, At, EveryAt, End, Match, Held
<1>3. TimedWakes \intersect MatchWakes = {}
  BY DEF TimedWakes, MatchWakes, At, EveryAt, End, Match
<1>4. TimedWakes \intersect HeldWakes = {}
  BY DEF TimedWakes, HeldWakes, At, EveryAt, End, Held
<1>5. MatchWakes \intersect HeldWakes = {}
  BY DEF MatchWakes, HeldWakes, Held, Match
<1> QED BY <1>1, <1>2, <1>3, <1>4, <1>5

\* The latest time of the repeating wakeup is a time of the clock.
LEMMA LatestIsATime ==
  ASSUME now \in Times, since \in Times
  PROVE  Latest \in Times
<1> DEFINE past == {t \in since + 1 .. now : t % Period = 0}
           away == {now - t : t \in past}
<1>1. past \subseteq Times
  BY WakeupsAssumption DEF Times
<1>2. CASE past = {}
  BY <1>2, WakeupsAssumption DEF Latest, Times
<1>3. CASE past # {}
  <2>1. away \subseteq Nat /\ away # {}
    BY <1>3, WakeupsAssumption DEF Times
  <2> HIDE DEF away
  <2>2. PICK n \in away : \A k \in away : n <= k
    BY <2>1, SmallestOf
  <2> USE DEF away
  <2>3. PICK t \in past : n = now - t
    BY <2>2
  <2>4. \A u \in past : u <= t
    <3> TAKE u \in past
    <3>1. now - u \in away /\ n <= now - u
      BY <2>2
    <3> QED BY <3>1, <2>3, <1>1, WakeupsAssumption DEF Times
  <2>5. Latest = CHOOSE v \in past : \A u \in past : u <= v
    BY <1>3 DEF Latest
  <2> HIDE DEF past
  <2>6. Latest \in past
    BY <2>3, <2>4, <2>5
  <2> QED BY <2>6, <1>1
<1> QED BY <1>2, <1>3

\* What a tick reads is made of timed wakes, not recorded yet.
LEMMA FreshFacts ==
  ASSUME WakeupsTypeOK
  PROVE  /\ DueTimed \union EndedWakes \subseteq TimedWakes \ fired
         /\ DueHeld \subseteq held
         /\ Latest \in Times
<1>1. Latest \in Times
  BY LatestIsATime DEF WakeupsTypeOK
<1>2. At(due) \in TimedWakes /\ EveryAt(Latest) \in TimedWakes /\ End \in TimedWakes
  BY <1>1, WakeFacts DEF WakeupsTypeOK
<1>3. DueAts \subseteq {At(due)} /\ DueEvery \subseteq {EveryAt(Latest)}
  BY DEF DueAts, DueEvery
<1>4. DueTimed \subseteq TimedWakes \ fired
  BY <1>2, <1>3 DEF DueTimed
<1>5. EndedWakes \subseteq TimedWakes \ fired
  BY <1>2 DEF EndedWakes
<1>6. DueHeld \subseteq held
  BY DEF DueHeld
<1> QED BY <1>1, <1>4, <1>5, <1>6
-----------------------------------------------------------------------------
(* Routing *)

\* What a call of the router does to what is out: the wakes come in, each to
\* one place.
LEMMA RouteEffect ==
  ASSUME NEW ws, Route(ws), heard' = heard
  PROVE  /\ Out' = Out \union ws
         /\ queue \subseteq queue' /\ deferred \subseteq deferred' /\ dropped \subseteq dropped'
         /\ queue' \subseteq queue \union ws
         /\ deferred' \subseteq deferred \union ws
         /\ dropped' \subseteq dropped \union ws
         /\ queue' = queue \/ deferred' = deferred
<1>1. CASE paused
  BY <1>1 DEF Route, Out
<1>2. CASE ~paused /\ over
  BY <1>2 DEF Route, Out
<1>3. CASE ~paused /\ ~over
  BY <1>3 DEF Route, Out
<1> QED BY <1>1, <1>2, <1>3

-----------------------------------------------------------------------------
(* Types *)

WorldType ==
  /\ now \in Times /\ up \in BOOLEAN /\ paused \in BOOLEAN
  /\ over \in BOOLEAN /\ clean \in BOOLEAN /\ spoke \in Times
DiskType ==
  /\ file \subseteq known /\ known \in Starts /\ due \in DueAt
  /\ fired \subseteq TimedWakes \union {OnceKey}
  /\ since \in Times /\ fires \in Seq(Times) /\ held \subseteq Msgs
TickType ==
  tick \in [pc : {"idle", "route", "mark", "rewrite", "held", "release"},
            left : SUBSET TimedWakes, marks : SUBSET TimedWakes,
            gone : SUBSET Ids, due : DueAt \union {0}, count : Times,
            held : SUBSET Msgs, rang : BOOLEAN, at : Times]
MsgType ==
  msg \in [Msgs -> [pc : {"none", "posted", "looked", "matched", "done"},
                    posted : Times, at : Times, sent : Times,
                    saw : SUBSET {"o", "r"}, wakes : SUBSET MatchWakes]]
InboxType ==
  /\ queue \subseteq Wakes /\ deferred \subseteq Wakes
  /\ heard \subseteq Wakes /\ twice \subseteq heard
  /\ dropped \subseteq Wakes
GhostType ==
  /\ upsets \in 0 .. MaxUpsets[known]
  /\ cutOff \subseteq MatchWakes
  /\ again \subseteq TimedWakes \union HeldWakes
  /\ letGo \subseteq TimedWakes
  /\ rung \in Seq(Times) /\ tooSoon \in BOOLEAN
  /\ crossed \subseteq {"end", "held"}

LEMMA TypeParts ==
  WakeupsTypeOK <=> /\ WorldType /\ DiskType /\ TickType /\ MsgType /\ InboxType /\ GhostType
BY DEF WakeupsTypeOK, WorldType, DiskType, TickType, MsgType, InboxType, GhostType

LEMMA NoTickType ==
  /\ NoTick \in [pc : {"idle", "route", "mark", "rewrite", "held", "release"},
            left : SUBSET TimedWakes, marks : SUBSET TimedWakes,
            gone : SUBSET Ids, due : DueAt \union {0}, count : Times,
            held : SUBSET Msgs, rang : BOOLEAN, at : Times]
  /\ Unposted \in [pc : {"none", "posted", "looked", "matched", "done"},
                    posted : Times, at : Times, sent : Times,
                    saw : SUBSET {"o", "r"}, wakes : SUBSET MatchWakes]
BY WakeupsAssumption DEF NoTick, Unposted, Times

\* What a message sees when it is looked at.
LEMMA LookEffect ==
  ASSUME MsgType, NEW m \in Msgs, Look(m)
  PROVE  \E p \in {"done", "looked"}, s \in SUBSET {"o", "r"} :
           msg' = [msg EXCEPT ![m] = [msg[m] EXCEPT !.pc = p, !.saw = s, !.at = now,
                                                    !.sent = spoke]]
<1>1. PICK s \in SUBSET {"o", "r"} :
        msg' = [msg EXCEPT ![m].pc = IF s = {} THEN "done" ELSE "looked",
                           ![m].saw = s, ![m].at = now, ![m].sent = spoke]
  BY DEF Look
<1>2. PICK p \in {"done", "looked"} :
        msg' = [msg EXCEPT ![m].pc = p, ![m].saw = s, ![m].at = now, ![m].sent = spoke]
  BY <1>1
<1>3. msg' = [msg EXCEPT ![m] = [msg[m] EXCEPT !.pc = p, !.saw = s, !.at = now,
                                               !.sent = spoke]]
  BY <1>2 DEF MsgType
<1> QED BY <1>3

LEMMA WorldTypeStep ==
  ASSUME WakeupsTypeOK, WakeupsNext
  PROVE  WorldType'
<1> USE DEF WorldType
<1>0. WorldType
  BY TypeParts
<1>1. CASE TickSteps \/ TickFails
  <2>1. UNCHANGED world /\ UNCHANGED clean
    BY <1>1 DEF TickSteps, Tick, TickRoutes, TickMarks, TickRewrites, TickHeld, TickReleases,
       TickFails, disk, world
  <2> QED BY <1>0, <2>1 DEF world
<1>2. ASSUME NEW m \in Msgs, Post(m) \/ Look(m) \/ Fire(m) \/ RouteMatch(m) PROVE WorldType'
  <2>1. UNCHANGED world /\ UNCHANGED clean
    BY <1>2 DEF Post, Look, Fire, RouteMatch, disk, world
  <2> QED BY <1>0, <2>1 DEF world
<1>3. CASE Turn \/ ReleaseDeferred
  BY <1>0, <1>3 DEF Turn, ReleaseDeferred, disk, world
<1>4. ASSUME NEW new \in SUBSET known, NEW d \in DueAt, HerWrite(new, d) PROVE WorldType'
  BY <1>0, <1>4 DEF HerWrite, world
<1>5. CASE FileBreaks \/ Pause \/ Resume \/ Spend \/ NewDay
  BY <1>0, <1>5 DEF FileBreaks, Pause, Resume, Spend, NewDay, disk, world
<1>6. CASE ProcessStops \/ Restart
  BY <1>0, <1>6 DEF ProcessStops, Restart, disk, world
<1>7. CASE Clock
  BY <1>0, <1>7, WakeupsAssumption DEF Clock, Times, disk
<1> QED BY <1>1, <1>2, <1>3, <1>4, <1>5, <1>6, <1>7 DEF WakeupsNext

LEMMA DiskTypeStep ==
  ASSUME WakeupsTypeOK, WakeupsNext
  PROVE  DiskType'
<1> USE DEF DiskType
<1>0. DiskType /\ TickType /\ MsgType /\ WorldType
  BY TypeParts
<1>1. CASE TickSteps
  <2>1. CASE Tick \/ TickRoutes \/ TickHeld
    BY <1>0, <2>1 DEF Tick, TickRoutes, TickHeld, disk, side, happened
  <2>2. CASE TickMarks
    BY <1>0, <2>2 DEF TickMarks, happened, TickType
  <2>3. CASE TickRewrites
    BY <1>0, <2>3 DEF TickRewrites, TickFile, Rewritten, happened, TickType
  <2>4. CASE TickReleases
    BY <1>0, <2>4 DEF TickReleases, happened, TickType
  <2> QED BY <1>1, <2>1, <2>2, <2>3, <2>4 DEF TickSteps
<1>2. ASSUME NEW m \in Msgs, Post(m) \/ Look(m) \/ RouteMatch(m) PROVE DiskType'
  BY <1>0, <1>2 DEF Post, Look, RouteMatch, disk, side, happened
<1>3. ASSUME NEW m \in Msgs, Fire(m) PROVE DiskType'
  <2>1. /\ file' \subseteq file /\ known' = known /\ due' = due /\ since' = since
        /\ fired' \subseteq fired \union {OnceKey}
        /\ held' \subseteq held \union {m}
        /\ fires' = fires \/ fires' = Append(fires, msg[m].at)
    BY <1>3 DEF Fire, Rewritten
  <2>2. msg[m].at \in Times
    BY <1>0 DEF MsgType
  <2> QED BY <1>0, <2>1, <2>2
<1>4. ASSUME NEW new \in SUBSET known, NEW d \in DueAt, HerWrite(new, d) PROVE DiskType'
  BY <1>0, <1>4, WakeupsAssumption DEF HerWrite, WorldType
<1>5. CASE ProcessStops
  BY <1>0, <1>5 DEF ProcessStops, side, TickFile, Rewritten
<1>6. CASE Turn \/ ReleaseDeferred \/ FileBreaks \/ Pause \/ Resume \/ Spend \/ NewDay \/ Restart \/ Clock \/ TickFails
  BY <1>0, <1>6 DEF Turn, ReleaseDeferred, FileBreaks, Pause, Resume, Spend, NewDay, Restart,
     Clock, TickFails, disk, side, happened
<1> QED BY <1>1, <1>2, <1>3, <1>4, <1>5, <1>6 DEF WakeupsNext

LEMMA TickTypeStep ==
  ASSUME WakeupsTypeOK, WakeupsNext
  PROVE  TickType'
<1>0. DiskType /\ TickType /\ WorldType
  BY TypeParts
<1>1. CASE Tick
  <2>1. /\ DueTimed \union EndedWakes \subseteq TimedWakes /\ DueHeld \subseteq Msgs
        /\ Latest \in Times /\ now \in Times /\ due \in DueAt /\ 0 \in Times
    BY <1>0, FreshFacts, WakeupsAssumption DEF DiskType, WorldType, Times
  <2> HIDE DEF DueTimed, EndedWakes, DueHeld, Latest, DueEvery, DueAts, Ended
  <2> QED BY <1>1, <2>1 DEF Tick, BeginTick, TickType, Ids
<1>2. CASE TickRoutes
  <2>1. PICK w \in tick.left :
          tick' = [tick EXCEPT !.left = @ \ {w},
                               !.pc = IF tick.left = {w} THEN "mark" ELSE @]
    BY <1>2 DEF TickRoutes
  <2>2. tick.left \ {w} \in SUBSET TimedWakes
    BY <1>0 DEF TickType
  <2> QED BY <1>0, <2>1, <2>2 DEF TickType
<1>3. CASE TickMarks \/ TickRewrites
  BY <1>0, <1>3 DEF TickMarks, TickRewrites, TickType
<1>4. CASE TickHeld
  <2>1. CASE tick.held = {}
    BY <1>4, <2>1, NoTickType DEF TickHeld, TickType
  <2>2. CASE tick.held # {}
    BY <1>0, <1>4, <2>2 DEF TickHeld, TickType
  <2> QED BY <2>1, <2>2
<1>5. CASE TickReleases \/ TickFails \/ ProcessStops
  BY <1>5, NoTickType DEF TickReleases, TickFails, ProcessStops, TickType
<1>6. ASSUME NEW m \in Msgs, Post(m) \/ Look(m) \/ Fire(m) \/ RouteMatch(m) PROVE TickType'
  BY <1>0, <1>6 DEF Post, Look, Fire, RouteMatch, TickType
<1>7. ASSUME NEW new \in SUBSET known, NEW d \in DueAt, HerWrite(new, d) PROVE TickType'
  BY <1>0, <1>7 DEF HerWrite, TickType
<1>8. CASE Turn \/ ReleaseDeferred \/ FileBreaks \/ Pause \/ Resume \/ Spend \/ NewDay \/ Restart \/ Clock
  BY <1>0, <1>8 DEF Turn, ReleaseDeferred, FileBreaks, Pause, Resume, Spend, NewDay, Restart,
     Clock, TickType
<1> QED BY <1>1, <1>2, <1>3, <1>4, <1>5, <1>6, <1>7, <1>8 DEF WakeupsNext, TickSteps

LEMMA MsgTypeStep ==
  ASSUME WakeupsTypeOK, WakeupsNext
  PROVE  MsgType'
<1>0. MsgType /\ WorldType
  BY TypeParts
<1>1. ASSUME NEW m \in Msgs, Post(m) PROVE MsgType'
  BY <1>0, <1>1, NoTickType DEF Post, MsgType, WorldType, Unposted
<1>2. ASSUME NEW m \in Msgs, Look(m) PROVE MsgType'
  <2> DEFINE Kept == [pc : {"none", "posted", "looked", "matched", "done"},
                      posted : Times, at : Times, sent : Times,
                      saw : SUBSET {"o", "r"}, wakes : SUBSET MatchWakes]
  <2>1. PICK s \in SUBSET {"o", "r"}, p \in {"done", "looked"} :
          msg' = [msg EXCEPT ![m] = [msg[m] EXCEPT !.pc = p, !.saw = s, !.at = now,
                                                   !.sent = spoke]]
    BY <1>0, <1>2, LookEffect
  <2>2. [msg[m] EXCEPT !.pc = p, !.saw = s, !.at = now, !.sent = spoke] \in Kept
    BY <1>0 DEF MsgType, WorldType
  <2>3. msg \in [Msgs -> Kept]
    BY <1>0 DEF MsgType
  <2> HIDE DEF Kept
  <2>4. msg' \in [Msgs -> Kept]
    BY <2>1, <2>2, <2>3
  <2> QED BY <2>4 DEF MsgType, Kept
<1>3. ASSUME NEW m \in Msgs, Fire(m) PROVE MsgType'
  <2>1. PICK fire \in SUBSET {"o", "r"} :
          msg' = [msg EXCEPT ![m].pc = IF fire = {} THEN "done" ELSE "matched",
                             ![m].wakes = WakesOf(m, fire)]
    BY <1>3 DEF Fire
  <2>2. WakesOf(m, fire) \subseteq MatchWakes
    BY DEF WakesOf, MatchWakes
  <2> DEFINE new == WakesOf(m, fire)
  <2> HIDE DEF new
  <2>3. \A p \in {"done", "matched"} :
          [msg EXCEPT ![m].pc = p, ![m].wakes = new] \in
            [Msgs -> [pc : {"none", "posted", "looked", "matched", "done"},
                      posted : Times, at : Times, sent : Times,
                      saw : SUBSET {"o", "r"}, wakes : SUBSET MatchWakes]]
    BY <1>0, <2>2 DEF MsgType, new
  <2> QED BY <2>1, <2>3 DEF MsgType, new
<1>4. ASSUME NEW m \in Msgs, RouteMatch(m) PROVE MsgType'
  BY <1>0, <1>4 DEF RouteMatch, MsgType
<1>5. CASE ProcessStops
  BY <1>0, <1>5, NoTickType DEF ProcessStops, MsgType, Unposted
<1>6. CASE TickSteps \/ TickFails
  <2>1. msg' = msg
    BY <1>6 DEF TickSteps, Tick, TickRoutes, TickMarks, TickRewrites, TickHeld, TickReleases,
       TickFails
  <2> QED BY <1>0, <2>1 DEF MsgType
<1>7. ASSUME NEW new \in SUBSET known, NEW d \in DueAt, HerWrite(new, d) PROVE MsgType'
  BY <1>0, <1>7 DEF HerWrite, MsgType
<1>8. CASE Turn \/ ReleaseDeferred \/ FileBreaks \/ Pause \/ Resume \/ Spend \/ NewDay \/ Restart \/ Clock
  BY <1>0, <1>8 DEF Turn, ReleaseDeferred, FileBreaks, Pause, Resume, Spend, NewDay, Restart,
     Clock, MsgType
<1> QED BY <1>1, <1>2, <1>3, <1>4, <1>5, <1>6, <1>7, <1>8 DEF WakeupsNext

LEMMA InboxTypeStep ==
  ASSUME WakeupsTypeOK, WakeupsNext
  PROVE  InboxType'
<1> USE DEF InboxType
<1>0. InboxType /\ TickType /\ MsgType
  BY TypeParts
<1>1. CASE TickRoutes
  <2>1. PICK w \in tick.left : Route({w})
    BY <1>1 DEF TickRoutes
  <2>2. w \in Wakes
    BY <1>0 DEF TickType, Wakes
  <2>3. heard' = heard /\ twice' = twice
    BY <1>1 DEF TickRoutes
  <2> HIDE DEF Wakes
  <2> QED BY <1>0, <2>1, <2>2, <2>3, RouteEffect
<1>2. CASE TickHeld
  <2>1. PICK ms \in SUBSET tick.held : Route({Held(m) : m \in ms})
    BY <1>2 DEF TickHeld
  <2>2. {Held(m) : m \in ms} \subseteq Wakes
    BY <1>0 DEF TickType, Wakes, HeldWakes
  <2>3. heard' = heard /\ twice' = twice
    BY <1>2 DEF TickHeld
  <2> HIDE DEF Wakes
  <2> QED BY <1>0, <2>1, <2>2, <2>3, RouteEffect
<1>3. ASSUME NEW m \in Msgs, RouteMatch(m) PROVE InboxType'
  <2>1. Route(msg[m].wakes) /\ heard' = heard /\ twice' = twice
    BY <1>3 DEF RouteMatch
  <2>2. msg[m].wakes \subseteq Wakes
    BY <1>0 DEF MsgType, Wakes
  <2> HIDE DEF Wakes
  <2> QED BY <1>0, <2>1, <2>2, RouteEffect
<1>4. CASE Turn
  BY <1>0, <1>4 DEF Turn
<1>5. CASE ReleaseDeferred
  BY <1>0, <1>5 DEF ReleaseDeferred, happened
<1>6. CASE Tick \/ TickMarks \/ TickRewrites \/ TickReleases \/ TickFails
  BY <1>0, <1>6 DEF Tick, TickMarks, TickRewrites, TickReleases, TickFails, inbox, happened
<1>7. ASSUME NEW m \in Msgs, Post(m) \/ Look(m) \/ Fire(m) PROVE InboxType'
  BY <1>0, <1>7 DEF Post, Look, Fire, inbox, happened
<1>8. ASSUME NEW new \in SUBSET known, NEW d \in DueAt, HerWrite(new, d) PROVE InboxType'
  BY <1>0, <1>8 DEF HerWrite, inbox
<1>9. CASE FileBreaks \/ Pause \/ Resume \/ Spend \/ NewDay \/ Restart \/ Clock \/ ProcessStops
  BY <1>0, <1>9 DEF FileBreaks, Pause, Resume, Spend, NewDay, Restart, Clock, ProcessStops, inbox,
     happened
<1> QED BY <1>1, <1>2, <1>3, <1>4, <1>5, <1>6, <1>7, <1>8, <1>9 DEF WakeupsNext, TickSteps

\* A tick that ends early leaves timed wakes and held matches unrecorded.
LEMMA UnrecordedType ==
  ASSUME TickType
  PROVE  Unrecorded \subseteq TimedWakes \union HeldWakes
<1>1. {Held(m) : m \in tick.held} \subseteq HeldWakes
  BY DEF TickType, HeldWakes
<1>2. tick.marks \subseteq TimedWakes
  BY DEF TickType
<1> QED BY <1>1, <1>2 DEF Unrecorded

\* What a crash cuts off are matches.
LEMMA CutType ==
  ASSUME MsgType, ProcessStops
  PROVE  /\ cutOff \subseteq cutOff'
         /\ UNION {msg[m].wakes : m \in Handling} \subseteq cutOff'
         /\ cutOff' \subseteq cutOff \union MatchWakes
<1>1. UNION {msg[m].wakes : m \in Handling} \subseteq MatchWakes
  BY DEF MsgType, Handling
<1>2. \A m \in Msgs : Match("o", m) \in MatchWakes
  BY WakeFacts
<1>3. Handling \subseteq Msgs
  BY DEF Handling
<1> HIDE DEF Handling
<1> DEFINE cut == UNION {msg[m].wakes : m \in Handling}
<1> HIDE DEF cut
<1>4. \/ cutOff' = cutOff \union cut
      \/ \E m \in Handling : cutOff' = cutOff \union {Match("o", m)} \union cut
  BY DEF ProcessStops, cut
<1>5. cut \subseteq MatchWakes
  BY <1>1 DEF cut
<1>6. cut \subseteq cutOff' /\ cutOff \subseteq cutOff' /\ cutOff' \subseteq cutOff \union MatchWakes
  BY <1>4, <1>5, <1>2, <1>3
<1> QED BY <1>6 DEF cut

LEMMA GhostTypeStep ==
  ASSUME WakeupsTypeOK, WakeupsNext
  PROVE  GhostType'
<1> USE DEF GhostType
<1>0. GhostType /\ TickType /\ MsgType /\ DiskType /\ WorldType /\ MaxUpsets[known] \in Nat
  BY TypeParts, WakeupsAssumption DEF DiskType
<1>1. ASSUME Upset, known' = known PROVE upsets' \in 0 .. MaxUpsets'[known']
  BY <1>0, <1>1 DEF Upset
<1>2. CASE TickFails
  <2>1. again' = again \union Unrecorded
    BY <1>2 DEF TickFails
  <2>2. again' \subseteq TimedWakes \union HeldWakes
    BY <1>0, <2>1, UnrecordedType
  <2> QED BY <1>0, <1>1, <1>2, <2>2 DEF TickFails
<1>3. CASE ProcessStops
  <2>1. again' = again \union Unrecorded
    BY <1>3 DEF ProcessStops
  <2>2. again' \subseteq TimedWakes \union HeldWakes
    BY <1>0, <2>1, UnrecordedType
  <2>3. cutOff' \subseteq MatchWakes
    BY <1>0, <1>3, CutType
  <2>4. Upset /\ UNCHANGED <<known, letGo, rung, tooSoon, crossed>>
    BY <1>3 DEF ProcessStops
  <2> QED BY <1>0, <1>1, <2>2, <2>3, <2>4
<1>4. ASSUME NEW n \in Times, NEW wrote \in Times, Rings(n, wrote)
      PROVE  rung' \in Seq(Times) /\ tooSoon' \in BOOLEAN
  <2>1. rung' \in Seq(Times)
    BY <1>0, <1>4 DEF Rings
  <2>2. tooSoon' \in BOOLEAN
    BY <1>0, <1>4 DEF Rings
  <2> QED BY <2>1, <2>2
<1>5. CASE TickHeld
  <2>1. tick.at \in Times /\ 0 \in Times
    BY <1>0, WakeupsAssumption DEF TickType, Times
  <2>2. Rings(tick.at, 0) \/ UNCHANGED <<rung, tooSoon>>
    BY <1>5 DEF TickHeld
  <2>3. rung' \in Seq(Times) /\ tooSoon' \in BOOLEAN
    <3>1. CASE Rings(tick.at, 0)
      BY <2>1, <3>1, <1>4
    <3>2. CASE UNCHANGED <<rung, tooSoon>>
      BY <1>0, <3>2
    <3> QED BY <2>2, <3>1, <3>2
  <2>4. UNCHANGED <<known, upsets, cutOff, again, letGo, crossed>>
    BY <1>5 DEF TickHeld
  <2> QED BY <1>0, <2>3, <2>4
<1>6. ASSUME NEW m \in Msgs, Fire(m) PROVE GhostType'
  <2>1. msg[m].at \in Times /\ msg[m].sent \in Times
    BY <1>0 DEF MsgType
  <2>2. Rings(msg[m].at, msg[m].sent) \/ UNCHANGED <<rung, tooSoon>>
    BY <1>6 DEF Fire
  <2>3. rung' \in Seq(Times) /\ tooSoon' \in BOOLEAN
    <3>1. CASE Rings(msg[m].at, msg[m].sent)
      BY <2>1, <3>1, <1>4
    <3>2. CASE UNCHANGED <<rung, tooSoon>>
      BY <1>0, <3>2
    <3> QED BY <2>2, <3>1, <3>2
  <2>4. UNCHANGED <<known, upsets, cutOff, again, letGo>> /\ crossed' \subseteq crossed \union {"end", "held"}
    BY <1>6 DEF Fire
  <2> QED BY <1>0, <2>3, <2>4
<1>7. ASSUME NEW new \in SUBSET known, NEW d \in DueAt, HerWrite(new, d) PROVE GhostType'
  <2>1. At(due) \in TimedWakes /\ End \in TimedWakes
    BY <1>0, WakeFacts DEF DiskType
  <2>2. letGo' \subseteq TimedWakes
    BY <1>0, <1>7, <2>1 DEF HerWrite
  <2>3. rung' \in Seq(Times) /\ tooSoon' = tooSoon
    BY <1>0, <1>7 DEF HerWrite
  <2>4. Upset /\ UNCHANGED <<known, cutOff, again>> /\ crossed' \subseteq crossed \union {"held"}
    BY <1>7 DEF HerWrite
  <2> QED BY <1>0, <1>1, <2>2, <2>3, <2>4
<1>8. CASE FileBreaks \/ Pause \/ Spend
  <2>1. Upset /\ UNCHANGED happened
    BY <1>8 DEF FileBreaks, Pause, Spend
  <2> QED BY <1>0, <1>1, <2>1 DEF happened
<1>9. CASE Resume \/ NewDay \/ Restart \/ Clock \/ Turn \/ ReleaseDeferred
  BY <1>0, <1>9 DEF Resume, NewDay, Restart, Clock, Turn, ReleaseDeferred, happened
<1>10. CASE Tick \/ TickRoutes \/ TickMarks \/ TickRewrites \/ TickReleases
  BY <1>0, <1>10 DEF Tick, TickRoutes, TickMarks, TickRewrites, TickReleases, happened
<1>11. ASSUME NEW m \in Msgs, Post(m) \/ Look(m) \/ RouteMatch(m) PROVE GhostType'
  BY <1>0, <1>11 DEF Post, Look, RouteMatch, happened
<1> QED BY <1>2, <1>3, <1>5, <1>6, <1>7, <1>8, <1>9, <1>10, <1>11 DEF WakeupsNext, TickSteps

LEMMA WakeTypesStep ==
  ASSUME WakeupsTypeOK, WakeupsNext
  PROVE  WakeupsTypeOK'
<1>1. WorldType' /\ DiskType' /\ TickType' /\ MsgType' /\ InboxType' /\ GhostType'
  BY WorldTypeStep, DiskTypeStep, TickTypeStep, MsgTypeStep, InboxTypeStep, GhostTypeStep
<1> QED BY <1>1 DEF WakeupsTypeOK, WorldType, DiskType, TickType, MsgType, InboxType, GhostType

-----------------------------------------------------------------------------
(* Matches of a message, and the order of a tick *)

LEMMA OwnWakesStep ==
  ASSUME WakeupsTypeOK, OwnWakes, WakeupsNext
  PROVE  OwnWakes'
<1>0. MsgType /\ WorldType
  BY TypeParts
<1>1. ASSUME NEW m \in Msgs, Post(m) PROVE OwnWakes'
  BY <1>0, <1>1 DEF Post, MsgType, OwnWakes, Unposted
<1>2. ASSUME NEW m \in Msgs, Look(m) PROVE OwnWakes'
  <2>1. PICK p \in {"done", "looked"}, s \in SUBSET {"o", "r"} :
          msg' = [msg EXCEPT ![m] = [msg[m] EXCEPT !.pc = p, !.saw = s, !.at = now,
                                                   !.sent = spoke]]
    BY <1>0, <1>2, LookEffect
  <2>2. msg[m].pc = "posted"
    BY <1>2 DEF Look
  <2> QED BY <1>0, <2>1, <2>2 DEF MsgType, OwnWakes
<1>3. ASSUME NEW m \in Msgs, Fire(m) PROVE OwnWakes'
  <2>1. PICK fire \in SUBSET {"o", "r"} :
          msg' = [msg EXCEPT ![m].pc = IF fire = {} THEN "done" ELSE "matched",
                             ![m].wakes = WakesOf(m, fire)]
    BY <1>3 DEF Fire
  <2>2. WakesOf(m, fire) \subseteq {Match("o", m), Match("r", m)}
    BY DEF WakesOf
  <2> DEFINE new == WakesOf(m, fire)
  <2> HIDE DEF new
  <2>3. /\ msg'[m].wakes = new /\ msg'[m].pc \in {"matched", "done"}
        /\ \A n \in Msgs \ {m} : msg'[n] = msg[n]
    BY <1>0, <2>1 DEF MsgType, new
  <2> QED BY <2>2, <2>3 DEF OwnWakes, new
<1>4. ASSUME NEW m \in Msgs, RouteMatch(m) PROVE OwnWakes'
  BY <1>0, <1>4 DEF RouteMatch, MsgType, OwnWakes
<1>5. CASE ProcessStops
  BY <1>0, <1>5 DEF ProcessStops, MsgType, Unposted, OwnWakes
<1>6. CASE TickSteps \/ TickFails
  <2>1. msg' = msg
    BY <1>6 DEF TickSteps, Tick, TickRoutes, TickMarks, TickRewrites, TickHeld, TickReleases,
       TickFails
  <2> QED BY <2>1 DEF OwnWakes
<1>7. ASSUME NEW new \in SUBSET known, NEW d \in DueAt, HerWrite(new, d) PROVE OwnWakes'
  BY <1>7 DEF HerWrite, OwnWakes
<1>8. CASE Turn \/ ReleaseDeferred \/ FileBreaks \/ Pause \/ Resume \/ Spend \/ NewDay \/ Restart \/ Clock
  BY <1>8 DEF Turn, ReleaseDeferred, FileBreaks, Pause, Resume, Spend, NewDay, Restart,
     Clock, OwnWakes
<1> QED BY <1>1, <1>2, <1>3, <1>4, <1>5, <1>6, <1>7, <1>8 DEF WakeupsNext

\* What a tick reads, when it begins.
LEMMA TickReads ==
  ASSUME Tick
  PROVE  LET fresh == DueTimed \union EndedWakes
         IN /\ tick = NoTick
            /\ tick'.pc = IF fresh = {} THEN "rewrite" ELSE "route"
            /\ tick'.left = fresh /\ tick'.marks = fresh
            /\ tick'.gone = {x \in {"a"} : DueAts # {}} \union {x \in {"o"} : Ended}
            /\ tick'.due = due /\ tick'.held = DueHeld /\ tick'.rang = FALSE
            /\ tick'.at = now
            /\ UNCHANGED <<world, disk, inbox, msg, upsets, happened>>
BY DEF Tick, BeginTick

\* A tick routes one of what it has left.
LEMMA TickRoutesOne ==
  ASSUME TickType, TickRoutes
  PROVE  \E w \in tick.left :
           /\ tick.pc = "route" /\ Route({w})
           /\ tick'.left = tick.left \ {w}
           /\ tick'.pc = IF tick.left = {w} THEN "mark" ELSE "route"
           /\ tick'.marks = tick.marks /\ tick'.gone = tick.gone /\ tick'.due = tick.due
           /\ tick'.held = tick.held /\ tick'.rang = tick.rang /\ tick'.at = tick.at
<1>1. PICK w \in tick.left :
        /\ Route({w})
        /\ tick' = [tick EXCEPT !.left = @ \ {w},
                                !.pc = IF tick.left = {w} THEN "mark" ELSE @]
  BY DEF TickRoutes
<1>2. tick.pc = "route"
  BY DEF TickRoutes
<1>3. /\ tick'.left = tick.left \ {w}
      /\ tick'.pc = IF tick.left = {w} THEN "mark" ELSE "route"
      /\ tick'.marks = tick.marks /\ tick'.gone = tick.gone /\ tick'.due = tick.due
      /\ tick'.held = tick.held /\ tick'.rang = tick.rang /\ tick'.at = tick.at
  BY <1>1, <1>2 DEF TickType
<1> QED BY <1>1, <1>2, <1>3

LEMMA NoTickIs ==
  /\ NoTick.pc = "idle" /\ NoTick.left = {} /\ NoTick.marks = {} /\ NoTick.gone = {}
  /\ NoTick.held = {} /\ NoTick.rang = FALSE
BY DEF NoTick

\* A tick marks what it routed, then rewrites her file, then turns to the held
\* match: the rest of what it read stays.
LEMMA TickGoesOn ==
  ASSUME TickType, TickMarks \/ TickRewrites \/ TickHeld
  PROVE  \/ tick' = NoTick /\ tick.held = {}
         \/ /\ tick'.pc = IF tick.pc = "mark" THEN "rewrite"
                          ELSE IF tick.pc = "rewrite" THEN "held" ELSE "release"
            /\ tick.pc \in {"mark", "rewrite", "held"}
            /\ tick'.left = tick.left /\ tick'.marks = tick.marks /\ tick'.gone = tick.gone
            /\ tick'.due = tick.due /\ tick'.held = tick.held /\ tick'.at = tick.at
<1>1. CASE TickMarks
  BY <1>1 DEF TickMarks, TickType
<1>2. CASE TickRewrites
  BY <1>2 DEF TickRewrites, TickType
<1>3. CASE TickHeld
  BY <1>3 DEF TickHeld, TickType
<1> QED BY <1>1, <1>2, <1>3

\* What was recorded stays recorded.
LEMMA FiredGrows ==
  ASSUME WakeupsNext
  PROVE  /\ fired \subseteq fired'
         /\ fired' # fired => TickMarks \/ \E m \in Msgs : Fire(m)
<1>1. CASE TickSteps \/ TickFails
  BY <1>1 DEF TickSteps, Tick, TickRoutes, TickMarks, TickRewrites, TickHeld, TickReleases,
     TickFails, disk, side
<1>2. ASSUME NEW m \in Msgs, Post(m) \/ Look(m) \/ RouteMatch(m) PROVE fired' = fired
  BY <1>2 DEF Post, Look, RouteMatch, disk, side
<1>3. ASSUME NEW m \in Msgs, Fire(m) PROVE fired \subseteq fired'
  BY <1>3 DEF Fire
<1>4. ASSUME NEW new \in SUBSET known, NEW d \in DueAt, HerWrite(new, d) PROVE fired' = fired
  BY <1>4 DEF HerWrite
<1>5. CASE Turn \/ ReleaseDeferred \/ FileBreaks \/ Pause \/ Resume \/ Spend \/ NewDay \/ Restart \/ Clock
           \/ ProcessStops
  BY <1>5 DEF Turn, ReleaseDeferred, FileBreaks, Pause, Resume, Spend, NewDay, Restart,
     Clock, ProcessStops, disk, side
<1> QED BY <1>1, <1>2, <1>3, <1>4, <1>5 DEF WakeupsNext

\* Which steps change the tick.
LEMMA TickKeeps ==
  ASSUME WakeupsNext, ~TickSteps, ~TickFails, ~ProcessStops
  PROVE  tick' = tick
<1>1. ASSUME NEW m \in Msgs, Post(m) \/ Look(m) \/ Fire(m) \/ RouteMatch(m) PROVE tick' = tick
  BY <1>1 DEF Post, Look, Fire, RouteMatch
<1>2. ASSUME NEW new \in SUBSET known, NEW d \in DueAt, HerWrite(new, d) PROVE tick' = tick
  BY <1>2 DEF HerWrite
<1>3. CASE Turn \/ ReleaseDeferred \/ FileBreaks \/ Pause \/ Resume \/ Spend \/ NewDay \/ Restart \/ Clock
  BY <1>3 DEF Turn, ReleaseDeferred, FileBreaks, Pause, Resume, Spend, NewDay, Restart, Clock
<1> QED BY <1>1, <1>2, <1>3 DEF WakeupsNext

LEMMA TickOrderStep ==
  ASSUME WakeupsTypeOK, TickOrder, WakeupsNext
  PROVE  TickOrder'
<1> USE DEF TickOrder
<1>0. TickType /\ fired \subseteq fired'
  BY TypeParts, FiredGrows
<1>1. CASE Tick
  <2> HIDE DEF DueTimed, EndedWakes
  <2> QED BY <1>1, TickReads
<1>2. CASE TickRoutes
  BY <1>0, <1>2, TickRoutesOne
<1>3. CASE TickMarks
  <2>1. fired' = fired \union tick.marks /\ tick' = [tick EXCEPT !.pc = "rewrite"]
    BY <1>3 DEF TickMarks
  <2>2. tick.pc = "mark"
    BY <1>3 DEF TickMarks
  <2> QED BY <1>0, <2>1, <2>2 DEF TickType
<1>4. CASE TickRewrites
  <2>1. fired' = fired /\ tick' = [tick EXCEPT !.pc = "held"] /\ tick.pc = "rewrite"
    BY <1>4 DEF TickRewrites
  <2> QED BY <1>0, <2>1 DEF TickType
<1>5. CASE TickHeld
  <2>1. CASE tick.held = {}
    BY <1>5, <2>1, NoTickIs DEF TickHeld
  <2>2. CASE tick.held # {}
    <3>1. tick.pc = "held" /\ \E b \in BOOLEAN : tick' = [tick EXCEPT !.pc = "release", !.rang = b]
      BY <1>5, <2>2 DEF TickHeld
    <3> QED BY <1>0, <2>2, <3>1 DEF TickType
  <2> QED BY <2>1, <2>2
<1>6. CASE TickReleases \/ TickFails \/ ProcessStops
  BY <1>6, NoTickIs DEF TickReleases, TickFails, ProcessStops
<1>7. CASE ~TickSteps /\ ~TickFails /\ ~ProcessStops
  BY <1>0, <1>7, TickKeeps
<1> QED BY <1>1, <1>2, <1>3, <1>4, <1>5, <1>6, <1>7 DEF TickSteps

-----------------------------------------------------------------------------
(* Timed wakes *)

TimedInv == WakeupsTypeOK /\ TickOrder /\ RecordedIsOut /\ TimedAccount

\* Which steps change what is out, and what was cut short.
LEMMA InboxKeeps ==
  ASSUME WakeupsNext, ~TickRoutes, ~TickHeld, ~Turn, ~ReleaseDeferred,
         \A m \in Msgs : ~RouteMatch(m)
  PROVE  UNCHANGED <<queue, deferred, heard, dropped, twice>>
<1>1. CASE Tick \/ TickMarks \/ TickRewrites \/ TickReleases \/ TickFails
  BY <1>1 DEF Tick, TickMarks, TickRewrites, TickReleases, TickFails, inbox, happened
<1>2. ASSUME NEW m \in Msgs, Post(m) \/ Look(m) \/ Fire(m)
      PROVE  UNCHANGED <<queue, deferred, heard, dropped, twice>>
  BY <1>2 DEF Post, Look, Fire, inbox, happened
<1>3. ASSUME NEW new \in SUBSET known, NEW d \in DueAt, HerWrite(new, d)
      PROVE  UNCHANGED <<queue, deferred, heard, dropped, twice>>
  BY <1>3 DEF HerWrite, inbox
<1>4. CASE FileBreaks \/ Pause \/ Resume \/ Spend \/ NewDay \/ Restart \/ Clock \/ ProcessStops
  BY <1>4 DEF FileBreaks, Pause, Resume, Spend, NewDay, Restart, Clock, ProcessStops, inbox,
     happened
<1> QED BY <1>1, <1>2, <1>3, <1>4 DEF WakeupsNext, TickSteps

LEMMA AgainKeeps ==
  ASSUME WakeupsNext
  PROVE  /\ again \subseteq again'
         /\ TickFails \/ ProcessStops \/ again' = again
         /\ crossed \subseteq crossed'
<1>1. CASE TickSteps
  BY <1>1 DEF TickSteps, Tick, TickRoutes, TickMarks, TickRewrites, TickHeld, TickReleases, happened
<1>2. CASE TickFails \/ ProcessStops
  BY <1>2 DEF TickFails, ProcessStops
<1>3. ASSUME NEW m \in Msgs, Post(m) \/ Look(m) \/ Fire(m) \/ RouteMatch(m)
      PROVE  again' = again /\ crossed \subseteq crossed'
  BY <1>3 DEF Post, Look, Fire, RouteMatch, happened
<1>4. ASSUME NEW new \in SUBSET known, NEW d \in DueAt, HerWrite(new, d)
      PROVE  again' = again /\ crossed \subseteq crossed'
  BY <1>4 DEF HerWrite
<1>5. CASE Turn \/ ReleaseDeferred \/ FileBreaks \/ Pause \/ Resume \/ Spend \/ NewDay \/ Restart \/ Clock
  BY <1>5 DEF Turn, ReleaseDeferred, FileBreaks, Pause, Resume, Spend, NewDay, Restart, Clock,
     happened
<1> QED BY <1>1, <1>2, <1>3, <1>4, <1>5 DEF WakeupsNext

\* Routing what is no timed wake leaves the account of those as it was.
LEMMA UntimedRoute ==
  ASSUME TimedInv, NEW ws, Route(ws), ws \intersect TimedWakes = {},
         UNCHANGED <<heard, twice, fired, again>>,
         RoutedNow' = RoutedNow, tick'.left \subseteq tick.left
  PROVE  RecordedIsOut' /\ TimedAccount'
<1>1. /\ Out' = Out \union ws
      /\ queue' \subseteq queue \union ws /\ deferred' \subseteq deferred \union ws
  BY RouteEffect
<1>2. RecordedIsOut /\ TimedAccount
  BY DEF TimedInv
<1> HIDE DEF TimedWakes, Out, RoutedNow
<1>3. RecordedIsOut'
  BY <1>1, <1>2 DEF RecordedIsOut
<1>4. /\ Out' \intersect TimedWakes \subseteq fired' \union again' \union RoutedNow'
      /\ RoutedNow' \subseteq Out'
  BY <1>1, <1>2 DEF TimedAccount
<1>5. tick'.left \intersect Out' \subseteq again'
  <2>1. tick.left \subseteq TimedWakes
    BY TypeParts DEF TimedInv, TickType
  <2> QED BY <1>1, <1>2, <2>1 DEF TimedAccount
<1>6. ASSUME NEW v \in TimedWakes \ again
      PROVE  /\ ~(v \in queue' /\ v \in deferred')
             /\ ~(v \in queue' /\ v \in heard)
             /\ ~(v \in deferred' /\ v \in heard)
             /\ v \notin twice
  BY <1>1, <1>2 DEF TimedAccount
<1> QED BY <1>3, <1>4, <1>5, <1>6 DEF TimedAccount

LEMMA TimedStep ==
  ASSUME TimedInv, WakeupsNext
  PROVE  RecordedIsOut' /\ TimedAccount'
<1>0. TickType /\ TickOrder /\ RecordedIsOut /\ TimedAccount /\ MsgType /\ WakeupsTypeOK
  BY TypeParts DEF TimedInv
<1> HIDE DEF TimedWakes
<1>1. CASE Tick
  <2> DEFINE fresh == DueTimed \union EndedWakes
  <2>1. fresh \intersect fired = {} /\ fresh \subseteq TimedWakes
    BY <1>0, FreshFacts
  <2> HIDE DEF fresh
  <2>2. /\ tick = NoTick /\ tick'.left = fresh /\ tick'.marks = fresh
        /\ UNCHANGED <<queue, deferred, heard, dropped, twice, fired, again>>
    BY <1>1, TickReads DEF fresh, inbox, happened, disk, side
  <2>3. RoutedNow = {} /\ RoutedNow' = {} /\ Out' = Out
    BY <2>2, NoTickIs DEF RoutedNow, Out
  <2> HIDE DEF Out, RoutedNow
  <2> QED BY <1>0, <2>1, <2>2, <2>3 DEF RecordedIsOut, TimedAccount
<1>2. CASE TickRoutes
  <2>1. PICK w \in tick.left :
           /\ tick.pc = "route" /\ Route({w})
           /\ tick'.left = tick.left \ {w} /\ tick'.marks = tick.marks
           /\ tick'.pc = IF tick.left = {w} THEN "mark" ELSE "route"
    BY <1>0, <1>2, TickRoutesOne
  <2>2. UNCHANGED <<heard, twice, fired, again>>
    BY <1>2 DEF TickRoutes, disk, side
  <2>3. /\ Out' = Out \union {w}
        /\ queue' \subseteq queue \union {w} /\ deferred' \subseteq deferred \union {w}
        /\ queue' = queue \/ deferred' = deferred
    BY <2>1, <2>2, RouteEffect
  <2>4. w \in TimedWakes /\ w \in tick.marks /\ (w \in Out => w \in again)
    BY <1>0, <2>1 DEF TickType, TickOrder, TimedAccount
  <2>5. RoutedNow' = RoutedNow \union {w}
    BY <2>1, <2>4 DEF RoutedNow
  <2>6. w \in again \/ (w \notin queue /\ w \notin deferred /\ w \notin heard)
    BY <2>4 DEF Out
  <2> HIDE DEF Out, RoutedNow
  <2>7. RecordedIsOut'
    BY <1>0, <2>2, <2>3 DEF RecordedIsOut
  <2>8. /\ Out' \intersect TimedWakes \subseteq fired' \union again' \union RoutedNow'
        /\ RoutedNow' \subseteq Out'
        /\ tick'.left \intersect Out' \subseteq again'
    BY <1>0, <2>1, <2>2, <2>3, <2>5 DEF TimedAccount
  <2>9. ASSUME NEW v \in TimedWakes \ again
        PROVE  /\ ~(v \in queue' /\ v \in deferred')
               /\ ~(v \in queue' /\ v \in heard)
               /\ ~(v \in deferred' /\ v \in heard)
               /\ v \notin twice
    BY <1>0, <2>3, <2>6 DEF TimedAccount
  <2> QED BY <2>2, <2>7, <2>8, <2>9 DEF TimedAccount
<1>3. CASE TickMarks
  <2>1. /\ tick.pc = "mark" /\ fired' = fired \union tick.marks
        /\ UNCHANGED <<queue, deferred, heard, dropped, twice, again>>
    BY <1>3 DEF TickMarks, inbox, happened
  <2>2. tick'.pc = "rewrite" /\ tick'.left = tick.left
    BY <1>0, <1>3 DEF TickMarks, TickType
  <2>3. RoutedNow' = {} /\ RoutedNow = tick.marks \ tick.left /\ tick.left = {}
    BY <1>0, <2>1, <2>2 DEF RoutedNow, TickOrder
  <2>4. Out' = Out
    BY <2>1 DEF Out
  <2> HIDE DEF Out, RoutedNow
  <2> QED BY <1>0, <2>1, <2>2, <2>3, <2>4 DEF RecordedIsOut, TimedAccount
<1>4. CASE TickRewrites \/ TickReleases
  <2>1. UNCHANGED <<queue, deferred, heard, dropped, twice, fired, again>>
    BY <1>4 DEF TickRewrites, TickReleases, inbox, happened
  <2>2. RoutedNow = {} /\ RoutedNow' = {} /\ tick'.left = {}
    BY <1>0, <1>4, NoTickIs DEF TickRewrites, TickReleases, RoutedNow, TickType, TickOrder
  <2>3. Out' = Out
    BY <2>1 DEF Out
  <2> HIDE DEF Out, RoutedNow
  <2> QED BY <1>0, <2>1, <2>2, <2>3 DEF RecordedIsOut, TimedAccount
<1>5. CASE TickHeld
  <2>1. PICK ms \in SUBSET tick.held : Route({Held(m) : m \in ms})
    BY <1>5 DEF TickHeld
  <2>2. {Held(m) : m \in ms} \subseteq HeldWakes
    BY <1>0 DEF TickType, HeldWakes
  <2>3. UNCHANGED <<heard, twice, fired, again>>
    BY <1>5 DEF TickHeld, disk, side
  <2>4. tick.pc = "held"
    BY <1>5 DEF TickHeld
  <2>5. tick'.pc \in {"idle", "release"} /\ tick'.left \subseteq tick.left
    BY <1>0, <1>5, <2>4, TickGoesOn, NoTickIs
  <2>6. RoutedNow' = RoutedNow
    BY <2>4, <2>5 DEF RoutedNow
  <2> QED BY <2>1, <2>2, <2>3, <2>5, <2>6, UntimedRoute, WakeFacts
<1>6. CASE TickFails \/ ProcessStops
  <2>1. /\ tick' = NoTick /\ again' = again \union Unrecorded
        /\ UNCHANGED <<queue, deferred, heard, dropped, twice, fired>>
    BY <1>6 DEF TickFails, ProcessStops, inbox, disk, side
  <2>2. RoutedNow \subseteq Unrecorded /\ RoutedNow' = {} /\ tick'.left = {}
    BY <2>1, NoTickIs DEF RoutedNow, Unrecorded
  <2>3. Out' = Out
    BY <2>1 DEF Out
  <2> HIDE DEF Out, RoutedNow, Unrecorded
  <2> QED BY <1>0, <2>1, <2>2, <2>3 DEF RecordedIsOut, TimedAccount
<1>7. ASSUME NEW m \in Msgs, RouteMatch(m) PROVE RecordedIsOut' /\ TimedAccount'
  <2>1. Route(msg[m].wakes) /\ UNCHANGED <<heard, twice, fired, again, tick>>
    BY <1>7 DEF RouteMatch, disk, side
  <2>2. msg[m].wakes \intersect TimedWakes = {}
    BY <1>0, WakeFacts DEF MsgType
  <2>3. RoutedNow' = RoutedNow
    BY <2>1 DEF RoutedNow
  <2> QED BY <2>1, <2>2, <2>3, UntimedRoute
<1>8. CASE Turn \/ ReleaseDeferred
  <2>1. UNCHANGED <<dropped, fired, again, tick>>
    BY <1>8 DEF Turn, ReleaseDeferred, happened, disk, side
  <2>2. Out' = Out /\ RoutedNow' = RoutedNow
    BY <1>8, <2>1 DEF Turn, ReleaseDeferred, happened, Out, RoutedNow
  <2>3. \A w \in TimedWakes \ again :
          /\ ~(w \in queue' /\ w \in deferred')
          /\ ~(w \in queue' /\ w \in heard')
          /\ ~(w \in deferred' /\ w \in heard')
          /\ w \notin twice'
    BY <1>0, <1>8 DEF Turn, ReleaseDeferred, happened, TimedAccount
  <2> HIDE DEF Out, RoutedNow
  <2> QED BY <1>0, <2>1, <2>2, <2>3 DEF RecordedIsOut, TimedAccount
<1>9. ASSUME NEW m \in Msgs, Fire(m) PROVE RecordedIsOut' /\ TimedAccount'
  <2>1. /\ fired' = fired \/ fired' = fired \union {OnceKey}
        /\ UNCHANGED <<queue, deferred, heard, dropped, twice, again, tick>>
    BY <1>9 DEF Fire, inbox
  <2>2. Out' = Out /\ RoutedNow' = RoutedNow
    BY <2>1 DEF Out, RoutedNow
  <2>3. OnceKey \notin TimedWakes
    BY WakeFacts DEF Wakes
  <2> HIDE DEF Out, RoutedNow
  <2> QED BY <1>0, <2>1, <2>2, <2>3 DEF RecordedIsOut, TimedAccount
<1>10. CASE ~TickSteps /\ ~TickFails /\ ~ProcessStops /\ ~Turn /\ ~ReleaseDeferred
            /\ \A m \in Msgs : ~RouteMatch(m) /\ ~Fire(m)
  <2>1. UNCHANGED <<queue, deferred, heard, dropped, twice, fired, again, tick>>
    BY <1>10, InboxKeeps, FiredGrows, AgainKeeps, TickKeeps DEF TickSteps
  <2> QED BY <1>0, <2>1 DEF RecordedIsOut, TimedAccount, Out, RoutedNow
<1> QED BY <1>1, <1>2, <1>3, <1>4, <1>5, <1>6, <1>7, <1>8, <1>9, <1>10 DEF TickSteps

-----------------------------------------------------------------------------
(* What is gone from her file *)

\* What she let go and what a crash cut off is remembered; only a write of
\* hers, a fire, a tick's rewrite and a crash change her file.
LEMMA FileKeeps ==
  ASSUME WakeupsNext
  PROVE  /\ known' = known /\ letGo \subseteq letGo'
         /\ MsgType => cutOff \subseteq cutOff'
         /\ \/ UNCHANGED <<file, due>>
            \/ TickRewrites /\ due' = due
            \/ ProcessStops /\ due' = due
            \/ \E m \in Msgs : Fire(m) /\ due' = due
            \/ \E new \in SUBSET known, d \in DueAt : HerWrite(new, d)
<1> DEFINE Quiet == UNCHANGED <<known, letGo, cutOff, file, due>>
<1>1. CASE TickSteps \/ TickFails
  <2>1. CASE TickRewrites
    BY <2>1 DEF TickRewrites, happened
  <2>2. CASE ~TickRewrites
    <3>1. Quiet
      BY <1>1, <2>2 DEF TickSteps, Tick, TickRoutes, TickMarks, TickHeld, TickReleases,
         TickFails, disk, happened
    <3> QED BY <3>1
  <2> QED BY <2>1, <2>2
<1>2. ASSUME NEW m \in Msgs, Post(m) \/ Look(m) \/ RouteMatch(m) PROVE Quiet
  BY <1>2 DEF Post, Look, RouteMatch, disk, happened
<1>3. ASSUME NEW m \in Msgs, Fire(m) PROVE UNCHANGED <<known, letGo, cutOff, due>>
  BY <1>3 DEF Fire
<1>4. ASSUME NEW new \in SUBSET known, NEW d \in DueAt, HerWrite(new, d)
      PROVE  known' = known /\ letGo \subseteq letGo' /\ cutOff' = cutOff
  BY <1>4 DEF HerWrite
<1>5. CASE ProcessStops
  <2>1. UNCHANGED <<known, letGo, due>>
    BY <1>5 DEF ProcessStops
  <2> QED BY <1>5, <2>1, CutType
<1>6. CASE Turn \/ ReleaseDeferred \/ FileBreaks \/ Pause \/ Resume \/ Spend \/ NewDay \/ Restart \/ Clock
  <2>1. Quiet
    BY <1>6 DEF Turn, ReleaseDeferred, FileBreaks, Pause, Resume, Spend, NewDay, Restart, Clock,
       disk, happened
  <2> QED BY <2>1
<1> HIDE DEF Quiet
<1>7. Quiet => UNCHANGED <<known, letGo, cutOff, file, due>>
  BY DEF Quiet
<1> QED BY <1>1, <1>2, <1>3, <1>4, <1>5, <1>6, <1>7 DEF WakeupsNext

\* A tick's rewrite removes only what was recorded.
LEMMA RewriteRecorded ==
  ASSUME RemovedIsRecorded, RemovalAccount, TickOrder, tick.pc = "rewrite"
  PROVE  /\ "a" \in known \ TickFile => At(due) \in fired \union letGo
         /\ "o" \in known \ TickFile => \/ {End, OnceKey} \intersect fired # {}
                                        \/ End \in letGo \/ cutOff # {}
<1>1. tick.marks \subseteq fired
  BY DEF TickOrder
<1>2. "a" \in file \ TickFile => "a" \in tick.gone /\ due = tick.due
  BY DEF TickFile, Rewritten
<1>3. "o" \in file \ TickFile => "o" \in tick.gone
  BY DEF TickFile, Rewritten
<1>4. /\ "a" \in tick.gone => At(tick.due) \in fired
      /\ "o" \in tick.gone => {End, OnceKey} \intersect fired # {}
  BY <1>1 DEF RemovalAccount
<1> QED BY <1>2, <1>3, <1>4 DEF RemovedIsRecorded

LEMMA RemovedStep ==
  ASSUME WakeupsTypeOK, TickOrder, RemovedIsRecorded, RemovalAccount, WakeupsNext
  PROVE  RemovedIsRecorded'
<1>0. MsgType /\ DiskType
  BY TypeParts
<1>1. /\ known' = known /\ letGo \subseteq letGo' /\ cutOff \subseteq cutOff'
      /\ fired \subseteq fired'
  BY <1>0, FileKeeps, FiredGrows
<1>2. CASE UNCHANGED <<file, due>>
  BY <1>1, <1>2 DEF RemovedIsRecorded, At, End, OnceKey
<1>3. CASE TickRewrites /\ due' = due
  <2>1. file' = TickFile /\ tick.pc = "rewrite"
    BY <1>3 DEF TickRewrites
  <2> HIDE DEF TickFile
  <2> QED BY <1>1, <1>3, <2>1, RewriteRecorded DEF RemovedIsRecorded, At, End, OnceKey
<1>4. CASE ProcessStops /\ due' = due
  <2>1. CASE file' = file
    BY <1>1, <1>4, <2>1 DEF RemovedIsRecorded, At, End, OnceKey
  <2>2. CASE file' = file \ {"o"} /\ cutOff' # {}
    BY <1>1, <1>4, <2>2 DEF RemovedIsRecorded, At, End, OnceKey
  <2>3. CASE file' = TickFile /\ tick.pc = "rewrite"
    <3> HIDE DEF TickFile
    <3> QED BY <1>1, <1>4, <2>3, RewriteRecorded DEF RemovedIsRecorded, At, End, OnceKey
  <2>4. \/ file' = file
        \/ file' = file \ {"o"} /\ cutOff' # {}
        \/ file' = TickFile /\ tick.pc = "rewrite"
    <3> HIDE DEF TickFile, Handling
    <3> QED BY <1>4 DEF ProcessStops
  <2> QED BY <2>1, <2>2, <2>3, <2>4
<1>5. ASSUME NEW m \in Msgs, Fire(m), due' = due PROVE RemovedIsRecorded'
  <2>1. \/ file' = file
        \/ file' = file \ {"o"} /\ OnceKey \in fired'
    <3>1. PICK fire \in SUBSET {"o", "r"} :
            /\ file' = Rewritten(file \ (fire \intersect {"o"}))
            /\ fired' = IF "o" \in fire THEN fired \union {OnceKey} ELSE fired
      BY <1>5 DEF Fire
    <3>2. CASE "o" \in fire
      BY <3>1, <3>2 DEF Rewritten
    <3>3. CASE "o" \notin fire
      BY <3>1, <3>3 DEF Rewritten
    <3> QED BY <3>2, <3>3
  <2> QED BY <1>1, <1>5, <2>1 DEF RemovedIsRecorded, At, End, OnceKey
<1>6. ASSUME NEW new \in SUBSET known, NEW d \in DueAt, HerWrite(new, d) PROVE RemovedIsRecorded'
  <2>1. /\ file' = new /\ due' = d /\ Accepted(new, d)
        /\ letGo' = letGo
             \union {At(due) : x \in {y \in {"a"} \intersect file : y \notin new \/ d # due}}
             \union {End : x \in ({"o"} \intersect file) \ new}
    BY <1>6 DEF HerWrite
  <2>2. "a" \notin new => d = due
    BY <2>1 DEF Accepted
  <2>3. "a" \in file \ new => At(due) \in letGo'
    BY <2>1
  <2>4. "o" \in file \ new => End \in letGo'
    BY <2>1
  <2> HIDE DEF At, End, OnceKey
  <2>5. "a" \in known \ new => At(d) \in fired' \union letGo'
    BY <1>1, <2>2, <2>3 DEF RemovedIsRecorded
  <2>6. "o" \in known \ new => \/ {End, OnceKey} \intersect fired' # {}
                               \/ End \in letGo' \/ cutOff' # {}
    BY <1>1, <2>4 DEF RemovedIsRecorded
  <2> USE DEF At, End, OnceKey
  <2> QED BY <1>1, <2>1, <2>5, <2>6 DEF RemovedIsRecorded
<1> QED BY <1>0, <1>2, <1>3, <1>4, <1>5, <1>6, FileKeeps

LEMMA RemovalStep ==
  ASSUME WakeupsTypeOK, TickOrder, RemovalAccount, WakeupsNext
  PROVE  RemovalAccount'
<1>0. TickType /\ fired \subseteq fired'
  BY TypeParts, FiredGrows
<1> DEFINE fresh == DueTimed \union EndedWakes
<1>1. CASE Tick
  <2>1. /\ tick'.marks = fresh /\ tick'.due = due /\ fired' = fired
        /\ "a" \in tick'.gone <=> DueAts # {}
        /\ "o" \in tick'.gone <=> Ended
    BY <1>1, TickReads DEF disk, side
  <2>2. DueAts # {} => At(due) \in fired \union fresh
    BY DEF DueAts, DueTimed
  <2>3. Ended => {End, OnceKey} \intersect (fired \union fresh) # {}
    BY DEF EndedWakes
  <2> HIDE DEF fresh
  <2> QED BY <2>1, <2>2, <2>3 DEF RemovalAccount, At, End, OnceKey
<1>2. CASE TickRoutes
  BY <1>0, <1>2, TickRoutesOne DEF RemovalAccount, At, End, OnceKey
<1>3. CASE TickMarks \/ TickRewrites \/ TickHeld
  BY <1>0, <1>3, TickGoesOn, NoTickIs DEF RemovalAccount, At, End, OnceKey
<1>4. CASE TickReleases \/ TickFails \/ ProcessStops
  BY <1>4, NoTickIs DEF TickReleases, TickFails, ProcessStops, RemovalAccount
<1>5. CASE ~TickSteps /\ ~TickFails /\ ~ProcessStops
  BY <1>0, <1>5, TickKeeps DEF RemovalAccount, At, End, OnceKey
<1> QED BY <1>1, <1>2, <1>3, <1>4, <1>5 DEF TickSteps

-----------------------------------------------------------------------------
(* Held matches *)

HeldInv == WakeupsTypeOK /\ OwnWakes /\ TickOrder /\ HeldAccount

LEMMA MayRingStays ==
  ASSUME MsgType, WakeupsNext, NEW m, MayRingAgain(m)
  PROVE  MayRingAgain(m)'
BY FileKeeps, AgainKeeps DEF MayRingAgain, Held, Match

\* Routing other wakes, a turn, a release and a match on its way leave the
\* books of a held match as they were.
LEMMA HeldRoute ==
  ASSUME NEW m, HeldBook(m), NEW ws, Route(ws), Held(m) \notin ws,
         UNCHANGED <<heard, twice, held>>,
         tick'.held = tick.held, tick'.rang = tick.rang,
         msg'[m] = msg[m] \/ msg'[m].pc = "done"
  PROVE  HeldBook(m)'
<1>1. /\ Out' = Out \union ws
      /\ queue' \subseteq queue \union ws /\ deferred' \subseteq deferred \union ws
  BY RouteEffect
<1> DEFINE h == Held(m)
           o == Match("o", m)
<1>2. h \notin ws /\ Held(m)' = h /\ Match("o", m)' = o
  BY DEF Held, Match
<1> HIDE DEF h, o, Out
<1>3. HeldBook(m) <=>
        /\ m \in held \/ h \in Out =>
             \/ msg[m].pc = "done"
             \/ msg[m].pc = "matched" /\ o \in msg[m].wakes
        /\ h \in Out /\ m \in held => tick.rang /\ m \in tick.held
        /\ ~(h \in queue /\ h \in deferred)
        /\ ~(h \in queue /\ h \in heard)
        /\ ~(h \in deferred /\ h \in heard)
        /\ h \notin twice
  BY DEF HeldBook, h, o
<1>4. HeldBook(m)' <=>
        /\ m \in held' \/ h \in Out' =>
             \/ msg'[m].pc = "done"
             \/ msg'[m].pc = "matched" /\ o \in msg'[m].wakes
        /\ h \in Out' /\ m \in held' => tick'.rang /\ m \in tick'.held
        /\ ~(h \in queue' /\ h \in deferred')
        /\ ~(h \in queue' /\ h \in heard')
        /\ ~(h \in deferred' /\ h \in heard')
        /\ h \notin twice'
  BY <1>2 DEF HeldBook, h, o
<1> QED BY <1>1, <1>2, <1>3, <1>4

\* So do steps that leave what is out alone, when they do not take the match
\* up again.
LEMMA HeldStill ==
  ASSUME NEW m, HeldBook(m), Out' = Out,
         UNCHANGED <<queue, deferred, heard, twice>>,
         m \in held' => m \in held,
         Held(m) \in Out /\ m \in held' => (tick.rang /\ m \in tick.held => tick'.rang /\ m \in tick'.held),
         \/ msg'[m] = msg[m] \/ msg'[m].pc = "done" \/ msg[m].pc \notin {"done", "matched"}
         \/ m \notin held /\ Held(m) \notin Out
  PROVE  HeldBook(m)'
<1> DEFINE h == Held(m)
           o == Match("o", m)
<1>2. Held(m)' = h /\ Match("o", m)' = o
  BY DEF Held, Match
<1> HIDE DEF h, o, Out
<1>3. HeldBook(m) <=>
        /\ m \in held \/ h \in Out =>
             \/ msg[m].pc = "done"
             \/ msg[m].pc = "matched" /\ o \in msg[m].wakes
        /\ h \in Out /\ m \in held => tick.rang /\ m \in tick.held
        /\ ~(h \in queue /\ h \in deferred)
        /\ ~(h \in queue /\ h \in heard)
        /\ ~(h \in deferred /\ h \in heard)
        /\ h \notin twice
  BY DEF HeldBook, h, o
<1>4. HeldBook(m)' <=>
        /\ m \in held' \/ h \in Out' =>
             \/ msg'[m].pc = "done"
             \/ msg'[m].pc = "matched" /\ o \in msg'[m].wakes
        /\ h \in Out' /\ m \in held' => tick'.rang /\ m \in tick'.held
        /\ ~(h \in queue' /\ h \in deferred')
        /\ ~(h \in queue' /\ h \in heard')
        /\ ~(h \in deferred' /\ h \in heard')
        /\ h \notin twice'
  BY <1>2 DEF HeldBook, h, o
<1>5. /\ h \in Out /\ m \in held' => (tick.rang /\ m \in tick.held => tick'.rang /\ m \in tick'.held)
      /\ \/ msg'[m] = msg[m] \/ msg'[m].pc = "done" \/ msg[m].pc \notin {"done", "matched"}
         \/ m \notin held /\ h \notin Out
  BY DEF h
<1> QED BY <1>3, <1>4, <1>5

\* The match a tick read stays the one held, unless what it changes was crossed.
LEMMA HeldReadStep ==
  ASSUME HeldInv, WakeupsNext
  PROVE  "held" \in crossed' \/ tick'.held = {} \/ held' = tick'.held
<1> DEFINE Same == "held" \in crossed' \/ tick'.held = {} \/ held' = tick'.held
<1>0. /\ TickType /\ TickOrder /\ crossed \subseteq crossed'
      /\ "held" \in crossed \/ tick.held = {} \/ held = tick.held
  BY TypeParts, AgainKeeps DEF HeldInv, HeldAccount
<1>1. CASE Tick
  BY <1>1, TickReads DEF DueHeld, disk, side
<1>2. CASE TickRoutes
  <2>1. held' = held
    BY <1>2 DEF TickRoutes, disk, side
  <2> QED BY <1>0, <1>2, <2>1, TickRoutesOne
<1>3. CASE TickMarks \/ TickRewrites \/ TickHeld
  <2>1. held' = held
    BY <1>3 DEF TickMarks, TickRewrites, TickHeld, disk, side
  <2> QED BY <1>0, <1>3, <2>1, TickGoesOn, NoTickIs
<1>4. CASE TickReleases \/ TickFails \/ ProcessStops
  BY <1>4, NoTickIs DEF TickReleases, TickFails, ProcessStops
<1>5. ASSUME NEW m \in Msgs, Fire(m) PROVE Same
  <2>1. tick' = tick
    BY <1>5 DEF Fire
  <2>2. CASE RepeatMatches(m)
    <3>1. tick.held # {} => "held" \in crossed'
      BY <1>5, <2>2 DEF Fire
    <3> QED BY <2>1, <3>1
  <2>3. CASE ~RepeatMatches(m)
    <3>1. held' = held
      BY <1>5, <2>3 DEF Fire, RepeatFires
    <3> QED BY <1>0, <2>1, <3>1
  <2> QED BY <2>2, <2>3
<1>6. ASSUME NEW new \in SUBSET known, NEW d \in DueAt, HerWrite(new, d) PROVE Same
  BY <1>6 DEF HerWrite
<1>7. ASSUME NEW m \in Msgs, Post(m) \/ Look(m) \/ RouteMatch(m) PROVE Same
  BY <1>0, <1>7 DEF Post, Look, RouteMatch, disk, side
<1>8. CASE Turn \/ ReleaseDeferred \/ FileBreaks \/ Pause \/ Resume \/ Spend \/ NewDay \/ Restart \/ Clock
  BY <1>0, <1>8 DEF Turn, ReleaseDeferred, FileBreaks, Pause, Resume, Spend, NewDay, Restart,
     Clock, disk, side
<1> QED BY <1>1, <1>2, <1>3, <1>4, <1>5, <1>6, <1>7, <1>8 DEF WakeupsNext, TickSteps

\* The tick rings a match that is held and has not rung.
LEMMA HeldRings ==
  ASSUME HeldInv, TickHeld, NEW m \in Msgs, ~MayRingAgain(m), HeldBook(m)
  PROVE  HeldBook(m)'
<1>0. TickType /\ TickOrder /\ tick.pc = "held" /\ ~tick.rang
  BY TypeParts DEF HeldInv, TickHeld, TickOrder
<1>1. tick.held = {} \/ held = tick.held
  BY DEF HeldInv, HeldAccount, MayRingAgain
<1>2. PICK ms \in SUBSET tick.held :
        /\ Route({Held(k) : k \in ms})
        /\ tick' = IF tick.held = {} THEN NoTick
                   ELSE [tick EXCEPT !.pc = "release", !.rang = ms # {}]
  BY DEF TickHeld
<1>3. UNCHANGED <<heard, twice, held, msg>>
  BY DEF TickHeld, disk, side
<1> DEFINE ws == {Held(k) : k \in ms}
<1>4. Held(m) \in ws <=> m \in ms
  BY WakeFacts
<1>5. /\ Out' = Out \union ws
      /\ queue' \subseteq queue \union ws /\ deferred' \subseteq deferred \union ws
      /\ queue' = queue \/ deferred' = deferred
  <2> HIDE DEF ws
  <2>1. Route(ws)
    BY <1>2 DEF ws
  <2> QED BY <1>3, <2>1, RouteEffect
<1> HIDE DEF ws
<1>6. m \in ms => tick'.rang /\ m \in tick'.held
  BY <1>0, <1>2 DEF TickType
<1>7. m \in held => Held(m) \notin Out
  BY <1>0 DEF HeldBook
<1>8. Out = queue \union deferred \union heard \union dropped
  BY DEF Out
<1> DEFINE h == Held(m)
           o == Match("o", m)
<1>9. /\ h \in ws <=> m \in ms
      /\ m \in held => h \notin Out
      /\ m \in held \/ h \in Out =>
             \/ msg[m].pc = "done"
             \/ msg[m].pc = "matched" /\ o \in msg[m].wakes
      /\ ~(h \in queue /\ h \in deferred)
      /\ ~(h \in queue /\ h \in heard)
      /\ ~(h \in deferred /\ h \in heard)
      /\ h \notin twice
  BY <1>4, <1>7 DEF HeldBook
<1>10. HeldBook(m)' <=>
        /\ m \in held' \/ h \in Out' =>
             \/ msg'[m].pc = "done"
             \/ msg'[m].pc = "matched" /\ o \in msg'[m].wakes
        /\ h \in Out' /\ m \in held' => tick'.rang /\ m \in tick'.held
        /\ ~(h \in queue' /\ h \in deferred')
        /\ ~(h \in queue' /\ h \in heard')
        /\ ~(h \in deferred' /\ h \in heard')
        /\ h \notin twice'
  BY DEF HeldBook, Held, Match
<1> HIDE DEF h, o, Out
<1>11. m \in ms => m \in held
  BY <1>1, <1>2
<1>12. (m \in held' \/ h \in Out') => (m \in held \/ h \in Out)
  BY <1>3, <1>5, <1>9, <1>11
<1>13. h \in Out' /\ m \in held' => m \in ms
  BY <1>3, <1>5, <1>9
<1>14. h \in queue \/ h \in deferred \/ h \in heard => h \in Out
  BY <1>8
<1>15. /\ ~(h \in queue' /\ h \in deferred')
       /\ ~(h \in queue' /\ h \in heard')
       /\ ~(h \in deferred' /\ h \in heard')
  BY <1>3, <1>5, <1>9, <1>11, <1>14
<1> QED BY <1>3, <1>6, <1>9, <1>10, <1>12, <1>13, <1>15

\* A message whose match is held, or rang, is not taken up again.
LEMMA HeldFires ==
  ASSUME HeldInv, NEW k \in Msgs, Fire(k), NEW m \in Msgs, HeldBook(m)
  PROVE  HeldBook(m)'
<1>0. MsgType /\ msg[k].pc = "looked"
  BY TypeParts DEF HeldInv, Fire
<1>1. UNCHANGED <<queue, deferred, heard, dropped, twice, tick>>
  BY DEF Fire, inbox
<1>2. Out' = Out
  BY <1>1 DEF Out
<1>3. PICK fire \in SUBSET {"o", "r"} :
        /\ held' = IF "r" \in fire THEN {} ELSE IF RepeatMatches(k) THEN {k} ELSE held
        /\ msg' = [msg EXCEPT ![k].pc = IF fire = {} THEN "done" ELSE "matched",
                              ![k].wakes = WakesOf(k, fire)]
  BY DEF Fire
<1>4. CASE m # k
  <2>1. msg'[m] = msg[m] /\ (m \in held' => m \in held)
    BY <1>0, <1>3, <1>4 DEF MsgType
  <2> HIDE DEF Out
  <2> QED BY <1>1, <1>2, <2>1, HeldStill
<1>5. CASE m = k
  <2>1. m \notin held /\ Held(m) \notin Out
    BY <1>0, <1>5 DEF HeldBook
  <2>2. CASE m \notin held'
    <3> HIDE DEF Out
    <3> QED BY <1>1, <1>2, <2>1, <2>2, HeldStill
  <2>3. CASE m \in held'
    <3>1. "r" \notin fire
      BY <1>3, <2>3
    <3> DEFINE new == WakesOf(k, fire)
    <3>2. fire # {} => Match("o", m) \in new
      BY <1>5, <3>1 DEF WakesOf
    <3> HIDE DEF new
    <3>3. /\ msg'[m].pc = IF fire = {} THEN "done" ELSE "matched"
          /\ msg'[m].wakes = new
      BY <1>0, <1>3, <1>5 DEF MsgType, new
    <3>4. Held(m) \notin queue /\ Held(m) \notin deferred /\ Held(m) \notin heard
      BY <2>1 DEF Out
    <3>5. Held(m) \notin twice
      BY <3>4, TypeParts DEF HeldInv, InboxType
    <3> DEFINE h == Held(m)
               o == Match("o", m)
    <3>6. /\ h \notin Out /\ h \notin queue /\ h \notin deferred /\ h \notin heard /\ h \notin twice
          /\ fire # {} => o \in new
      BY <2>1, <3>2, <3>4, <3>5
    <3>7. HeldBook(m)' <=>
            /\ m \in held' \/ h \in Out' =>
                 \/ msg'[m].pc = "done"
                 \/ msg'[m].pc = "matched" /\ o \in msg'[m].wakes
            /\ h \in Out' /\ m \in held' => tick'.rang /\ m \in tick'.held
            /\ ~(h \in queue' /\ h \in deferred')
            /\ ~(h \in queue' /\ h \in heard')
            /\ ~(h \in deferred' /\ h \in heard')
            /\ h \notin twice'
      BY DEF HeldBook, Held, Match
    <3> HIDE DEF h, o, Out
    <3> QED BY <1>1, <1>2, <3>3, <3>6, <3>7
  <2> QED BY <2>2, <2>3
<1> QED BY <1>4, <1>5

\* What a turn takes, and the day's batch, come from one place.
LEMMA HeldTaken ==
  ASSUME Turn \/ ReleaseDeferred, NEW m, HeldBook(m)
  PROVE  HeldBook(m)'
<1>1. /\ UNCHANGED <<dropped, held, msg, tick>>
      /\ Out' = Out
  BY DEF Turn, ReleaseDeferred, happened, disk, side, Out
<1> DEFINE h == Held(m)
           o == Match("o", m)
<1>2. /\ ~(h \in queue /\ h \in deferred)
      /\ ~(h \in queue /\ h \in heard)
      /\ ~(h \in deferred /\ h \in heard)
      /\ h \notin twice
  BY DEF HeldBook
<1>3. HeldBook(m) <=>
        /\ m \in held \/ h \in Out =>
             \/ msg[m].pc = "done"
             \/ msg[m].pc = "matched" /\ o \in msg[m].wakes
        /\ h \in Out /\ m \in held => tick.rang /\ m \in tick.held
        /\ ~(h \in queue /\ h \in deferred)
        /\ ~(h \in queue /\ h \in heard)
        /\ ~(h \in deferred /\ h \in heard)
        /\ h \notin twice
  BY DEF HeldBook
<1>4. HeldBook(m)' <=>
        /\ m \in held' \/ h \in Out' =>
             \/ msg'[m].pc = "done"
             \/ msg'[m].pc = "matched" /\ o \in msg'[m].wakes
        /\ h \in Out' /\ m \in held' => tick'.rang /\ m \in tick'.held
        /\ ~(h \in queue' /\ h \in deferred')
        /\ ~(h \in queue' /\ h \in heard')
        /\ ~(h \in deferred' /\ h \in heard')
        /\ h \notin twice'
  BY DEF HeldBook, Held, Match
<1> HIDE DEF h, o
<1>5. /\ ~(h \in queue' /\ h \in deferred')
      /\ ~(h \in queue' /\ h \in heard')
      /\ ~(h \in deferred' /\ h \in heard')
      /\ h \notin twice'
  BY <1>2 DEF Turn, ReleaseDeferred, happened
<1> QED BY <1>1, <1>3, <1>4, <1>5

LEMMA HeldStep ==
  ASSUME HeldInv, WakeupsNext
  PROVE  HeldAccount'
<1>0. WakeupsTypeOK /\ TickType /\ MsgType /\ TickOrder /\ OwnWakes /\ HeldAccount
  BY TypeParts DEF HeldInv
<1> SUFFICES ASSUME NEW m \in Msgs, ~MayRingAgain(m)' PROVE HeldBook(m)'
  BY HeldReadStep DEF HeldAccount
<1>1. ~MayRingAgain(m) /\ HeldBook(m)
  BY <1>0, MayRingStays DEF HeldAccount
<1>2. tick.held = {} \/ held = tick.held
  BY <1>0, <1>1 DEF HeldAccount, MayRingAgain
<1>3. CASE Tick
  <2>1. tick = NoTick /\ UNCHANGED <<queue, deferred, heard, dropped, twice, held, msg>>
    BY <1>3, TickReads DEF disk, side, inbox, happened
  <2>2. Out' = Out
    BY <2>1 DEF Out
  <2> HIDE DEF Out
  <2> QED BY <1>1, <2>1, <2>2, HeldStill, NoTickIs
<1>4. CASE TickRoutes
  <2>1. PICK w \in tick.left :
           Route({w}) /\ tick'.held = tick.held /\ tick'.rang = tick.rang
    BY <1>0, <1>4, TickRoutesOne
  <2>2. UNCHANGED <<heard, twice, held, msg>>
    BY <1>4 DEF TickRoutes, disk, side
  <2>3. Held(m) \notin {w}
    BY <1>0, <2>1, WakeFacts DEF TickType
  <2> QED BY <1>1, <2>1, <2>2, <2>3, HeldRoute
<1>5. CASE TickMarks \/ TickRewrites
  <2>1. ~tick.rang
    BY <1>0, <1>5 DEF TickMarks, TickRewrites, TickOrder
  <2>2. UNCHANGED <<queue, deferred, heard, dropped, twice, held, msg>>
    BY <1>5 DEF TickMarks, TickRewrites, inbox, happened
  <2>3. Out' = Out
    BY <2>2 DEF Out
  <2> HIDE DEF Out
  <2> QED BY <1>1, <2>1, <2>2, <2>3, HeldStill
<1>6. CASE TickHeld
  BY <1>1, <1>6, HeldRings
<1>7. CASE TickReleases
  <2>1. /\ UNCHANGED <<queue, deferred, heard, dropped, twice, msg>>
        /\ held' = IF held = tick.held THEN {} ELSE held
    BY <1>7 DEF TickReleases, inbox, happened
  <2>2. Out' = Out
    BY <2>1 DEF Out
  <2>3. (m \in held' => m \in held) /\ (m \in held' => m \notin tick.held)
    BY <1>2, <2>1
  <2> HIDE DEF Out
  <2> QED BY <1>1, <2>1, <2>2, <2>3, HeldStill
<1>8. CASE TickFails \/ ProcessStops
  <2>1. /\ again' = again \union Unrecorded
        /\ UNCHANGED <<queue, deferred, heard, dropped, twice, held>>
    BY <1>8 DEF TickFails, ProcessStops, inbox, happened, disk, side
  <2>2. Out' = Out
    BY <2>1 DEF Out
  <2>3. ~(tick.rang /\ m \in tick.held)
    <3>1. tick.rang /\ m \in tick.held => Held(m) \in again'
      BY <2>1 DEF Unrecorded
    <3> QED BY <3>1 DEF MayRingAgain, Held
  <2>4. \/ msg'[m] = msg[m] \/ msg[m].pc \notin {"done", "matched"}
        \/ m \notin held /\ Held(m) \notin Out
    <3>1. CASE TickFails
      BY <3>1 DEF TickFails
    <3>2. CASE ProcessStops /\ msg[m].pc = "matched"
      <4>1. m \in Handling
        BY <3>2 DEF Handling
      <4>2. Match("o", m) \notin cutOff'
        BY DEF MayRingAgain, Match
      <4>3. Match("o", m) \notin msg[m].wakes
        BY <1>0, <3>2, <4>1, <4>2, CutType
      <4> QED BY <1>1, <3>2, <4>3 DEF HeldBook
    <3>3. CASE ProcessStops /\ msg[m].pc = "done"
      BY <1>0, <3>3 DEF ProcessStops, Handling
    <3> QED BY <1>8, <3>1, <3>2, <3>3
  <2> HIDE DEF Out
  <2> QED BY <1>1, <2>1, <2>2, <2>3, <2>4, HeldStill
<1>9. ASSUME NEW k \in Msgs, RouteMatch(k) PROVE HeldBook(m)'
  <2>1. /\ Route(msg[k].wakes) /\ UNCHANGED <<heard, twice, held, tick>>
        /\ msg' = [msg EXCEPT ![k].pc = "done"]
    BY <1>9 DEF RouteMatch, disk, side
  <2>2. Held(m) \notin msg[k].wakes
    BY <1>0, WakeFacts DEF MsgType
  <2>3. msg'[m] = msg[m] \/ msg'[m].pc = "done"
    BY <1>0, <2>1 DEF MsgType
  <2> QED BY <1>1, <2>1, <2>2, <2>3, HeldRoute
<1>10. CASE Turn \/ ReleaseDeferred
  BY <1>1, <1>10, HeldTaken
<1>11. ASSUME NEW k \in Msgs, Fire(k) PROVE HeldBook(m)'
  BY <1>1, <1>11, HeldFires
<1>12. ASSUME NEW k \in Msgs, Post(k) \/ Look(k) PROVE HeldBook(m)'
  <2>1. UNCHANGED <<queue, deferred, heard, dropped, twice, held, tick>>
    BY <1>12 DEF Post, Look, inbox, happened, disk, side
  <2>2. msg'[m] = msg[m] \/ msg[m].pc \notin {"done", "matched"}
    BY <1>0, <1>12 DEF Post, Look, MsgType
  <2>3. Out' = Out
    BY <2>1 DEF Out
  <2> HIDE DEF Out
  <2> QED BY <1>1, <2>1, <2>2, <2>3, HeldStill
<1>13. ASSUME NEW new \in SUBSET known, NEW d \in DueAt, HerWrite(new, d) PROVE HeldBook(m)'
  <2>1. held' = {} /\ UNCHANGED <<queue, deferred, heard, dropped, twice, tick, msg>>
    BY <1>13 DEF HerWrite, inbox
  <2>2. Out' = Out
    BY <2>1 DEF Out
  <2> HIDE DEF Out
  <2> QED BY <1>1, <2>1, <2>2, HeldStill
<1>14. CASE FileBreaks \/ Pause \/ Resume \/ Spend \/ NewDay \/ Restart \/ Clock
  <2>1. UNCHANGED <<queue, deferred, heard, dropped, twice, tick, msg, held>>
    BY <1>14 DEF FileBreaks, Pause, Resume, Spend, NewDay, Restart, Clock, inbox, happened, disk,
       side
  <2>2. Out' = Out
    BY <2>1 DEF Out
  <2> HIDE DEF Out
  <2> QED BY <1>1, <2>1, <2>2, HeldStill
<1> QED BY <1>3, <1>4, <1>5, <1>6, <1>7, <1>8, <1>9, <1>10, <1>11, <1>12, <1>13, <1>14
        DEF WakeupsNext, TickSteps

-----------------------------------------------------------------------------
(* The reminders ring once *)

LEMMA RingInitially ==
  ASSUME WakeupsInit
  PROVE  RingInv
<1> USE DEF WakeupsInit
<1>1. WakeupsTypeOK
  <2>1. TickType /\ MsgType
    BY NoTickType DEF TickType, MsgType
  <2>2. now \in Times /\ spoke \in Times /\ InboxType
    BY WakeupsAssumption DEF InboxType, Times
  <2>3. DiskType
    BY WakeupsAssumption DEF DiskType, Times
  <2>4. upsets \in 0 .. MaxUpsets[known] /\ rung \in Seq(Times)
    BY WakeupsAssumption
  <2>5. WorldType
    BY <2>2, Zenon DEF WorldType
  <2>6. GhostType
    BY <2>4, Zenon DEF GhostType
  <2> QED BY <2>1, <2>2, <2>3, <2>5, <2>6, TypeParts
<1>2. OwnWakes
  BY DEF OwnWakes, Unposted
<1>3. TickOrder
  BY NoTickIs DEF TickOrder
<1>4. RecordedIsOut /\ TimedAccount
  BY NoTickIs DEF RecordedIsOut, TimedAccount, RoutedNow, Out
<1>5. RemovedIsRecorded /\ RemovalAccount
  BY NoTickIs DEF RemovedIsRecorded, RemovalAccount
<1>6. HeldAccount
  BY NoTickIs DEF HeldAccount, HeldBook, Out
<1> QED BY <1>1, <1>2, <1>3, <1>4, <1>5, <1>6 DEF RingInv

LEMMA WakesStutter ==
  ASSUME WakeInv, UNCHANGED wakeVars
  PROVE  WakeInv'
BY DEF WakeInv, RingInv, WatchInv, wakeVars, world, disk, side, inbox, happened, WakeupsTypeOK,
   OwnWakes, TickOrder, RecordedIsOut, TimedAccount, RemovedIsRecorded, RemovalAccount,
   HeldAccount, HeldBook, MayRingAgain, Out, RoutedNow, OnceAccount, FiredFor, RepeatAccount,
   UnderCap, Spaced

LEMMA RingStep ==
  ASSUME RingInv, WakeupsNext
  PROVE  RingInv'
<1>1. WakeupsTypeOK' /\ OwnWakes' /\ TickOrder'
  BY WakeTypesStep, OwnWakesStep, TickOrderStep DEF RingInv
<1>2. RecordedIsOut' /\ TimedAccount'
  BY TimedStep DEF RingInv, TimedInv
<1>3. RemovedIsRecorded' /\ RemovalAccount'
  BY RemovedStep, RemovalStep DEF RingInv
<1>4. HeldAccount'
  BY HeldStep DEF RingInv, HeldInv
<1> QED BY <1>1, <1>2, <1>3, <1>4 DEF RingInv

LEMMA RingImplies ==
  ASSUME RingInv
  PROVE  RingsOnce
<1>1. twice \intersect TimedWakes \subseteq again
  BY DEF RingInv, TimedAccount
<1>2. \A m \in Msgs : Held(m) \in twice => MayRingAgain(m)
  BY DEF RingInv, HeldAccount, HeldBook
<1> QED BY <1>1, <1>2 DEF RingsOnce, RingInv, HeardOnce, MayRingAgain

-----------------------------------------------------------------------------
(* The once watch *)

\* A step that leaves the matches and the end of the once watch as they were.
LEMMA OnceStill ==
  ASSUME OnceAccount, fired' \intersect {OnceKey} = fired \intersect {OnceKey},
         \A m \in Msgs : FiredFor(m)' <=> FiredFor(m),
         cutOff \subseteq cutOff', crossed \subseteq crossed',
         End \in Out' \union tick'.marks => End \in Out \union tick.marks
  PROVE  OnceAccount'
<1>1. \A m : Match("o", m)' = Match("o", m)
  BY DEF Match
<1> HIDE DEF FiredFor, Out, Match
<1> QED BY <1>1 DEF OnceAccount, OnceKey, End

LEMMA OnceStep ==
  ASSUME WakeupsTypeOK, OwnWakes, TickOrder, OnceAccount, WakeupsNext
  PROVE  OnceAccount'
<1>0. TickType /\ MsgType /\ DiskType /\ cutOff \subseteq cutOff' /\ crossed \subseteq crossed'
      /\ fired \subseteq fired'
  BY TypeParts, FileKeeps, AgainKeeps, FiredGrows
<1> DEFINE Same == \A m \in Msgs : FiredFor(m)' <=> FiredFor(m)
<1>1. ASSUME Out' = Out, msg' = msg PROVE Same
  BY <1>1 DEF FiredFor, Match
<1>2. CASE Tick
  <2>1. /\ tick'.marks = DueTimed \union EndedWakes
        /\ UNCHANGED <<queue, deferred, heard, dropped, fired, msg>>
    BY <1>2, TickReads DEF disk, side, inbox, happened
  <2>2. Out' = Out
    BY <2>1 DEF Out
  <2>3. End \notin DueTimed
    BY WakeFacts DEF DueTimed, DueAts, DueEvery
  <2>4. End \in EndedWakes => OnceKey \notin fired
    BY DEF EndedWakes
  <2>5. Same
    BY <1>1, <2>1, <2>2
  <2>6. \A m : Match("o", m)' = Match("o", m)
    BY DEF Match
  <2> HIDE DEF FiredFor, Out, Match, DueTimed, EndedWakes
  <2> QED BY <1>0, <2>1, <2>2, <2>3, <2>4, <2>5, <2>6 DEF OnceAccount, OnceKey, End
<1>3. CASE TickRoutes
  <2>1. PICK w \in tick.left : Route({w}) /\ tick'.marks = tick.marks
    BY <1>0, <1>3, TickRoutesOne
  <2>2. UNCHANGED <<heard, fired, msg>>
    BY <1>3 DEF TickRoutes, disk, side
  <2>3. Out' = Out \union {w}
    BY <2>1, <2>2, RouteEffect
  <2>4. w \in TimedWakes /\ w \in tick.marks
    BY <1>0, <2>1 DEF TickType, TickOrder
  <2>5. \A m \in Msgs : Match("o", m) # w
    BY <2>4, WakeFacts
  <2>6. Same
    <3> HIDE DEF Out
    <3> QED BY <2>2, <2>3, <2>5 DEF FiredFor, Match
  <2> HIDE DEF FiredFor, Out
  <2> QED BY <1>0, <2>1, <2>2, <2>3, <2>4, <2>6, OnceStill
<1>4. CASE TickHeld
  <2>1. PICK ms \in SUBSET tick.held : Route({Held(m) : m \in ms})
    BY <1>4 DEF TickHeld
  <2>2. UNCHANGED <<heard, fired, msg>>
    BY <1>4 DEF TickHeld, disk, side
  <2> DEFINE ws == {Held(m) : m \in ms}
  <2>3. ws \subseteq HeldWakes
    BY <1>0, <2>1 DEF TickType, HeldWakes
  <2> HIDE DEF ws
  <2>4. Out' = Out \union ws
    BY <2>1, <2>2, RouteEffect DEF ws
  <2>5. End \notin ws /\ \A m \in Msgs : Match("o", m) \notin ws
    BY <2>3, WakeFacts
  <2>6. tick'.marks \subseteq tick.marks
    BY <1>0, <1>4, TickGoesOn, NoTickIs
  <2>7. Same
    <3> HIDE DEF Out
    <3> QED BY <2>2, <2>4, <2>5 DEF FiredFor, Match
  <2> HIDE DEF FiredFor, Out
  <2> QED BY <1>0, <2>2, <2>4, <2>5, <2>6, <2>7, OnceStill
<1>5. CASE TickMarks
  <2>1. /\ fired' = fired \union tick.marks /\ tick'.marks = tick.marks
        /\ UNCHANGED <<queue, deferred, heard, dropped, msg>>
    BY <1>0, <1>5 DEF TickMarks, TickType, inbox, happened
  <2>2. Out' = Out
    BY <2>1 DEF Out
  <2>3. OnceKey \notin tick.marks
    BY <1>0, WakeFacts DEF TickType, Wakes
  <2>4. Same
    BY <1>1, <2>1, <2>2
  <2> HIDE DEF FiredFor, Out
  <2> QED BY <1>0, <2>1, <2>2, <2>3, <2>4, OnceStill
<1>6. CASE TickRewrites \/ TickReleases \/ TickFails
  <2>1. UNCHANGED <<queue, deferred, heard, dropped, fired, msg>>
    BY <1>6 DEF TickRewrites, TickReleases, TickFails, disk, side, inbox, happened
  <2>2. Out' = Out
    BY <2>1 DEF Out
  <2>3. tick'.marks \subseteq tick.marks
    BY <1>0, <1>6, TickGoesOn, NoTickIs DEF TickReleases, TickFails
  <2>4. Same
    BY <1>1, <2>1, <2>2
  <2> HIDE DEF FiredFor, Out
  <2> QED BY <1>0, <2>1, <2>2, <2>3, <2>4, OnceStill
<1>7. CASE ProcessStops
  <2>1. UNCHANGED <<queue, deferred, heard, dropped, fired>> /\ tick' = NoTick
    BY <1>7 DEF ProcessStops, disk, side, inbox, happened
  <2>2. Out' = Out
    BY <2>1 DEF Out
  <2>3. /\ \A m \in Msgs : msg'[m].pc # "matched"
        /\ \A m \in Msgs : msg[m].pc = "matched" => msg[m].wakes \subseteq cutOff'
    <3>1. UNION {msg[m].wakes : m \in Handling} \subseteq cutOff'
      BY <1>0, <1>7, CutType
    <3>2. \A m \in Msgs : msg[m].pc = "matched" => m \in Handling
      BY DEF Handling
    <3>3. \A m \in Msgs : msg[m].pc = "matched" => msg[m].wakes \subseteq cutOff'
      <4> HIDE DEF Handling
      <4> QED BY <3>1, <3>2
    <3>4. \A m \in Msgs : msg'[m].pc # "matched"
      BY <1>7 DEF ProcessStops, Handling, Unposted
    <3> QED BY <3>3, <3>4
  <2>4. \A m \in Msgs : /\ FiredFor(m)' => FiredFor(m)
                        /\ FiredFor(m) => FiredFor(m)' \/ Match("o", m) \in cutOff'
    <3> HIDE DEF Out
    <3> QED BY <2>2, <2>3 DEF FiredFor, Match
  <2>5. \A m : Match("o", m)' = Match("o", m)
    BY DEF Match
  <2> HIDE DEF FiredFor, Out, Match
  <2> QED BY <1>0, <2>1, <2>2, <2>4, <2>5, NoTickIs DEF OnceAccount, OnceKey, End
<1>8. ASSUME NEW k \in Msgs, RouteMatch(k) PROVE OnceAccount'
  <2>1. /\ Route(msg[k].wakes) /\ UNCHANGED <<heard, fired, tick>> /\ msg[k].pc = "matched"
        /\ msg' = [msg EXCEPT ![k].pc = "done"]
    BY <1>8 DEF RouteMatch, disk, side
  <2>2. Out' = Out \union msg[k].wakes
    BY <2>1, RouteEffect
  <2>3. End \notin msg[k].wakes /\ \A m \in Msgs \ {k} : Match("o", m) \notin msg[k].wakes
    BY <1>0, WakeFacts DEF OwnWakes, MsgType
  <2>4. /\ msg'[k].pc = "done"
        /\ \A m \in Msgs \ {k} : msg'[m] = msg[m]
    BY <1>0, <2>1 DEF MsgType
  <2>5. Same
    <3> HIDE DEF Out
    <3>1. \A m : Match("o", m)' = Match("o", m)
      BY DEF Match
    <3> HIDE DEF Match
    <3> QED BY <2>1, <2>2, <2>3, <2>4, <3>1 DEF FiredFor
  <2> HIDE DEF FiredFor, Out
  <2> QED BY <1>0, <2>1, <2>2, <2>3, <2>5, OnceStill
<1>9. ASSUME NEW k \in Msgs, Fire(k) PROVE OnceAccount'
  <2>1. PICK fire \in SUBSET {"o", "r"} :
          /\ "o" \in fire => OnceFires(k)
          /\ fired' = IF "o" \in fire THEN fired \union {OnceKey} ELSE fired
          /\ msg' = [msg EXCEPT ![k].pc = IF fire = {} THEN "done" ELSE "matched",
                                ![k].wakes = WakesOf(k, fire)]
          /\ crossed' = crossed
             \union {x \in {"end"} : "o" \in fire /\ End \in Out \union tick.marks}
             \union {x \in {"held"} : tick.held # {} /\ RepeatMatches(k)}
    <3> DEFINE f == {w \in {"o"} : OnceFires(k)} \union {w \in {"r"} : RepeatFires(k)}
    <3>1. f \in SUBSET {"o", "r"} /\ ("o" \in f => OnceFires(k))
      OBVIOUS
    <3>2. /\ fired' = IF "o" \in f THEN fired \union {OnceKey} ELSE fired
          /\ msg' = [msg EXCEPT ![k].pc = IF f = {} THEN "done" ELSE "matched",
                                ![k].wakes = WakesOf(k, f)]
          /\ crossed' = crossed
             \union {x \in {"end"} : "o" \in f /\ End \in Out \union tick.marks}
             \union {x \in {"held"} : tick.held # {} /\ RepeatMatches(k)}
      BY <1>9 DEF Fire
    <3> QED BY <3>1, <3>2
  <2>2. /\ UNCHANGED <<queue, deferred, heard, dropped, tick>> /\ msg[k].pc = "looked"
    BY <1>9 DEF Fire, inbox
  <2>3. Out' = Out
    BY <2>2 DEF Out
  <2> DEFINE new == WakesOf(k, fire)
  <2>4. Match("o", k) \in new <=> "o" \in fire
    BY WakeFacts DEF WakesOf
  <2> HIDE DEF new
  <2>5. /\ msg'[k].wakes = new /\ msg'[k].pc = IF fire = {} THEN "done" ELSE "matched"
        /\ \A m \in Msgs \ {k} : msg'[m] = msg[m]
    BY <1>0, <2>1 DEF MsgType, new
  <2>6. \A m : Match("o", m)' = Match("o", m)
    BY DEF Match
  <2> HIDE DEF Match, Out
  <2>7. /\ \A m \in Msgs \ {k} : FiredFor(m)' <=> FiredFor(m)
        /\ FiredFor(k)' <=> (FiredFor(k) \/ "o" \in fire)
    BY <2>2, <2>3, <2>4, <2>5, <2>6 DEF FiredFor
  <2> HIDE DEF FiredFor
  <2>8. CASE "o" \in fire
    <3>1. OnceKey \notin fired /\ OnceKey \in fired'
      BY <2>1, <2>8 DEF OnceFires
    <3>2. \A m \in Msgs : ~FiredFor(m)
      BY <3>1 DEF OnceAccount
    <3>3. End \in Out' \union tick'.marks => "end" \in crossed'
      BY <2>1, <2>2, <2>3, <2>8
    <3> QED BY <2>6, <2>7, <2>8, <3>1, <3>2, <3>3 DEF OnceAccount, OnceKey, End
  <2>9. CASE "o" \notin fire
    BY <1>0, <2>1, <2>2, <2>3, <2>7, <2>9, OnceStill
  <2> QED BY <2>8, <2>9
<1>10. CASE Turn \/ ReleaseDeferred
  <2>1. Out' = Out /\ UNCHANGED <<fired, msg, tick>>
    BY <1>10 DEF Turn, ReleaseDeferred, happened, disk, side, Out
  <2>2. Same
    BY <1>1, <2>1
  <2> HIDE DEF FiredFor, Out
  <2> QED BY <1>0, <2>1, <2>2, OnceStill
<1>11. ASSUME NEW k \in Msgs, Post(k) \/ Look(k) PROVE OnceAccount'
  <2>1. UNCHANGED <<queue, deferred, heard, dropped, fired, tick>>
    BY <1>11 DEF Post, Look, disk, side, inbox, happened
  <2>2. Out' = Out
    BY <2>1 DEF Out
  <2>3. /\ msg[k].pc # "matched" /\ msg'[k].pc # "matched"
        /\ \A m \in Msgs \ {k} : msg'[m] = msg[m]
    <3>1. CASE Post(k)
      BY <1>0, <3>1 DEF Post, MsgType, Unposted
    <3>2. CASE Look(k)
      BY <1>0, <3>2 DEF Look, MsgType
    <3> QED BY <1>11, <3>1, <3>2
  <2>4. Same
    <3> HIDE DEF Out
    <3>1. \A m : Match("o", m)' = Match("o", m)
      BY DEF Match
    <3> HIDE DEF Match
    <3> QED BY <2>2, <2>3, <3>1 DEF FiredFor
  <2> HIDE DEF FiredFor, Out
  <2> QED BY <1>0, <2>1, <2>2, <2>4, OnceStill
<1>12. ASSUME NEW new \in SUBSET known, NEW d \in DueAt, HerWrite(new, d) PROVE OnceAccount'
  <2>1. UNCHANGED <<queue, deferred, heard, dropped, tick, msg, fired>>
    BY <1>12 DEF HerWrite, inbox
  <2>2. Out' = Out
    BY <2>1 DEF Out
  <2>3. Same
    BY <1>1, <2>1, <2>2
  <2> HIDE DEF FiredFor, Out
  <2> QED BY <1>0, <2>1, <2>2, <2>3, OnceStill
<1>13. CASE FileBreaks \/ Pause \/ Resume \/ Spend \/ NewDay \/ Restart \/ Clock
  <2>1. UNCHANGED <<queue, deferred, heard, dropped, tick, msg, fired>>
    BY <1>13 DEF FileBreaks, Pause, Resume, Spend, NewDay, Restart, Clock, inbox, happened, disk,
       side
  <2>2. Out' = Out
    BY <2>1 DEF Out
  <2>3. Same
    BY <1>1, <2>1, <2>2
  <2> HIDE DEF FiredFor, Out
  <2> QED BY <1>0, <2>1, <2>2, <2>3, OnceStill
<1> QED BY <1>2, <1>3, <1>4, <1>5, <1>6, <1>7, <1>8, <1>9, <1>10, <1>11, <1>12, <1>13
        DEF WakeupsNext, TickSteps

-----------------------------------------------------------------------------
(* The repeating watch *)

\* Her side file and the rings agree.
RepeatBook ==
  /\ rung = IF tick.rang THEN Append(fires, tick.at) ELSE fires
  /\ tick.held # {} /\ ~tick.rang => UnderCap /\ Spaced(tick.at)
  /\ Len(rung) <= MaxFires
  /\ ~tooSoon

\* A ring that keeps the spacing and comes under the cap.
LEMMA RingsInTime ==
  ASSUME DiskType, rung = fires, UnderCap, ~tooSoon, NEW n \in Times, NEW wrote \in Times,
         Rings(n, wrote),
         Spaced(n) \/ (fires # <<>> /\ wrote > fires[Len(fires)])
  PROVE  /\ rung' = Append(fires, n)
         /\ Len(rung') <= MaxFires
         /\ ~tooSoon'
<1>1. fires \in Seq(Times) /\ Times \subseteq Nat
  BY DEF DiskType, Times
<1>2. rung' = Append(fires, n)
  BY DEF Rings
<1>3. Len(rung') <= MaxFires
  BY <1>1, <1>2, WakeupsAssumption DEF UnderCap
<1>4. ~tooSoon'
  <2>1. CASE fires = <<>>
    BY <2>1 DEF Rings
  <2>2. CASE fires # <<>>
    <3> DEFINE last == fires[Len(fires)]
    <3>1. last \in Nat /\ n \in Nat /\ wrote \in Nat
      <4>1. Len(fires) \in 1..Len(fires) /\ \A i \in 1..Len(fires) : fires[i] \in Times
        BY <1>1, <2>2
      <4> QED BY <1>1, <4>1
    <3>2. tooSoon' = (tooSoon \/ (n < last + Spacing /\ wrote <= last))
      BY <2>2 DEF Rings
    <3>3. n >= last + Spacing \/ wrote > last
      BY <2>2 DEF Spaced
    <3> HIDE DEF last
    <3>4. ~(n < last + Spacing /\ wrote <= last)
      BY <3>1, <3>3, WakeupsAssumption
    <3> QED BY <3>2, <3>4
  <2> QED BY <2>1, <2>2
<1> QED BY <1>2, <1>3, <1>4

LEMMA RepeatStep ==
  ASSUME WakeupsTypeOK, TickOrder, HeldAccount, RepeatAccount, WakeupsNext
  PROVE  RepeatAccount'
<1> SUFFICES ASSUME "held" \notin crossed', again' \intersect HeldWakes = {}
             PROVE  RepeatBook'
  BY DEF RepeatAccount, RepeatBook, HeldWakes, Held
<1>0. TickType /\ MsgType /\ DiskType /\ "held" \notin crossed /\ again \intersect HeldWakes = {}
  BY TypeParts, AgainKeeps
<1>1. RepeatBook /\ (tick.held = {} \/ held = tick.held)
  BY <1>0 DEF RepeatAccount, RepeatBook, HeldAccount
<1> DEFINE Rung == UNCHANGED <<fires, rung, tooSoon>>
<1>2. ASSUME Rung, tick'.held = tick.held, tick'.rang = tick.rang, tick'.at = tick.at
      PROVE  RepeatBook'
  BY <1>1, <1>2 DEF RepeatBook, UnderCap, Spaced
<1>3. ASSUME UNCHANGED tooSoon, rung' = fires', Len(rung') <= MaxFires, ~tick'.rang, tick'.held = {}
      PROVE  RepeatBook'
  BY <1>1, <1>3 DEF RepeatBook
<1>4. CASE Tick
  <2>1. /\ Rung /\ tick = NoTick /\ tick'.held = DueHeld /\ ~tick'.rang /\ tick'.at = now
    BY <1>4, TickReads DEF disk, side, happened
  <2>2. DueHeld # {} => Spaced(now) /\ UnderCap
    BY DEF DueHeld
  <2>3. rung = fires
    BY <1>1, <2>1, NoTickIs DEF RepeatBook
  <2>4. Spaced(now) => Spaced(tick.at)'
    BY <2>1 DEF Spaced
  <2>5. UnderCap => UnderCap'
    BY <2>1 DEF UnderCap
  <2> HIDE DEF DueHeld, Spaced, UnderCap
  <2>6. tick'.held # {} => UnderCap' /\ Spaced(tick.at)'
    BY <2>1, <2>2, <2>4, <2>5
  <2> QED BY <1>1, <2>1, <2>3, <2>6 DEF RepeatBook
<1>5. CASE TickRoutes
  <2>1. Rung
    BY <1>5 DEF TickRoutes, disk, side
  <2> HIDE DEF Rung
  <2> QED BY <1>0, <1>2, <1>5, <2>1, TickRoutesOne
<1>6. CASE TickMarks \/ TickRewrites
  <2>1. Rung
    BY <1>6 DEF TickMarks, TickRewrites, happened
  <2>2. tick'.held = tick.held /\ tick'.rang = tick.rang /\ tick'.at = tick.at
    BY <1>0, <1>6 DEF TickMarks, TickRewrites, TickType
  <2> HIDE DEF Rung
  <2> QED BY <1>2, <2>1, <2>2
<1>7. CASE TickHeld
  <2>1. UNCHANGED fires /\ tick.pc = "held" /\ ~tick.rang /\ rung = fires
    BY <1>1, <1>7 DEF TickHeld, disk, side, RepeatBook, TickOrder
  <2>2. PICK ms \in SUBSET tick.held :
          /\ tick' = IF tick.held = {} THEN NoTick
                     ELSE [tick EXCEPT !.pc = "release", !.rang = ms # {}]
          /\ IF ms # {} THEN Rings(tick.at, 0) ELSE UNCHANGED <<rung, tooSoon>>
    BY <1>7 DEF TickHeld
  <2>3. CASE tick.held = {}
    <3>1. tick' = NoTick /\ UNCHANGED <<rung, tooSoon>>
      BY <2>2, <2>3
    <3> QED BY <1>1, <1>3, <2>1, <3>1, NoTickIs DEF RepeatBook
  <2>4. CASE tick.held # {} /\ ms = {}
    <3>1. Rung
      BY <2>1, <2>2, <2>4
    <3>2. tick'.held = tick.held /\ ~tick'.rang /\ tick'.at = tick.at
      BY <1>0, <2>2, <2>4 DEF TickType
    <3>3. tick'.rang = tick.rang
      BY <1>0, <2>1, <2>2, <2>4 DEF TickType
    <3> HIDE DEF Rung
    <3> QED BY <1>2, <3>1, <3>2, <3>3
  <2>5. CASE tick.held # {} /\ ms # {}
    <3>1. tick'.rang /\ tick'.at = tick.at
      BY <1>0, <2>2, <2>5 DEF TickType
    <3>2. UnderCap /\ Spaced(tick.at) /\ ~tooSoon
      BY <1>1, <2>1, <2>5 DEF RepeatBook
    <3>3. tick.at \in Times /\ 0 \in Times
      BY <1>0, WakeupsAssumption DEF TickType, Times
    <3>4. Rings(tick.at, 0)
      BY <2>2, <2>5
    <3>5. rung' = Append(fires, tick.at) /\ Len(rung') <= MaxFires /\ ~tooSoon'
      BY <1>0, <2>1, <3>2, <3>3, <3>4, RingsInTime
    <3> QED BY <2>1, <3>1, <3>5 DEF RepeatBook
  <2> QED BY <2>3, <2>4, <2>5
<1>8. CASE TickReleases
  <2>1. /\ tick' = NoTick /\ UNCHANGED <<rung, tooSoon>>
        /\ IF held = tick.held
           THEN fires' = IF tick.rang THEN Append(fires, tick.at) ELSE fires
           ELSE UNCHANGED fires
    BY <1>8 DEF TickReleases, happened
  <2>2. fires' = rung
    <3>1. CASE tick.rang
      BY <1>1, <2>1, <3>1 DEF RepeatBook, TickOrder
    <3>2. CASE ~tick.rang
      BY <1>1, <2>1, <3>2 DEF RepeatBook
    <3> QED BY <3>1, <3>2
  <2> QED BY <1>1, <1>3, <2>1, <2>2, NoTickIs DEF RepeatBook
<1>9. CASE TickFails \/ ProcessStops
  <2>1. tick' = NoTick /\ again' = again \union Unrecorded /\ Rung
    BY <1>9 DEF TickFails, ProcessStops, disk, side
  <2>2. ~tick.rang
    <3>1. SUFFICES ASSUME tick.rang PROVE FALSE
      OBVIOUS
    <3>2. PICK m \in tick.held : m \in Msgs
      BY <1>0, <3>1 DEF TickOrder, TickType
    <3>3. Held(m) \in Unrecorded
      BY <3>1, <3>2 DEF Unrecorded
    <3>4. Held(m) \in HeldWakes
      BY <3>2, WakeFacts
    <3> QED BY <2>1, <3>3, <3>4
  <2> QED BY <1>1, <1>3, <2>1, <2>2, NoTickIs DEF RepeatBook
<1>10. ASSUME NEW k \in Msgs, Fire(k) PROVE RepeatBook'
  <2>1. tick' = tick
    BY <1>10 DEF Fire
  <2>2. CASE RepeatFires(k)
    <3>1. /\ fires' = Append(fires, msg[k].at) /\ Rings(msg[k].at, msg[k].sent)
          /\ tick.held = {}
      BY <1>10, <2>2 DEF Fire, RepeatFires
    <3>2. ~tick.rang /\ rung = fires /\ ~tooSoon
      BY <1>1, <3>1 DEF TickOrder, RepeatBook
    <3>3. UnderCap /\ (Spaced(msg[k].at) \/ (fires # <<>> /\ msg[k].sent > fires[Len(fires)]))
      BY <2>2 DEF RepeatFires, RepeatMatches, Conversing
    <3>4. msg[k].at \in Times /\ msg[k].sent \in Times
      BY <1>0 DEF MsgType
    <3>5. rung' = Append(fires, msg[k].at) /\ Len(rung') <= MaxFires /\ ~tooSoon'
      BY <1>0, <3>1, <3>2, <3>3, <3>4, RingsInTime
    <3> QED BY <2>1, <3>1, <3>2, <3>5 DEF RepeatBook
  <2>3. CASE ~RepeatFires(k)
    <3>1. Rung
      BY <1>10, <2>3 DEF Fire
    <3> HIDE DEF Rung
    <3> QED BY <1>2, <2>1, <3>1
  <2> QED BY <2>2, <2>3
<1>11. ASSUME NEW new \in SUBSET known, NEW d \in DueAt, HerWrite(new, d) PROVE RepeatBook'
  <2>1. /\ fires' = IF "r" \in new \intersect file THEN fires ELSE <<>>
        /\ rung' = IF "r" \in new \intersect file THEN rung ELSE <<>>
        /\ tick' = tick /\ tooSoon' = tooSoon /\ tick.held = {}
    BY <1>11 DEF HerWrite
  <2>2. ~tick.rang /\ rung = fires /\ Len(rung) <= MaxFires
    BY <1>1, <2>1 DEF RepeatBook, TickOrder
  <2>3. Len(rung') <= MaxFires /\ rung' = fires'
    BY <2>1, <2>2, WakeupsAssumption
  <2> QED BY <1>3, <2>1, <2>2, <2>3
<1>12. ASSUME NEW k \in Msgs, Post(k) \/ Look(k) \/ RouteMatch(k) PROVE RepeatBook'
  <2>1. Rung /\ tick' = tick
    BY <1>12 DEF Post, Look, RouteMatch, disk, side, happened
  <2> HIDE DEF Rung
  <2> QED BY <1>2, <2>1
<1>13. CASE Turn \/ ReleaseDeferred \/ FileBreaks \/ Pause \/ Resume \/ Spend \/ NewDay \/ Restart \/ Clock
  <2>1. Rung /\ tick' = tick
    BY <1>13 DEF Turn, ReleaseDeferred, FileBreaks, Pause, Resume, Spend, NewDay, Restart, Clock,
       disk, side, happened
  <2> HIDE DEF Rung
  <2> QED BY <1>2, <2>1
<1> QED BY <1>4, <1>5, <1>6, <1>7, <1>8, <1>9, <1>10, <1>11, <1>12, <1>13
        DEF WakeupsNext, TickSteps

-----------------------------------------------------------------------------
(* The theorems *)

LEMMA WatchInitially ==
  ASSUME WakeupsInit
  PROVE  WatchInv
<1> USE DEF WakeupsInit
<1>1. OnceAccount
  BY NoTickIs DEF OnceAccount, FiredFor, Out, Unposted
<1>2. RepeatAccount
  BY NoTickIs, WakeupsAssumption DEF RepeatAccount
<1> QED BY <1>1, <1>2 DEF WatchInv

LEMMA WatchImplies ==
  ASSUME RingInv, WatchInv
  PROVE  WatchesFire
<1>1. \A m \in Msgs : Match("o", m) \in Out \union Underway <=> FiredFor(m)
  <2> TAKE m \in Msgs
  <2>1. \A n \in Msgs : Match("o", m) \in msg[n].wakes => n = m
    <3> TAKE n \in Msgs
    <3>1. msg[n].wakes \subseteq {Match("o", n), Match("r", n)}
      BY DEF RingInv, OwnWakes
    <3> QED BY <3>1, WakeFacts
  <2>2. Match("o", m) \in Underway <=> msg[m].pc = "matched" /\ Match("o", m) \in msg[m].wakes
    BY <2>1 DEF Underway
  <2> QED BY <2>2 DEF FiredFor
<1>2. OnceFiresOnce
  <2> DEFINE S == {m \in Msgs : Match("o", m) \in Out \union Underway}
  <2>1. \A m, n \in S : m = n
    BY <1>1 DEF WatchInv, OnceAccount
  <2> HIDE DEF S
  <2>2. CASE S = {}
    BY <2>2, FS_EmptySet DEF OnceFiresOnce, S
  <2>3. CASE S # {}
    <3>1. PICK m : S = {m}
      BY <2>1, <2>3
    <3>2. Cardinality(S) = 1
      BY <3>1, FS_Singleton
    <3> QED BY <3>2 DEF OnceFiresOnce, S
  <2> QED BY <2>2, <2>3
<1>3. MatchIsOut
  BY <1>1 DEF WatchInv, OnceAccount, MatchIsOut
<1>4. EndOrMatch
  BY DEF WatchInv, OnceAccount, EndOrMatch
<1>5. RepeatSpaced
  <2>1. Len(rung) \in Nat
    BY TypeParts DEF RingInv, GhostType
  <2>2. Len(rung) <= MaxFires => ~(Len(rung) > MaxFires)
    BY <2>1, WakeupsAssumption
  <2> QED BY <2>2, Zenon DEF WatchInv, RepeatAccount, RepeatSpaced
<1> QED BY <1>2, <1>3, <1>4, <1>5 DEF WatchesFire

LEMMA WakeInvariance == WakeupsSpec => []WakeInv
<1>1. WakeupsInit => WakeInv
  BY RingInitially, WatchInitially DEF WakeInv
<1>2. WakeInv /\ [WakeupsNext]_wakeVars => WakeInv'
  <2> SUFFICES ASSUME WakeInv, [WakeupsNext]_wakeVars PROVE WakeInv'
    OBVIOUS
  <2>1. CASE WakeupsNext
    <3>1. RingInv'
      BY <2>1, RingStep DEF WakeInv
    <3>2. OnceAccount'
      BY <2>1, OnceStep DEF WakeInv, RingInv, WatchInv
    <3>3. RepeatAccount'
      BY <2>1, RepeatStep DEF WakeInv, RingInv, WatchInv
    <3> QED BY <3>1, <3>2, <3>3 DEF WakeInv, WatchInv
  <2>2. CASE UNCHANGED wakeVars
    BY <2>2, WakesStutter
  <2> QED BY <2>1, <2>2
<1> QED BY <1>1, <1>2, PTL DEF WakeupsSpec

\* Whatever her file starts with, however long the clock runs and however often
\* she edits, pauses, or the process stops: a reminder, a repeating time and the
\* end of a watch ring once and leave her file only after they rang or were
\* matched; nothing rings twice but what a tick that ended early had routed and
\* not recorded, and the held matches HeardOnce names.
THEOREM WakeupRingsOnce == WakeupsSpec => []RingsOnce
<1>1. WakeInv => RingsOnce
  BY RingImplies DEF WakeInv
<1> QED BY <1>1, WakeInvariance, PTL

\* And a watch fires for what it watches: the once watch for one message, whose
\* match is with her, on its way or cut off by a crash, and not for its end too;
\* the repeating one within its spacing and its daily cap.
THEOREM WatchFiresInTurn == WakeupsSpec => []WatchesFire
<1>1. WakeInv => WatchesFire
  BY WatchImplies DEF WakeInv
<1> QED BY <1>1, WakeInvariance, PTL
=============================================================================
