---------------------------- MODULE SendRecovery ----------------------------
(***************************************************************************)
(* One SendMessage script, from its first intent to the result she reads.  *)
(*                                                                         *)
(* The script calls tools.send_message one call after the other, each with *)
(* a list of messages.  What it means to send, tries, and has sent is      *)
(* appended to intents.jsonl as it goes; when the process dies, boot       *)
(* repair tells her from those lines and from Discord what went out        *)
(* (life/repair.ts), without sending anything.  A message is a line number,*)
(* which stands for its Discord id as well; 0 is a message she sent just   *)
(* before.  Waits, typing and reactions are the moments at which a call    *)
(* may stop or throw.                                                      *)
(***************************************************************************)
EXTENDS Naturals, Sequences, FiniteSets

CONSTANTS
  Plan,       \* the calls of the script, each the sequence of its lines
  Texts,      \* what a message may say
  Places,     \* where a call may send
  MaxFaults   \* bound: failed writes, Discord errors and throws

Calls == DOMAIN Plan
LinesOf(c) == {Plan[c][i] : i \in DOMAIN Plan[c]}
Lines == UNION {LinesOf(c) : c \in Calls}
CallOf(l) == CHOOSE c \in Calls : l \in LinesOf(c)

ASSUME PlanAssumption ==
  /\ Plan \in Seq(Seq(Nat \ {0}))
  /\ \A c \in Calls : \A i, j \in DOMAIN Plan[c] : i < j => Plan[c][i] < Plan[c][j]
  /\ \A c, d \in Calls : c # d => LinesOf(c) \cap LinesOf(d) = {}
  /\ MaxFaults \in Nat

Said == {"silent", "sent", "not sent", "unknown"}

VARIABLES
  text, place,   \* what each message says, where each call sends
  discord,       \* the messages of hers Discord has taken
  intents,       \* intents.jsonl
  tool,          \* where the tool call stands
  call, at,      \* the call under way (0: none) and its next line's position
  step,          \* where the send of that line stands
  begun, sent,   \* calls begun, messages of this call Discord answered for
  aborted,       \* the turn was stopped
  told,          \* what the result says of each line
  lost, unbooked, adrift,  \* what went wrong
  faults

input == <<text, place>>
cursor == <<call, at, step>>
ghosts == <<lost, unbooked, adrift>>
vars == <<input, discord, intents, tool, cursor, begun, sent, aborted, told, ghosts, faults>>

Init ==
  /\ text \in {t \in [Lines \cup {0} -> Texts] : t[0] = CHOOSE x \in Texts : TRUE}
  /\ place \in [Calls -> Places]
  /\ discord \in {{}, {0}}
  /\ intents = [start |-> FALSE, plans |-> {}, tried |-> {}, booked |-> {},
                ended |-> {}, listed |-> [c \in Calls |-> {}], done |-> FALSE]
  /\ tool = "asked" /\ call = 0 /\ at = 0 /\ step = "none"
  /\ begun = 0 /\ sent = {} /\ aborted = FALSE
  /\ told = [l \in Lines |-> "silent"]
  /\ lost = {} /\ unbooked = {} /\ adrift = {}
  /\ faults = 0

Fault == faults < MaxFaults /\ faults' = faults + 1
Says(what, lines) == [l \in Lines |-> IF l \in lines THEN what ELSE told[l]]

-----------------------------------------------------------------------------
(* A call.                                                                 *)

\* The tool call's own intent, before its script starts.
Begin ==
  /\ tool = "asked"
  /\ intents' = [intents EXCEPT !.start = TRUE]
  /\ tool' = "running"
  /\ UNCHANGED <<input, discord, cursor, begun, sent, aborted, told, ghosts, faults>>

\* The next call, checked and planned; the calls run one at a time.
BeginCall ==
  /\ tool = "running" /\ call = 0 /\ begun < Len(Plan) /\ ~aborted
  /\ begun' = begun + 1
  /\ call' = begun + 1 /\ at' = 1 /\ step' = "next" /\ sent' = {}
  /\ intents' = [intents EXCEPT !.plans = @ \cup {begun + 1}]
  /\ UNCHANGED <<input, discord, tool, aborted, told, ghosts, faults>>

\* A call that is refused, or whose plan cannot be written, sends nothing.
CallRefused ==
  /\ tool = "running" /\ call = 0 /\ begun < Len(Plan) /\ ~aborted
  /\ Fault
  /\ begun' = begun + 1
  /\ UNCHANGED <<input, discord, intents, tool, cursor, sent, aborted, told, ghosts>>

Line == Plan[call][at]
More == at <= Len(Plan[call])

\* onFinalContent: the digest of the message, just before the Discord call.
Try ==
  /\ call # 0 /\ step = "next" /\ More /\ ~aborted
  /\ intents' = [intents EXCEPT !.tried = @ \cup {Line}]
  /\ step' = "tried"
  /\ UNCHANGED <<input, discord, tool, call, at, begun, sent, aborted, told, ghosts, faults>>

\* The digest cannot be written, and nothing is sent.
TryFails ==
  /\ call # 0 /\ step = "next" /\ More /\ ~aborted
  /\ Fault
  /\ step' = "stopped"
  /\ UNCHANGED <<input, discord, intents, tool, call, at, begun, sent, aborted, told, ghosts>>

DiscordTakes ==
  /\ call # 0 /\ step = "tried"
  /\ discord' = discord \cup {Line}
  /\ step' = "taken"
  /\ UNCHANGED <<input, intents, tool, call, at, begun, sent, aborted, told, ghosts, faults>>

\* The Discord call throws, without or after taking the message.
DiscordFails ==
  /\ call # 0 /\ step \in {"tried", "taken"}
  /\ Fault
  /\ lost' = lost \cup (discord \cap {Line})
  /\ step' = "stopped"
  /\ UNCHANGED <<input, discord, intents, tool, call, at, begun, sent, aborted, told, unbooked,
                 adrift>>

\* Discord answered: the message is sent, and its done line written, if it can be.
Book ==
  /\ call # 0 /\ step = "taken"
  /\ sent' = sent \cup {Line}
  /\ at' = at + 1 /\ step' = "next"
  /\ \/ /\ intents' = [intents EXCEPT !.booked = @ \cup {Line}]
        /\ UNCHANGED <<unbooked, faults>>
     \/ /\ Fault /\ unbooked' = unbooked \cup {Line}
        /\ UNCHANGED intents
  /\ UNCHANGED <<input, discord, tool, call, begun, aborted, told, lost, adrift>>

\* Between two lines: somebody wrote, the place closed, or the turn was stopped.
Stop ==
  /\ call # 0 /\ step = "next" /\ More
  /\ step' = "stopped"
  /\ UNCHANGED <<input, discord, intents, tool, call, at, begun, sent, aborted, told, ghosts,
                 faults>>

\* What the receipt of a call, or its error, says of its lines: "not sent" from
\* the stop on.  What comes after the tool call has settled is not read.
Receipt == IF tool # "running" THEN told
           ELSE [l \in Lines |-> IF l \in sent THEN "sent"
                                 ELSE IF l \in LinesOf(call) THEN "not sent" ELSE told[l]]

\* callDone, with the ids in order; that it cannot be written is only logged.
\* Reading how long nobody has answered, before the receipt, never throws.
EndCall ==
  /\ call # 0 /\ (step = "stopped" \/ (step = "next" /\ ~More))
  /\ \/ /\ intents' = [intents EXCEPT !.ended = @ \cup {call}, !.listed[call] = sent]
        /\ UNCHANGED faults
     \/ Fault /\ UNCHANGED intents
  /\ told' = Receipt
  /\ call' = 0 /\ at' = 0 /\ step' = "none" /\ sent' = {}
  /\ UNCHANGED <<input, discord, tool, begun, aborted, ghosts>>

\* Thrown between two lines: no done line, and a receipt only if something went out.
CallThrows ==
  /\ call # 0 /\ step = "next" /\ More
  /\ Fault
  /\ told' = IF sent = {} THEN told ELSE Receipt
  /\ call' = 0 /\ at' = 0 /\ step' = "none" /\ sent' = {}
  /\ UNCHANGED <<input, discord, intents, tool, begun, aborted, ghosts>>

-----------------------------------------------------------------------------
(* The script, its tool call and the turn.                                 *)

\* Pause, stop or the wall clock: no call starts and no line is tried any more.
Abort ==
  /\ tool = "running" /\ ~aborted
  /\ aborted' = TRUE
  /\ UNCHANGED <<input, discord, intents, tool, cursor, begun, sent, told, ghosts, faults>>

\* Her script is over; its calls are waited for.
ScriptEnds ==
  /\ tool = "running" /\ call = 0
  /\ tool' = "settled"
  /\ UNCHANGED <<input, discord, intents, cursor, begun, sent, aborted, told, ghosts, faults>>

\* A call that is still running after the grace: not known yet.
GraceEnds ==
  /\ tool = "running" /\ aborted /\ call # 0
  /\ tool' = "settled"
  /\ adrift' = adrift \cup {call}
  /\ told' = Says("unknown", LinesOf(call))
  /\ UNCHANGED <<input, discord, intents, cursor, begun, sent, aborted, lost, unbooked, faults>>

ToolDone ==
  /\ tool = "settled"
  /\ intents' = [intents EXCEPT !.done = TRUE]
  /\ tool' = "done"
  /\ UNCHANGED <<input, discord, cursor, begun, sent, aborted, told, ghosts, faults>>

\* The results of the round go into her log.
Log ==
  /\ tool = "done"
  /\ tool' = "logged"
  /\ UNCHANGED <<input, discord, intents, cursor, begun, sent, aborted, told, ghosts, faults>>

Crash ==
  /\ tool \in {"asked", "running", "settled", "done"}
  /\ tool' = "down"
  /\ call' = 0 /\ at' = 0 /\ step' = "none" /\ sent' = {}
  /\ told' = [l \in Lines |-> "silent"]
  /\ UNCHANGED <<input, discord, intents, begun, aborted, ghosts, faults>>

-----------------------------------------------------------------------------
(* Boot repair.                                                            *)

\* What a plan's lines are told as: those sent, the one in doubt, the others not.
Told(c, out, doubt) ==
  [l \in LinesOf(c) |-> IF l \in out THEN "sent" ELSE IF l \in doubt THEN "unknown" ELSE "not sent"]

Prefix(c, n) == {Plan[c][i] : i \in 1 .. n}
Booked(c) == LinesOf(c) \cap intents.booked
FirstOf(S) == IF S = {} THEN {} ELSE {CHOOSE l \in S : \A m \in S : l <= m}

\* A call that is over: its own list, unless its messages' done lines name more.
OfEndedCall(c) ==
  LET listed == intents.listed[c]
      out == IF Cardinality(listed) > Cardinality(Booked(c))
             THEN Prefix(c, Cardinality(listed)) ELSE Booked(c)
  IN Told(c, out, {})

\* A call whose place is gone: the first line without a done line, if it was tried.
OfLostPlace(c) ==
  Told(c, Booked(c), FirstOf(LinesOf(c) \ Booked(c)) \cap intents.tried)

\* Mutant: a message already known is found again.
AlikeAgain(c, l, known) ==
  {m \in discord : text[m] = text[l] /\ (m # 0 => place[CallOf(m)] = place[c])}

\* Her messages in the place since the script began that say the same, but for
\* those known to be other lines of this call.
Alike(c, l, known) ==
  {m \in discord \ known : text[m] = text[l] /\ (m # 0 => place[CallOf(m)] = place[c])}

\* Mutant: a place that cannot be read is one without the message.
OfScriptAlways(c, readable) ==
  LET next == FirstOf(LinesOf(c) \ Booked(c))
      known == {l \in LinesOf(c) : \A n \in next : l < n}
      found == {l \in next : readable /\ Alike(c, l, known) # {}}
  IN Told(c, known \cup found, {})

\* recoverScript: the lines up to the first without a done line, and that one if
\* it is found; nothing after it is looked at.
OfScript(c, readable) ==
  LET next == FirstOf(LinesOf(c) \ Booked(c))
      known == {l \in LinesOf(c) : \A n \in next : l < n}
      found == {l \in next : Alike(c, l, known) # {}}
  IN IF readable THEN Told(c, known \cup found, {}) ELSE Told(c, known, next)

OfPlan(c, reach) ==
  IF intents.done \/ c \in intents.ended THEN OfEndedCall(c)
  ELSE IF reach = "gone" THEN OfLostPlace(c)
  ELSE OfScript(c, reach = "readable")

\* recoverSendCalls: with nothing sent the whole is one of two answers.
Recovered(reach) ==
  LET of == [c \in intents.plans |-> OfPlan(c, reach[place[c]])]
      all == {of[CallOf(l)][l] : l \in UNION {LinesOf(c) : c \in intents.plans}}
  IN IF "sent" \in all
     THEN [l \in Lines |-> IF CallOf(l) \in intents.plans THEN of[CallOf(l)][l] ELSE "silent"]
     ELSE [l \in Lines |-> IF "unknown" \in all THEN "unknown" ELSE "not sent"]

\* repairLife answers the open call; one without an intent never began.
Repair ==
  /\ tool = "down"
  /\ \E reach \in [Places -> {"readable", "unreadable", "gone"}] :
       told' = IF intents.start THEN Recovered(reach) ELSE told
  /\ tool' = "logged"
  /\ UNCHANGED <<input, discord, intents, cursor, begun, sent, aborted, ghosts, faults>>

-----------------------------------------------------------------------------
Next ==
  \/ Begin \/ BeginCall \/ CallRefused \/ Try \/ TryFails \/ DiscordTakes \/ DiscordFails
  \/ Book \/ Stop \/ EndCall \/ CallThrows
  \/ Abort \/ ScriptEnds \/ GraceEnds \/ ToolDone \/ Log
  \/ Crash \/ Repair

Spec == Init /\ [][Next]_vars

-----------------------------------------------------------------------------
TypeOK ==
  /\ text \in [Lines \cup {0} -> Texts] /\ place \in [Calls -> Places]
  /\ discord \subseteq Lines \cup {0}
  /\ intents \in [start : BOOLEAN, plans : SUBSET Calls, tried : SUBSET Lines,
                  booked : SUBSET Lines, ended : SUBSET Calls, listed : [Calls -> SUBSET Lines],
                  done : BOOLEAN]
  /\ tool \in {"asked", "running", "settled", "done", "logged", "down"}
  /\ call \in {0} \cup Calls /\ at \in Nat
  /\ step \in {"none", "next", "tried", "taken", "stopped"}
  /\ begun \in 0 .. Len(Plan) /\ sent \subseteq Lines /\ aborted \in BOOLEAN
  /\ told \in [Lines -> Said]
  /\ lost \subseteq Lines /\ unbooked \subseteq Lines /\ adrift \subseteq Calls
  /\ faults \in 0 .. MaxFaults

Denied == {l \in Lines : tool = "logged" /\ told[l] = "not sent"} \cap discord
Claimed == {l \in Lines : tool = "logged" /\ told[l] = "sent"} \ discord

\* "A send that began is never reported as not sent" (messages-and-refs.md:196),
\* by a receipt or by boot repair, but for three causes: Discord's call failed
\* after it had taken the message, a done line could not be written before a
\* crash (repair looks for the first such line only), or the script ended
\* without its call and the process died before the result was kept.
SentIsNotDenied ==
  \A l \in Denied :
    \/ l \in lost
    \/ /\ CallOf(l) \notin intents.ended
       /\ \/ \E u \in unbooked \cap LinesOf(CallOf(l)) : u <= l
          \/ CallOf(l) \in adrift /\ intents.done

\* The same without the causes; the code does not keep it.
SendThatBeganIsNeverDenied == Denied = {}

\* What she is told was sent is on Discord: repair takes another message for it
\* only when that one says the same in the same place and is of another call of
\* the script or of just before it.
ClaimedIsSent ==
  \A l \in Claimed : \E m \in discord \ LinesOf(CallOf(l)) :
    text[m] = text[l] /\ (m = 0 \/ place[CallOf(m)] = place[CallOf(l)])

\* Every claim is true; the code does not keep it.
EveryClaimIsTrue == Claimed = {}

\* A result says one of four things of every line, and "not sent" of none that
\* went out, but for the three causes.
ToldAsItIs == TypeOK /\ SentIsNotDenied
=============================================================================
