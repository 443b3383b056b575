-------------------------- MODULE OperationLedger --------------------------
(* The receipts of unsafe API requests (src/src/storage/operationStore.ts)  *)
(* and the hooks that write them around a handler (src/src/api/             *)
(* mutations.ts).  A request is reserved under its idempotency key, audited *)
(* as accepted, handled, audited with its outcome and completed.  Every     *)
(* step is one write of the ledger or of the audit file, each under its own *)
(* lock and each landing whole or not at all, so requests interleave        *)
(* between the steps; the client of any of them may go away at any time,    *)
(* any write may fail, and the process may die.                             *)
(*                                                                          *)
(* A key stands for the actor, method, target and idempotency key that      *)
(* select a receipt (operationLookupHash).  A receipt is named by the       *)
(* request that created it.  Time is counted in retention units.            *)
EXTENDS Naturals, FiniteSets

CONSTANTS Requests, Keys, Bodies,
          Recoverable,   \* keys whose route is of class invitation_recovery
          None,
          Capacity,      \* receipts the ledger holds (maxRecords)
          Completed,     \* COMPLETED_OPERATION_RETENTION_SECONDS
          Unresolved,    \* UNRESOLVED_OPERATION_RETENTION_SECONDS
          Horizon, MaxFails, MaxCrashes, MaxAborts   \* bounds of the model

Receipts == [op : Requests, body : Bodies, status : {"prepared", "completed", "outcome_unknown"},
             outcome : {"none", "ok", "rejected"}, response : BOOLEAN, expires : Nat]

ASSUME LedgerAssumption ==
  /\ Recoverable \subseteq Keys
  /\ None \notin Requests /\ None \notin Receipts
  /\ Capacity \in Nat /\ Completed \in Nat \ {0} /\ Unresolved \in Nat \ {0}
  /\ Horizon \in Nat /\ MaxFails \in Nat /\ MaxCrashes \in Nat /\ MaxAborts \in Nat

VARIABLES
  asked,      \* request -> the key and the body it carries
  pc,         \* request -> where its hooks and handler stand
  op,         \* request -> the receipt it works under (mutationContext.operationId)
  abort,      \* request -> where its abort hook stands (markAbortedUnknown)
  finalizing, \* requests whose finalizationAttempted is set
  gone,       \* requests whose client has gone away
  ran,        \* requests whose handler has run
  reply,      \* request -> "ok" or "rejected", what its handler said
  answer,     \* request -> what its client is told
  ledger,     \* key -> its receipt or None, on disk
  audit,      \* receipt -> the outcomes the audit file holds of it, on disk
  active,     \* activeOperationIds, in memory
  clock,
  fails, crashes,
  unsettled,  \* receipts whose last settling write failed (history)
  spent       \* key -> requests whose handler ran since its receipt last expired (history)

vars == <<asked, pc, op, abort, finalizing, gone, ran, reply, answer, ledger, audit, active, clock, fails, crashes, unsettled, spent>>
disk == <<ledger, audit>>
handling == <<finalizing, gone, ran, reply>>

Outcomes == {"accepted", "completed", "rejected", "conflict", "unknown"}
Answers == [kind : {"none", "done", "durability", "unavailable", "capacity", "conflict", "replay", "pending", "gone"},
            op : Requests \cup {None}]

Key(r) == asked[r].key
Told(r, kind, of) == answer' = [answer EXCEPT ![r] = [kind |-> kind, op |-> of]]
Goes(r, to) == pc' = [pc EXCEPT ![r] = to]

Init ==
  /\ asked \in [Requests -> [key : Keys, body : Bodies]]
  /\ pc = [r \in Requests |-> "idle"]
  /\ op = [r \in Requests |-> None]
  /\ abort = [r \in Requests |-> "none"]
  /\ finalizing = {} /\ gone = {} /\ ran = {} /\ unsettled = {}
  /\ reply = [r \in Requests |-> "none"]
  /\ spent = [k \in Keys |-> {}]
  /\ answer = [r \in Requests |-> [kind |-> "none", op |-> None]]
  /\ ledger = [k \in Keys |-> None]
  /\ audit = [r \in Requests |-> {}]
  /\ active = {}
  /\ clock = 0 /\ fails = 0 /\ crashes = 0

-----------------------------------------------------------------------------
(* The store. *)

\* A write of the ledger or of the audit file may fail, and then leaves the
\* file as it was.
MayFail == /\ fails < MaxFails
           /\ fails' = fails + 1

\* Mutant: the word of the audit file for the word of the ledger.
UnknownMisnamed(receipt) == [receipt EXCEPT !.status = "unknown", !.outcome = "none",
                                            !.response = FALSE, !.expires = clock + Unresolved]

Unknown(receipt) == [receipt EXCEPT !.status = "outcome_unknown", !.outcome = "none",
                                    !.response = FALSE, !.expires = clock + Unresolved]

Expired(k) == ledger[k] # None /\ ledger[k].expires <= clock

\* Mutant: a restart drops what it finds prepared.
NormalizedByDropping == [k \in Keys |->
  IF ledger[k] = None \/ Expired(k) THEN None
  ELSE IF ledger[k].status = "prepared" /\ ledger[k].op \notin active THEN None
  ELSE ledger[k]]

\* What the retained receipts are: the expired ones are dropped, and a
\* prepared one no request of this process works on is unknown.
Normalized == [k \in Keys |->
  IF ledger[k] = None \/ Expired(k) THEN None
  ELSE IF ledger[k].status = "prepared" /\ ledger[k].op \notin active THEN Unknown(ledger[k])
  ELSE ledger[k]]

\* Dropping an expired receipt forgets it in memory too, and does so whether
\* or not the write of the ledger succeeds.
NormalizedActive == active \ {ledger[k].op : k \in {k \in Keys : Expired(k)}}

Prepared(r) == [op |-> r, body |-> asked[r].body, status |-> "prepared",
                outcome |-> "none", response |-> FALSE, expires |-> clock + Unresolved]

Holds(k, o) == ledger[k] # None /\ ledger[k].op = o

\* The normalized receipts are written, with the reservations made.
Write(receipts, reserved) ==
  /\ ledger' = receipts
  /\ active' = NormalizedActive \cup reserved
  /\ spent' = [k \in Keys |-> IF Expired(k) THEN {} ELSE spent[k]]

\* What getVisible shows: the receipts after a normalization.
Look == /\ Normalized # ledger
        /\ \/ Write(Normalized, {}) /\ UNCHANGED fails
           \/ MayFail /\ active' = NormalizedActive /\ UNCHANGED <<ledger, spent>>
        /\ UNCHANGED <<asked, pc, op, abort, handling, answer, audit, clock, crashes, unsettled>>

-----------------------------------------------------------------------------
(* The preHandler hook. *)

\* Existing receipt of another body: a conflict, which is audited too (a write
\* of its own; nothing reads that record, so the two writes are one step).
Conflicts(r) == /\ Normalized[Key(r)].body # asked[r].body
                /\ Goes(r, "over")
                /\ \/ /\ audit' = [audit EXCEPT ![Normalized[Key(r)].op] = @ \cup {"conflict"}]
                      /\ Told(r, "conflict", Normalized[Key(r)].op)
                      /\ UNCHANGED fails
                   \/ MayFail /\ Told(r, "unavailable", None) /\ UNCHANGED audit
                /\ UNCHANGED op

Replays(r) == /\ Normalized[Key(r)].body = asked[r].body
              /\ Normalized[Key(r)].response
              /\ Told(r, "replay", Normalized[Key(r)].op)
              /\ Goes(r, "over")
              /\ UNCHANGED <<op, audit, fails>>

\* A completed invitation is not stored: the handler runs again and asks the
\* helper for the invitation it still has.
MayRecover(r) == /\ Key(r) \in Recoverable
                 /\ Normalized[Key(r)].status = "completed"
                 /\ Normalized[Key(r)].outcome = "ok"

Recovers(r) == /\ Normalized[Key(r)].body = asked[r].body
               /\ ~Normalized[Key(r)].response
               /\ MayRecover(r)
               /\ op' = [op EXCEPT ![r] = Normalized[Key(r)].op]
               /\ Goes(r, "accepting")
               /\ UNCHANGED <<answer, audit, fails>>

\* Mutant: the body is not compared.
PendsAnyBody(r) == /\ ~Normalized[Key(r)].response
                   /\ ~MayRecover(r)
                   /\ Told(r, "pending", Normalized[Key(r)].op)
                   /\ Goes(r, "over")
                   /\ UNCHANGED <<op, audit, fails>>

Pends(r) == /\ Normalized[Key(r)].body = asked[r].body
            /\ ~Normalized[Key(r)].response
            /\ ~MayRecover(r)
            /\ Told(r, "pending", Normalized[Key(r)].op)
            /\ Goes(r, "over")
            /\ UNCHANGED <<op, audit, fails>>

ReserveExisting(r) ==
  /\ pc[r] = "idle"
  /\ Normalized[Key(r)] # None
  /\ Write(Normalized, {})
  /\ Conflicts(r) \/ Replays(r) \/ Recovers(r) \/ Pends(r)
  /\ UNCHANGED <<asked, abort, handling, clock, crashes, unsettled>>

HasRoom == Cardinality({k \in Keys : Normalized[k] # None}) < Capacity

\* Mutant: a full ledger gives up what it holds.
ReserveEvicting(r) ==
  /\ pc[r] = "idle"
  /\ Normalized[Key(r)] = None
  /\ Write([k \in Keys |-> IF k = Key(r) THEN Prepared(r) ELSE IF HasRoom THEN Normalized[k] ELSE None], {r})
  /\ op' = [op EXCEPT ![r] = r]
  /\ Goes(r, "accepting")
  /\ UNCHANGED <<asked, abort, handling, answer, audit, clock, fails, crashes, unsettled>>

ReserveNew(r) ==
  /\ pc[r] = "idle"
  /\ Normalized[Key(r)] = None
  /\ HasRoom
  /\ Write([Normalized EXCEPT ![Key(r)] = Prepared(r)], {r})
  /\ op' = [op EXCEPT ![r] = r]
  /\ Goes(r, "accepting")
  /\ UNCHANGED <<asked, abort, handling, answer, audit, clock, fails, crashes, unsettled>>

\* The ledger is full, or its write fails: 503, no effect was started.
ReserveRefused(r) ==
  /\ pc[r] = "idle"
  /\ active' = NormalizedActive
  /\ \/ /\ Normalized[Key(r)] = None /\ ~HasRoom
        /\ Told(r, "capacity", None)
        /\ UNCHANGED fails
     \/ /\ IF Normalized[Key(r)] = None THEN HasRoom ELSE Normalized # ledger
        /\ MayFail
        /\ Told(r, "unavailable", None)
  /\ Goes(r, "over")
  /\ UNCHANGED <<asked, op, abort, handling, ledger, audit, clock, crashes, unsettled, spent>>

\* With the acceptance on record the context is set: the handler runs, unless
\* the client went away during the writes.
Accept(r) ==
  /\ pc[r] = "accepting"
  /\ audit' = [audit EXCEPT ![op[r]] = @ \cup {"accepted"}]
  /\ IF r \in gone
     THEN /\ Goes(r, "over")
          /\ abort' = [abort EXCEPT ![r] = "marking"]
          /\ finalizing' = finalizing \cup {r}
     ELSE Goes(r, "handling") /\ UNCHANGED <<abort, finalizing>>
  /\ UNCHANGED <<asked, op, gone, ran, reply, answer, ledger, active, clock, fails, crashes, unsettled, spent>>

AcceptFails(r) ==
  /\ pc[r] = "accepting"
  /\ MayFail
  /\ Goes(r, "abandoning")
  /\ UNCHANGED <<asked, op, abort, handling, answer, disk, active, clock, crashes, unsettled, spent>>

\* The reservation of a request that never starts is taken back.
MayAbandon(r) == /\ Holds(Key(r), op[r])
                 /\ ledger[Key(r)].status = "prepared"
                 /\ op[r] \in active

Abandon(r) ==
  /\ pc[r] = "abandoning"
  /\ \/ /\ MayAbandon(r)
        /\ ledger' = [ledger EXCEPT ![Key(r)] = None]
        /\ active' = active \ {op[r]}
        /\ UNCHANGED <<fails, unsettled>>
     \/ /\ ~MayAbandon(r)
        /\ UNCHANGED <<ledger, active, fails, unsettled>>
     \/ /\ MayAbandon(r) /\ MayFail
        /\ unsettled' = unsettled \cup {op[r]}
        /\ UNCHANGED <<ledger, active>>
  /\ Told(r, "unavailable", None)
  /\ Goes(r, "over")
  /\ UNCHANGED <<asked, op, abort, handling, audit, clock, crashes, spent>>

-----------------------------------------------------------------------------
(* The handler, and the onSend hook behind it. *)

Handle(r) ==
  /\ pc[r] = "handling"
  /\ ran' = ran \cup {r}
  /\ spent' = [spent EXCEPT ![Key(r)] = @ \cup {r}]
  /\ \E said \in {"ok", "rejected"} : reply' = [reply EXCEPT ![r] = said]
  /\ Goes(r, "sending")
  /\ UNCHANGED <<asked, op, abort, finalizing, gone, answer, disk, active, clock, fails, crashes, unsettled>>

\* An abort hook that came first has settled the request.
SendAborted(r) ==
  /\ pc[r] = "sending"
  /\ r \in finalizing
  /\ Goes(r, "over")
  /\ Told(r, "gone", None)
  /\ UNCHANGED <<asked, op, abort, handling, disk, active, clock, fails, crashes, unsettled, spent>>

\* A status of 400 and above; the audit calls 409 a conflict and not rejected.
Outcome(r) == IF reply[r] = "ok" THEN "completed" ELSE "rejected"

\* Mutant: the end is recorded although its audit failed.
SendRegardless(r) ==
  /\ pc[r] = "sending"
  /\ r \notin finalizing
  /\ finalizing' = finalizing \cup {r}
  /\ Goes(r, "completing")
  /\ \/ audit' = [audit EXCEPT ![op[r]] = @ \cup {Outcome(r)}] /\ UNCHANGED fails
     \/ MayFail /\ UNCHANGED audit
  /\ UNCHANGED <<asked, op, abort, gone, ran, reply, answer, ledger, active, clock, crashes, unsettled, spent>>

Send(r) ==
  /\ pc[r] = "sending"
  /\ r \notin finalizing
  /\ finalizing' = finalizing \cup {r}
  /\ \/ /\ audit' = [audit EXCEPT ![op[r]] = @ \cup {Outcome(r)}]
        /\ Goes(r, "completing")
        /\ UNCHANGED fails
     \/ /\ MayFail
        /\ Goes(r, "doubting")
        /\ UNCHANGED audit
  /\ UNCHANGED <<asked, op, abort, gone, ran, reply, answer, ledger, active, clock, crashes, unsettled, spent>>

\* The response is kept when the route stores its responses and it is small
\* enough; an invitation is never kept.
Settled(r, kept) == [ledger[Key(r)] EXCEPT !.status = "completed", !.outcome = reply[r],
                                           !.response = kept, !.expires = clock + Completed]

\* Mutant: a receipt that is settled already is written again.
CompleteAgain(r) ==
  /\ pc[r] = "completing"
  /\ Holds(Key(r), op[r])
  /\ ledger' = [ledger EXCEPT ![Key(r)] = Settled(r, FALSE)]
  /\ active' = active \ {op[r]}
  /\ Told(r, "done", op[r])
  /\ Goes(r, "over")
  /\ UNCHANGED <<asked, op, abort, handling, audit, clock, fails, crashes, unsettled, spent>>

Complete(r) ==
  /\ pc[r] = "completing"
  /\ Holds(Key(r), op[r])
  /\ \/ /\ ledger[Key(r)].status = "prepared"
        /\ \E kept \in IF Key(r) \in Recoverable THEN {FALSE} ELSE BOOLEAN :
             ledger' = [ledger EXCEPT ![Key(r)] = Settled(r, kept)]
     \/ /\ ledger[Key(r)].status # "prepared"
        /\ UNCHANGED ledger
  /\ active' = active \ {op[r]}
  /\ Told(r, "done", op[r])
  /\ Goes(r, "over")
  /\ UNCHANGED <<asked, op, abort, handling, audit, clock, fails, crashes, unsettled, spent>>

\* Mutant: the receipt is left as it is.
CompleteFailsQuietly(r) ==
  /\ pc[r] = "completing"
  /\ Holds(Key(r), op[r]) /\ ledger[Key(r)].status = "prepared" /\ MayFail
  /\ Goes(r, "lamenting")
  /\ UNCHANGED <<asked, op, abort, handling, answer, disk, active, clock, crashes, unsettled, spent>>

\* The write fails, or the receipt a recovery works under expired meanwhile.
CompleteFails(r) ==
  /\ pc[r] = "completing"
  /\ \/ ~Holds(Key(r), op[r]) /\ UNCHANGED fails
     \/ Holds(Key(r), op[r]) /\ ledger[Key(r)].status = "prepared" /\ MayFail
  /\ Goes(r, "doubting")
  /\ UNCHANGED <<asked, op, abort, handling, answer, disk, active, clock, crashes, unsettled, spent>>

-----------------------------------------------------------------------------
(* markUnknown, of a request whose end could not be recorded and of one     *)
(* whose client has gone.                                                   *)

Doubted(r) == Holds(Key(r), op[r]) /\ ledger[Key(r)].status = "prepared"

MarkUnknown(r) ==
  \/ /\ Doubted(r)
     /\ ledger' = [ledger EXCEPT ![Key(r)] = Unknown(ledger[Key(r)])]
     /\ active' = active \ {op[r]}
     /\ UNCHANGED <<fails, unsettled>>
  \/ ~Doubted(r) /\ UNCHANGED <<ledger, active, fails, unsettled>>

MarkFails(r) == /\ Doubted(r)
                /\ MayFail
                /\ unsettled' = unsettled \cup {op[r]}
                /\ UNCHANGED <<ledger, active>>

Doubt(r) ==
  /\ pc[r] = "doubting"
  /\ MarkUnknown(r) \/ MarkFails(r)
  /\ Goes(r, "lamenting")
  /\ UNCHANGED <<asked, op, abort, handling, answer, audit, clock, crashes, spent>>

AuditUnknown(r) == \/ /\ audit' = [audit EXCEPT ![op[r]] = @ \cup {"unknown"}]
                      /\ UNCHANGED fails
                   \/ MayFail /\ UNCHANGED audit

Lament(r) ==
  /\ pc[r] = "lamenting"
  /\ AuditUnknown(r)
  /\ Told(r, "durability", op[r])
  /\ Goes(r, "over")
  /\ UNCHANGED <<asked, op, abort, handling, ledger, active, clock, crashes, unsettled, spent>>

\* The client goes away.  The hook acts only on a request whose context is
\* set and whose end nothing else has begun to record.
HasContext(r) == pc[r] \in {"handling", "sending", "completing", "doubting", "lamenting"}

\* Mutant: the hook does not look whether the end is being recorded.
AbortAlways(r) ==
  /\ pc[r] \notin {"idle", "over"}
  /\ r \notin gone
  /\ Cardinality(gone) < MaxAborts
  /\ gone' = gone \cup {r}
  /\ IF HasContext(r)
     THEN /\ finalizing' = finalizing \cup {r}
          /\ abort' = [abort EXCEPT ![r] = "marking"]
     ELSE UNCHANGED <<finalizing, abort>>
  /\ UNCHANGED <<asked, pc, op, ran, reply, answer, disk, active, clock, fails, crashes, unsettled, spent>>

Abort(r) ==
  /\ pc[r] \notin {"idle", "over"}
  /\ r \notin gone
  /\ Cardinality(gone) < MaxAborts
  /\ gone' = gone \cup {r}
  /\ IF HasContext(r) /\ r \notin finalizing
     THEN /\ finalizing' = finalizing \cup {r}
          /\ abort' = [abort EXCEPT ![r] = "marking"]
     ELSE UNCHANGED <<finalizing, abort>>
  /\ UNCHANGED <<asked, pc, op, ran, reply, answer, disk, active, clock, fails, crashes, unsettled, spent>>

\* A mark that fails, or finds no receipt, leaves the audit out too.
AbortMarks(r) ==
  /\ abort[r] = "marking"
  /\ \/ /\ MarkUnknown(r)
        /\ abort' = [abort EXCEPT ![r] = IF Holds(Key(r), op[r]) THEN "auditing" ELSE "done"]
     \/ MarkFails(r) /\ abort' = [abort EXCEPT ![r] = "done"]
  /\ UNCHANGED <<asked, pc, op, handling, answer, audit, clock, crashes, spent>>

AbortAudits(r) ==
  /\ abort[r] = "auditing"
  /\ AuditUnknown(r)
  /\ abort' = [abort EXCEPT ![r] = "done"]
  /\ UNCHANGED <<asked, pc, op, handling, answer, ledger, active, clock, crashes, unsettled, spent>>

-----------------------------------------------------------------------------
InFlight(r) == pc[r] \notin {"idle", "over"} \/ abort[r] \in {"marking", "auditing"}

\* The process dies and another one starts on the same files.
Crash ==
  /\ crashes < MaxCrashes
  /\ crashes' = crashes + 1
  /\ active' = {}
  /\ pc' = [r \in Requests |-> IF pc[r] = "idle" THEN "idle" ELSE "over"]
  /\ abort' = [r \in Requests |-> IF abort[r] = "none" THEN "none" ELSE "done"]
  /\ answer' = [r \in Requests |-> IF pc[r] \in {"idle", "over"} THEN answer[r] ELSE [kind |-> "gone", op |-> None]]
  /\ UNCHANGED <<asked, op, handling, disk, clock, fails, unsettled, spent>>

\* A request takes less time than the receipt it creates is retained.
Tick ==
  /\ clock < Horizon
  /\ \A r \in Requests : InFlight(r) /\ Holds(Key(r), r) => ledger[Key(r)].expires > clock + 1
  /\ clock' = clock + 1
  /\ UNCHANGED <<asked, pc, op, abort, handling, answer, disk, active, fails, crashes, unsettled, spent>>

Request(r) ==
  \/ ReserveExisting(r) \/ ReserveNew(r) \/ ReserveRefused(r)
  \/ Accept(r) \/ AcceptFails(r) \/ Abandon(r)
  \/ Handle(r) \/ SendAborted(r) \/ Send(r) \/ Complete(r) \/ CompleteFails(r)
  \/ Doubt(r) \/ Lament(r)
  \/ Abort(r) \/ AbortMarks(r) \/ AbortAudits(r)

Next == Look \/ Crash \/ Tick \/ \E r \in Requests : Request(r)

Spec == Init /\ [][Next]_vars

-----------------------------------------------------------------------------
Phases == {"idle", "accepting", "abandoning", "handling", "sending", "completing",
           "doubting", "lamenting", "over"}

TypeOK ==
  /\ asked \in [Requests -> [key : Keys, body : Bodies]]
  /\ pc \in [Requests -> Phases]
  /\ op \in [Requests -> Requests \cup {None}]
  /\ abort \in [Requests -> {"none", "marking", "auditing", "done"}]
  /\ finalizing \subseteq Requests /\ gone \subseteq Requests /\ ran \subseteq Requests
  /\ reply \in [Requests -> {"none", "ok", "rejected"}]
  /\ answer \in [Requests -> Answers]
  /\ ledger \in [Keys -> Receipts \cup {None}]
  /\ audit \in [Requests -> SUBSET Outcomes]
  /\ spent \in [Keys -> SUBSET Requests]
  /\ active \subseteq Requests /\ unsettled \subseteq Requests
  /\ clock \in 0 .. Horizon /\ fails \in 0 .. MaxFails /\ crashes \in 0 .. MaxCrashes

\* A key has at most one effect for as long as its receipt is retained: over
\* crashes, failed writes and clients that leave, a request that is sent again
\* is answered and not handled again.  (The handler of an invitation does run
\* again, to recover what it created.)
OneEffectPerReceipt == \A k \in Keys \ Recoverable : Cardinality(spent[k]) <= 1

\* A settled receipt keeps what it says until it expires: a later end of the
\* same operation, a recovery or a failed write rewrites nothing.
SettledStaysSettled ==
  [][\A k \in Keys : ledger[k] # None /\ ledger[k].status # "prepared" /\ ~Expired(k)
                       => ledger'[k] = ledger[k]]_vars

\* Only an expired receipt is forgotten, and the reservation of a request
\* whose handler never runs: the cap of the ledger evicts nothing.
OnlyExpiredIsForgotten ==
  [][\A k \in Keys : ledger[k] # None /\ ledger'[k] = None
                       => Expired(k) \/ ledger[k].op \notin ran]_vars

\* What a client is given without its own handler having run is the answer to
\* a request like its own: same key, same body, handled and kept.  A 202
\* names the receipt of such a request as well.
AnswerIsOfTheSameRequest ==
  \A r \in Requests :
    /\ answer[r].kind \in {"replay", "pending"} => asked[answer[r].op] = asked[r]
    /\ answer[r].kind = "replay" => /\ answer[r].op \in ran
                                    /\ audit[answer[r].op] \cap {"completed", "rejected"} # {}

\* A client that is given its handler's answer has it on record, unless the
\* receipt has expired since.
AnsweredIsRecorded ==
  \A r \in Requests :
    answer[r].kind = "done" /\ op[r] = r /\ Holds(Key(r), r)
      => ledger[Key(r)].status = "completed" /\ ledger[Key(r)].outcome = reply[r]

\* A receipt that says how its operation ended has been audited as accepted
\* and as ended that way, though the two files are written apart.
SettledIsAudited ==
  \A k \in Keys :
    ledger[k] # None /\ ledger[k].status = "completed"
      => {"accepted", IF ledger[k].outcome = "ok" THEN "completed" ELSE "rejected"} \subseteq audit[ledger[k].op]

\* An operation shown as prepared has its request in flight, or is one whose
\* last write failed.
PreparedIsInFlight ==
  \A k \in Keys :
    Normalized[k] # None /\ Normalized[k].status = "prepared"
      => InFlight(Normalized[k].op) \/ Normalized[k].op \in unsettled

\* The same without the exception: a mark or a take-back that fails leaves
\* the operation prepared for as long as the process lives.
NeverStaysPrepared ==
  \A k \in Keys :
    Normalized[k] # None /\ Normalized[k].status = "prepared" => InFlight(Normalized[k].op)

\* An operation a 202 named can be looked up until its receipt expires.
AcceptedIsAddressable ==
  [][\A r \in Requests, k \in Keys :
       answer[r].kind = "pending" /\ Holds(k, answer[r].op) /\ ledger'[k] = None => Expired(k)]_vars

\* A request that is sent again has no second effect, and the answer it gets
\* without being handled is the one of a request like its own.
ResentIsTheSame == TypeOK /\ OneEffectPerReceipt /\ AnswerIsOfTheSameRequest

\* The ledger, the audit and the answers say the same of every operation, though
\* they are written apart and each write may fail.
RecordsAgree == AnsweredIsRecorded /\ SettledIsAudited /\ PreparedIsInFlight

\* A receipt is changed by nothing once settled, and forgotten by nothing but
\* its age once its handler has run.
ReceiptsAreKept == SettledStaysSettled /\ OnlyExpiredIsForgotten
=============================================================================
