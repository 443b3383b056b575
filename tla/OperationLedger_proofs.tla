------------------------ MODULE OperationLedger_proofs ------------------------
(***************************************************************************)
(* Proofs about OperationLedger for any requests, keys and bodies, any     *)
(* capacity and retention, and any number of failures, crashes and clients *)
(* that leave.                                                             *)
(***************************************************************************)
EXTENDS OperationLedger, FiniteSetTheorems, TLAPS

Reserved == {"accepting", "abandoning", "handling", "sending", "completing", "doubting", "lamenting"}
Own(r) == op[r] = r
PreparedUnder(k, o) == Holds(k, o) /\ ledger[k].status = "prepared"

\* A request that has not come has left no trace.
NoTraceYet ==
  \A r \in Requests : pc[r] = "idle" =>
    /\ op[r] = None /\ abort[r] = "none" /\ answer[r].kind = "none"
    /\ r \notin ran /\ r \notin finalizing /\ r \notin active
    /\ \A k \in Keys : ~Holds(k, r)
    /\ \A s \in Requests : op[s] # r

\* A receipt is of the request that created it.
ReceiptOfItsRequest ==
  \A k \in Keys : ledger[k] # None =>
    /\ Own(ledger[k].op) /\ asked[ledger[k].op] = [key |-> k, body |-> ledger[k].body]
    /\ ledger[k].response => ledger[k].status = "completed"
    /\ ledger[k].status = "completed" => ledger[k].op \in ran

\* A request works under its own receipt, or under the settled one of an
\* invitation it recovers.
WorksUnder ==
  \A r \in Requests :
    /\ pc[r] \in Reserved \/ abort[r] # "none" => op[r] \in Requests
    /\ op[r] # None /\ ~Own(r) =>
         /\ Key(r) \in Recoverable /\ Key(op[r]) = Key(r)
         /\ ~PreparedUnder(Key(r), op[r])

\* While it is in flight, its receipt is there.
OwnReceiptStays ==
  \A r \in Requests : Own(r) /\ InFlight(r) => Holds(Key(r), r) /\ ~Expired(Key(r))

\* Until its end is recorded, it is prepared and active.
OwnReceiptPrepared ==
  \A r \in Requests :
    Own(r) /\ pc[r] \in Reserved \ {"lamenting"} /\ abort[r] \in {"none", "marking"} =>
      r \in active /\ ledger[Key(r)].status = "prepared"

\* Its own end and its abort hook exclude each other.
OneEnd ==
  \A r \in Requests :
    /\ pc[r] \in {"idle", "accepting", "abandoning"} => abort[r] = "none" /\ r \notin finalizing
    /\ pc[r] \in {"completing", "doubting", "lamenting"} => abort[r] = "none" /\ r \in finalizing
    /\ pc[r] \in {"handling", "sending"} => (abort[r] # "none" <=> r \in finalizing)

HandlerRan ==
  \A r \in Requests :
    /\ pc[r] \in {"idle", "accepting", "abandoning", "handling"} => r \notin ran
    /\ pc[r] \in {"sending", "completing"} => r \in ran /\ reply[r] # "none"

\* What the audit file holds of an operation under way.
AuditLeads ==
  \A r \in Requests :
    /\ pc[r] \in {"handling", "sending", "completing"} => "accepted" \in audit[op[r]]
    /\ pc[r] = "completing" => Outcome(r) \in audit[op[r]]

\* The handler of a key that is not recovered runs under its receipt only.
SpentUnderReceipt ==
  \A k \in Keys \ Recoverable :
    /\ \A r \in spent[k] : Holds(k, r)
    /\ \A r \in Requests : Holds(k, r) /\ r \notin ran => spent[k] = {}

\* A prepared receipt has a request that will settle it, or failed to.
PreparedHasRequest ==
  \A k \in Keys : ledger[k] # None /\ ledger[k].status = "prepared" /\ ledger[k].op \in active =>
    InFlight(ledger[k].op) \/ ledger[k].op \in unsettled

\* Once its mark is behind it, it is not prepared, unless the mark failed.
MarkedIsMarked ==
  \A r \in Requests :
    Own(r) /\ (pc[r] = "lamenting" \/ abort[r] \in {"auditing", "done"}) /\ PreparedUnder(Key(r), r)
      => r \in unsettled \/ r \notin active

\* A receipt an answer names is a receipt.
AnswerNames ==
  \A r \in Requests : answer[r].kind \in {"replay", "pending"} => answer[r].op \in Requests

\* An answered request is over.
AnsweredIsOver == \A r \in Requests : answer[r].kind # "none" => pc[r] = "over"

IInv ==
  /\ TypeOK /\ NoTraceYet /\ ReceiptOfItsRequest /\ WorksUnder /\ OwnReceiptStays
  /\ OwnReceiptPrepared /\ OneEnd /\ HandlerRan /\ AuditLeads /\ SpentUnderReceipt
  /\ PreparedHasRequest /\ MarkedIsMarked /\ AnswerNames /\ AnsweredIsOver
  /\ AnswerIsOfTheSameRequest /\ AnsweredIsRecorded /\ SettledIsAudited


-----------------------------------------------------------------------------
(* The invariant is inductive *)

\* What a retained receipt says.
LEMMA ReceiptFields ==
  ASSUME TypeOK, NEW k \in Keys, ledger[k] # None
  PROVE  /\ ledger[k] \in Receipts
         /\ ledger[k].op \in Requests /\ ledger[k].body \in Bodies /\ ledger[k].expires \in Nat
         /\ ledger[k].status \in {"prepared", "completed", "outcome_unknown"}
         /\ ledger[k].outcome \in {"none", "ok", "rejected"}
BY DEF TypeOK, Receipts

\* A receipt is its own request's, under that request's key.
LEMMA ReceiptOwner ==
  ASSUME TypeOK, ReceiptOfItsRequest, NEW k \in Keys, ledger[k] # None
  PROVE  /\ ledger[k].op \in Requests /\ Own(ledger[k].op) /\ Key(ledger[k].op) = k
         /\ ledger[k] \in Receipts
<1>1. ledger[k].op \in Requests /\ ledger[k] \in Receipts
  BY ReceiptFields
<1>2. Own(ledger[k].op) /\ asked[ledger[k].op] = [key |-> k, body |-> ledger[k].body]
  BY DEF ReceiptOfItsRequest
<1> QED BY <1>1, <1>2 DEF Key

\* What a receipt says that is marked unknown.
LEMMA UnknownReceipt ==
  ASSUME TypeOK, NEW k \in Keys, ledger[k] # None
  PROVE  /\ Unknown(ledger[k]) \in Receipts
         /\ Unknown(ledger[k]).op = ledger[k].op /\ Unknown(ledger[k]).body = ledger[k].body
         /\ Unknown(ledger[k]).status = "outcome_unknown" /\ ~Unknown(ledger[k]).response
         /\ ~(Unknown(ledger[k]).expires <= clock)
<1> USE LedgerAssumption DEF TypeOK, LedgerAssumption
<1>1. PICK d \in Nat : d = clock + Unresolved /\ d > clock
  OBVIOUS
<1>2. ledger[k] \in Receipts
  OBVIOUS
<1>3. Unknown(ledger[k]) = [ledger[k] EXCEPT !.status = "outcome_unknown", !.outcome = "none",
                                            !.response = FALSE, !.expires = d]
  BY <1>1 DEF Unknown
<1>4. Unknown(ledger[k]) \in Receipts
  BY <1>2, <1>3 DEF Receipts
<1>5. /\ Unknown(ledger[k]).op = ledger[k].op /\ Unknown(ledger[k]).body = ledger[k].body
      /\ Unknown(ledger[k]).status = "outcome_unknown" /\ Unknown(ledger[k]).expires = d
  BY <1>2, <1>3 DEF Receipts
<1>6. ~Unknown(ledger[k]).response
  BY <1>2, <1>3 DEF Receipts
<1> QED BY <1>1, <1>4, <1>5, <1>6

\* The reservation is a receipt of its request, alive and prepared.
LEMMA PreparedReceipt ==
  ASSUME TypeOK, NEW r \in Requests
  PROVE  /\ Prepared(r) \in Receipts
         /\ Prepared(r).op = r /\ Prepared(r).body = asked[r].body
         /\ Prepared(r).status = "prepared" /\ ~Prepared(r).response
         /\ ~(Prepared(r).expires <= clock)
<1> USE LedgerAssumption DEF TypeOK, LedgerAssumption
<1>1. PICK d \in Nat : d = clock + Unresolved /\ d > clock
  OBVIOUS
<1>2. asked[r].body \in Bodies
  OBVIOUS
<1>3. Prepared(r) = [op |-> r, body |-> asked[r].body, status |-> "prepared",
                     outcome |-> "none", response |-> FALSE, expires |-> d]
  BY <1>1 DEF Prepared
<1>4. Prepared(r) \in Receipts
  BY <1>2, <1>3 DEF Receipts
<1>5. /\ Prepared(r).op = r /\ Prepared(r).body = asked[r].body
      /\ Prepared(r).status = "prepared" /\ Prepared(r).expires = d
  BY <1>3
<1>6. ~Prepared(r).response
  BY <1>3
<1> QED BY <1>1, <1>4, <1>5, <1>6

\* The recorded end is the same receipt with the outcome the handler gave.
LEMMA SettledReceipt ==
  ASSUME TypeOK, NEW r \in Requests, ledger[Key(r)] # None, NEW kept \in BOOLEAN
  PROVE  /\ Settled(r, kept) \in Receipts
         /\ Settled(r, kept).op = ledger[Key(r)].op /\ Settled(r, kept).body = ledger[Key(r)].body
         /\ Settled(r, kept).status = "completed" /\ Settled(r, kept).outcome = reply[r]
         /\ ~(Settled(r, kept).expires <= clock)
<1> USE LedgerAssumption DEF TypeOK, LedgerAssumption, Key
<1>1. PICK d \in Nat : d = clock + Completed /\ d > clock
  OBVIOUS
<1>2. ledger[Key(r)] \in Receipts /\ reply[r] \in {"none", "ok", "rejected"}
  OBVIOUS
<1>3. Settled(r, kept) = [ledger[Key(r)] EXCEPT !.status = "completed", !.outcome = reply[r],
                                               !.response = kept, !.expires = d]
  BY <1>1 DEF Settled
<1>4. Settled(r, kept) \in Receipts
  BY <1>2, <1>3 DEF Receipts
<1>5. /\ Settled(r, kept).op = ledger[Key(r)].op /\ Settled(r, kept).body = ledger[Key(r)].body
      /\ Settled(r, kept).status = "completed" /\ Settled(r, kept).outcome = reply[r]
      /\ Settled(r, kept).expires = d
  BY <1>2, <1>3 DEF Receipts
<1> QED BY <1>1, <1>4, <1>5

\* What a normalization does to a receipt.
LEMMA NormalizedReceipt ==
  ASSUME TypeOK
  PROVE  /\ Normalized \in [Keys -> Receipts \cup {None}]
         /\ \A k \in Keys :
              /\ Normalized[k] = None <=> ledger[k] = None \/ Expired(k)
              /\ Normalized[k] # None =>
                   /\ ~(Normalized[k].expires <= clock)
                   /\ Normalized[k].op = ledger[k].op /\ Normalized[k].body = ledger[k].body
                   /\ \/ /\ Normalized[k] = ledger[k]
                         /\ ledger[k].status = "prepared" => ledger[k].op \in active
                      \/ /\ ledger[k].status = "prepared" /\ ledger[k].op \notin active
                         /\ Normalized[k].status = "outcome_unknown" /\ ~Normalized[k].response
<1> USE LedgerAssumption, UnknownReceipt DEF TypeOK, LedgerAssumption
<1>1. ASSUME NEW k \in Keys
      PROVE  /\ Normalized[k] \in Receipts \cup {None}
             /\ Normalized[k] = None <=> ledger[k] = None \/ Expired(k)
  BY <1>1 DEF Normalized, Expired
<1>2. ASSUME NEW k \in Keys, Normalized[k] # None
      PROVE  ~(Normalized[k].expires <= clock)
  BY <1>1, <1>2, ReceiptFields DEF Normalized, Expired
<1> QED BY <1>1, <1>2 DEF Normalized

\* A normalization takes nothing from a request in flight.
LEMMA NormalizedKeeps ==
  ASSUME IInv
  PROVE  /\ NormalizedActive \subseteq active
         /\ \A q \in Requests : Own(q) /\ InFlight(q) =>
              /\ Normalized[Key(q)] # None /\ Normalized[Key(q)].op = q
              /\ q \in active => q \in NormalizedActive /\ Normalized[Key(q)] = ledger[Key(q)]
<1>1. NormalizedActive \subseteq active
  BY DEF NormalizedActive
<1>2. ASSUME NEW q \in Requests, Own(q), InFlight(q)
      PROVE  /\ Normalized[Key(q)] # None /\ Normalized[Key(q)].op = q
             /\ q \in active => q \in NormalizedActive /\ Normalized[Key(q)] = ledger[Key(q)]
  <2>1. Key(q) \in Keys /\ Holds(Key(q), q) /\ ~Expired(Key(q))
    BY <1>2 DEF IInv, TypeOK, OwnReceiptStays, Key
  <2>2. ASSUME NEW k \in Keys, Expired(k)
        PROVE  ledger[k].op # q
    BY <2>1, <2>2, ReceiptOwner DEF IInv, Expired
  <2> QED BY <2>1, <2>2, NormalizedReceipt DEF IInv, Holds, NormalizedActive
<1> QED BY <1>1, <1>2

\* What marking does: nothing, or the request's own prepared receipt is unknown.
LEMMA MarkEffect ==
  ASSUME IInv, NEW r \in Requests, InFlight(r), pc[r] # "idle", MarkUnknown(r) \/ MarkFails(r)
  PROVE  /\ ledger' \in [Keys -> Receipts \cup {None}] /\ fails' \in 0 .. MaxFails
         /\ unsettled' \subseteq Requests /\ unsettled \subseteq unsettled'
         /\ \/ /\ UNCHANGED <<ledger, active>>
               /\ PreparedUnder(Key(r), op[r]) => op[r] \in unsettled'
            \/ /\ Own(r) /\ PreparedUnder(Key(r), r) /\ active' = active \ {r} /\ UNCHANGED unsettled
               /\ \A k \in Keys : k # Key(r) => ledger'[k] = ledger[k]
               /\ ledger'[Key(r)] # None /\ ledger'[Key(r)].op = r
               /\ ledger'[Key(r)].body = ledger[Key(r)].body
               /\ ledger'[Key(r)].status = "outcome_unknown" /\ ~ledger'[Key(r)].response
               /\ ~(ledger'[Key(r)].expires <= clock)
<1> USE LedgerAssumption DEF IInv, LedgerAssumption, Own, PreparedUnder, Holds, Doubted
<1>1. op[r] \in Requests /\ Key(r) \in Keys /\ (PreparedUnder(Key(r), op[r]) => Own(r))
  BY DEF TypeOK, WorksUnder, InFlight, Reserved, Key, Phases
<1>2. CASE UNCHANGED <<ledger, active>>
  <2>1. CASE MarkFails(r)
    BY <1>1, <1>2, <2>1 DEF TypeOK, MarkFails, MayFail
  <2>2. CASE MarkUnknown(r) /\ ~Doubted(r)
    BY <1>1, <1>2, <2>2 DEF TypeOK, MarkUnknown
  <2>3. CASE MarkUnknown(r) /\ Doubted(r)
    <3>1. ledger' = [ledger EXCEPT ![Key(r)] = Unknown(ledger[Key(r)])]
      BY <2>3 DEF MarkUnknown
    <3>2. Unknown(ledger[Key(r)]).status = "outcome_unknown"
      BY <1>1, <2>3, UnknownReceipt
    <3> QED BY <1>1, <1>2, <2>3, <3>1, <3>2 DEF TypeOK
  <2> QED BY <2>1, <2>2, <2>3
<1>3. CASE ~UNCHANGED <<ledger, active>>
  <2>1. /\ Doubted(r) /\ ledger' = [ledger EXCEPT ![Key(r)] = Unknown(ledger[Key(r)])]
        /\ active' = active \ {op[r]} /\ UNCHANGED <<fails, unsettled>>
    BY <1>3 DEF MarkUnknown, MarkFails
  <2>2. /\ Unknown(ledger[Key(r)]) \in Receipts
        /\ Unknown(ledger[Key(r)]).op = r /\ Unknown(ledger[Key(r)]).body = ledger[Key(r)].body
        /\ Unknown(ledger[Key(r)]).status = "outcome_unknown"
        /\ ~Unknown(ledger[Key(r)]).response /\ ~(Unknown(ledger[Key(r)]).expires <= clock)
    BY <1>1, <2>1, UnknownReceipt
  <2> QED BY <1>1, <2>1, <2>2 DEF TypeOK
<1> QED BY <1>2, <1>3

\* What a normalization changes, written or not: receipts go when expired,
\* become unknown when nobody works on them, and stay while a request does.
Normalizes ==
  /\ ledger' \in [Keys -> Receipts \cup {None}] /\ spent' \in [Keys -> SUBSET Requests]
  /\ active' \subseteq active
  /\ \A k \in Keys : ledger'[k] # None =>
       /\ ledger[k] # None /\ ledger'[k].op = ledger[k].op /\ ledger'[k].body = ledger[k].body
       /\ \/ ledger'[k] = ledger[k]
          \/ /\ ledger[k].status = "prepared" /\ ledger[k].op \notin active
             /\ ledger'[k].status = "outcome_unknown" /\ ~ledger'[k].response
  /\ \A q \in Requests : Own(q) /\ InFlight(q) =>
       /\ ledger'[Key(q)] # None /\ ledger'[Key(q)].op = q /\ ~(ledger'[Key(q)].expires <= clock)
       /\ q \in active => q \in active' /\ ledger'[Key(q)] = ledger[Key(q)]
  /\ \A k \in Keys : \/ spent'[k] = {}
                     \/ spent'[k] = spent[k] /\ (ledger[k] # None => ledger'[k] # None)

\* Both outcomes of the write are such a step.
LEMMA NormalizeEffect ==
  ASSUME IInv, \/ Write(Normalized, {})
               \/ UNCHANGED <<ledger, spent>> /\ active' = NormalizedActive
  PROVE  Normalizes
<1> USE DEF IInv
<1>1. CASE Write(Normalized, {})
  <2>1. ledger' = Normalized /\ active' = NormalizedActive
    BY <1>1 DEF Write
  <2>2. \A q \in Requests : Key(q) \in Keys
    BY DEF TypeOK, Key
  <2>3. \A k \in Keys : \/ spent'[k] = {}
                        \/ spent'[k] = spent[k] /\ (ledger[k] # None => ledger'[k] # None)
    BY <1>1, <2>1, NormalizedReceipt DEF Write
  <2>4. spent' \in [Keys -> SUBSET Requests]
    BY <1>1 DEF Write, TypeOK
  <2> QED BY <2>1, <2>2, <2>3, <2>4, NormalizedReceipt, NormalizedKeeps DEF Normalizes
<1>2. CASE UNCHANGED <<ledger, spent>> /\ active' = NormalizedActive
  <2>1. \A q \in Requests : Own(q) /\ InFlight(q) =>
          /\ ledger[Key(q)] # None /\ ledger[Key(q)].op = q /\ ~(ledger[Key(q)].expires <= clock)
    BY DEF OwnReceiptStays, Holds, Expired
  <2> QED BY <1>2, <2>1, NormalizedKeeps DEF Normalizes, TypeOK
<1> QED BY <1>1, <1>2

\* An acceptance that is not written leaves the reservation to be taken back.
LEMMA AcceptFailsStep ==
  ASSUME IInv, NEW r \in Requests, AcceptFails(r)
  PROVE  IInv'
<1> USE LedgerAssumption DEF LedgerAssumption, IInv, Key, Own, Holds, Reserved, InFlight, Goes,
        Told, MayFail, handling, disk, AcceptFails
<1>1. TypeOK'
  <2>1. (pc \in [Requests -> Phases])'
    BY DEF TypeOK, Phases
  <2> QED BY <2>1 DEF TypeOK
<1>2. NoTraceYet' /\ ReceiptOfItsRequest' /\ WorksUnder' /\ OwnReceiptStays'
  BY DEF TypeOK, NoTraceYet, ReceiptOfItsRequest, WorksUnder, PreparedUnder, OwnReceiptStays,
     Expired
<1>3. OwnReceiptPrepared' /\ OneEnd' /\ HandlerRan' /\ AuditLeads'
  BY DEF TypeOK, OwnReceiptPrepared, OneEnd, HandlerRan, AuditLeads, Outcome, WorksUnder
<1>4. SpentUnderReceipt' /\ PreparedHasRequest' /\ MarkedIsMarked' /\ AnswerNames'
  BY DEF TypeOK, SpentUnderReceipt, PreparedHasRequest, ReceiptOfItsRequest, MarkedIsMarked,
     PreparedUnder, AnswerNames
<1>5. AnsweredIsOver' /\ AnswerIsOfTheSameRequest' /\ AnsweredIsRecorded' /\ SettledIsAudited'
  BY DEF TypeOK, AnsweredIsOver, AnswerIsOfTheSameRequest, AnswerNames, AnsweredIsRecorded,
     SettledIsAudited
<1> QED BY <1>1, <1>2, <1>3, <1>4, <1>5 DEF IInv

\* The handler runs under the receipt its request reserved or recovers.
LEMMA HandleStep ==
  ASSUME IInv, NEW r \in Requests, Handle(r)
  PROVE  IInv'
<1> USE LedgerAssumption DEF LedgerAssumption, IInv, Key, Own, Holds, Reserved, InFlight, Goes,
        Told, MayFail, handling, disk, Handle
<1>1. TypeOK'
  <2>1. (pc \in [Requests -> Phases])'
    BY DEF TypeOK, Phases
  <2>2. (reply \in [Requests -> {"none", "ok", "rejected"}])'
    BY DEF TypeOK
  <2>3. (spent \in [Keys -> SUBSET Requests])'
    BY DEF TypeOK
  <2> QED BY <2>1, <2>2, <2>3 DEF TypeOK
<1>2. NoTraceYet' /\ ReceiptOfItsRequest' /\ WorksUnder' /\ OwnReceiptStays'
  BY DEF TypeOK, NoTraceYet, ReceiptOfItsRequest, WorksUnder, PreparedUnder, OwnReceiptStays,
     Expired
<1>3. OwnReceiptPrepared' /\ OneEnd' /\ HandlerRan' /\ AuditLeads'
  BY DEF TypeOK, OwnReceiptPrepared, OneEnd, HandlerRan, AuditLeads, Outcome, WorksUnder
<1>4. SpentUnderReceipt'
  BY DEF TypeOK, SpentUnderReceipt, HandlerRan, WorksUnder, OwnReceiptStays
<1>5. PreparedHasRequest' /\ MarkedIsMarked' /\ AnswerNames' /\ AnsweredIsOver'
  BY DEF TypeOK, PreparedHasRequest, ReceiptOfItsRequest, MarkedIsMarked, PreparedUnder,
     AnswerNames, AnsweredIsOver
<1>6. AnswerIsOfTheSameRequest'
  BY DEF TypeOK, AnswerIsOfTheSameRequest, AnswerNames
<1>7. AnsweredIsRecorded'
  BY DEF TypeOK, AnsweredIsRecorded, AnsweredIsOver
<1>8. SettledIsAudited'
  BY DEF TypeOK, SettledIsAudited
<1> QED BY <1>1, <1>2, <1>3, <1>4, <1>5, <1>6, <1>7, <1>8 DEF IInv

\* A response whose client has gone ends the request and leaves the rest to the hook.
LEMMA SendAbortedStep ==
  ASSUME IInv, NEW r \in Requests, SendAborted(r)
  PROVE  IInv'
<1> USE LedgerAssumption DEF LedgerAssumption, IInv, Key, Own, Holds, Reserved, InFlight, Goes,
        Told, MayFail, handling, disk, SendAborted
<1>own. \A k \in Keys : ledger[k] # None =>
         /\ ledger[k].op \in Requests /\ Own(ledger[k].op) /\ Key(ledger[k].op) = k
         /\ ledger[k] \in Receipts
  BY ReceiptOwner
<1>1. TypeOK'
  <2>1. (pc \in [Requests -> Phases])'
    BY DEF TypeOK, Phases
  <2>2. (answer \in [Requests -> Answers])'
    BY DEF TypeOK, Answers
  <2> QED BY <2>1, <2>2 DEF TypeOK
<1>2. NoTraceYet' /\ ReceiptOfItsRequest' /\ WorksUnder' /\ OwnReceiptStays'
  BY DEF TypeOK, NoTraceYet, ReceiptOfItsRequest, WorksUnder, PreparedUnder, OwnReceiptStays,
     Expired
<1>3. OwnReceiptPrepared' /\ OneEnd' /\ HandlerRan' /\ AuditLeads'
  BY DEF TypeOK, OwnReceiptPrepared, OneEnd, HandlerRan, AuditLeads, Outcome, WorksUnder
<1>4. SpentUnderReceipt'
  BY DEF TypeOK, SpentUnderReceipt
<1>5. PreparedHasRequest'
  <2>1. ASSUME NEW k \in Keys, ledger'[k] # None, ledger'[k].status = "prepared", ledger'[k].op \in active'
        PROVE  (InFlight(ledger[k].op) \/ ledger[k].op \in unsettled)'
    <3> DEFINE q == ledger[k].op
    <3>1. ledger'[k] = ledger[k] /\ active' = active
      OBVIOUS
    <3>a. q \in Requests /\ q \in active /\ Own(q) /\ Key(q) = k /\ PreparedUnder(Key(q), q)
      BY <1>own, <2>1, <3>1 DEF PreparedUnder
    <3>2. CASE q # r
      BY <2>1, <3>1, <3>a, <3>2 DEF TypeOK, PreparedHasRequest
    <3>3. CASE q = r
      BY <2>1, <3>1, <3>a, <3>3 DEF TypeOK, OneEnd, MarkedIsMarked, PreparedHasRequest
    <3> QED BY <3>2, <3>3
  <2> QED BY <2>1 DEF PreparedHasRequest
<1>6. MarkedIsMarked' /\ AnswerNames' /\ AnsweredIsOver' /\ AnswerIsOfTheSameRequest'
  BY DEF TypeOK, MarkedIsMarked, PreparedUnder, AnswerNames, AnsweredIsOver,
     AnswerIsOfTheSameRequest
<1>7. AnsweredIsRecorded' /\ SettledIsAudited'
  BY DEF TypeOK, AnsweredIsRecorded, SettledIsAudited
<1> QED BY <1>1, <1>2, <1>3, <1>4, <1>5, <1>6, <1>7 DEF IInv

\* The end is audited before it is recorded.
LEMMA SendStep ==
  ASSUME IInv, NEW r \in Requests, Send(r)
  PROVE  IInv'
<1> USE LedgerAssumption DEF LedgerAssumption, IInv, Key, Own, Holds, Reserved, InFlight, Goes,
        Told, MayFail, handling, disk, Send
<1>own. \A k \in Keys : ledger[k] # None =>
         /\ ledger[k].op \in Requests /\ Own(ledger[k].op) /\ Key(ledger[k].op) = k
         /\ ledger[k] \in Receipts
  BY ReceiptOwner
<1>aud. \A q \in Requests : audit[q] \subseteq audit'[q]
  <2>1. op[r] \in Requests /\ audit \in [Requests -> SUBSET Outcomes]
    BY DEF TypeOK, WorksUnder
  <2>2. audit' = audit \/ \E x : audit' = [audit EXCEPT ![op[r]] = @ \cup {x}]
    OBVIOUS
  <2> QED BY <2>1, <2>2
<1>1. TypeOK'
  <2>1. (pc \in [Requests -> Phases])'
    BY DEF TypeOK, Phases
  <2>2. (audit \in [Requests -> SUBSET Outcomes])'
    BY DEF TypeOK, Outcomes, WorksUnder, Outcome
  <2> QED BY <2>1, <2>2 DEF TypeOK
<1>2. NoTraceYet' /\ ReceiptOfItsRequest' /\ WorksUnder' /\ OwnReceiptStays'
  BY DEF TypeOK, NoTraceYet, ReceiptOfItsRequest, WorksUnder, PreparedUnder, OwnReceiptStays,
     Expired
<1>3. OwnReceiptPrepared' /\ OneEnd' /\ HandlerRan'
  BY DEF TypeOK, OwnReceiptPrepared, OneEnd, HandlerRan
<1>4. AuditLeads'
  BY <1>aud DEF TypeOK, AuditLeads, Outcome, WorksUnder
<1>5. SpentUnderReceipt' /\ PreparedHasRequest' /\ MarkedIsMarked' /\ AnswerNames'
  BY DEF TypeOK, SpentUnderReceipt, PreparedHasRequest, ReceiptOfItsRequest, MarkedIsMarked,
     PreparedUnder, AnswerNames
<1>6. AnsweredIsOver'
  BY DEF TypeOK, AnsweredIsOver
<1>7. AnswerIsOfTheSameRequest'
  <2>1. ASSUME NEW q \in Requests, answer'[q].kind \in {"replay", "pending"}
        PROVE  answer'[q] = answer[q] /\ answer[q].op \in Requests /\ asked' = asked /\ ran' = ran
    BY <2>1 DEF TypeOK, AnswerNames
  <2> QED BY <1>aud, <2>1 DEF AnswerIsOfTheSameRequest
<1>8. AnsweredIsRecorded'
  BY DEF TypeOK, AnsweredIsRecorded
<1>9. SettledIsAudited'
  BY <1>own, <1>aud, ledger' = ledger DEF SettledIsAudited
<1> QED BY <1>1, <1>2, <1>3, <1>4, <1>5, <1>6, <1>7, <1>8, <1>9 DEF IInv

\* A doubted end leaves a receipt that is settled, or a mark that failed.
LEMMA LamentStep ==
  ASSUME IInv, NEW r \in Requests, Lament(r)
  PROVE  IInv'
<1> USE LedgerAssumption DEF LedgerAssumption, IInv, Key, Own, Holds, Reserved, InFlight, Goes,
        Told, MayFail, handling, disk, Lament, AuditUnknown
<1>own. \A k \in Keys : ledger[k] # None =>
         /\ ledger[k].op \in Requests /\ Own(ledger[k].op) /\ Key(ledger[k].op) = k
         /\ ledger[k] \in Receipts
  BY ReceiptOwner
<1>aud. \A q \in Requests : audit[q] \subseteq audit'[q]
  <2>1. op[r] \in Requests /\ audit \in [Requests -> SUBSET Outcomes]
    BY DEF TypeOK, WorksUnder
  <2>2. audit' = audit \/ \E x : audit' = [audit EXCEPT ![op[r]] = @ \cup {x}]
    OBVIOUS
  <2> QED BY <2>1, <2>2
<1>1. TypeOK'
  <2>1. (pc \in [Requests -> Phases])'
    BY DEF TypeOK, Phases
  <2>2. (audit \in [Requests -> SUBSET Outcomes])'
    BY DEF TypeOK, Outcomes, WorksUnder
  <2>3. (answer \in [Requests -> Answers])'
    BY DEF TypeOK, Answers, WorksUnder
  <2> QED BY <2>1, <2>2, <2>3 DEF TypeOK
<1>2. NoTraceYet' /\ ReceiptOfItsRequest' /\ WorksUnder' /\ OwnReceiptStays'
  BY DEF TypeOK, NoTraceYet, ReceiptOfItsRequest, WorksUnder, PreparedUnder, OwnReceiptStays,
     Expired
<1>3. OwnReceiptPrepared' /\ OneEnd' /\ HandlerRan'
  BY DEF TypeOK, OwnReceiptPrepared, OneEnd, HandlerRan
<1>4. AuditLeads'
  BY <1>aud DEF TypeOK, AuditLeads, Outcome, WorksUnder
<1>5. SpentUnderReceipt'
  BY DEF TypeOK, SpentUnderReceipt
<1>6. PreparedHasRequest'
  <2>1. ASSUME NEW k \in Keys, ledger'[k] # None, ledger'[k].status = "prepared", ledger'[k].op \in active'
        PROVE  (InFlight(ledger[k].op) \/ ledger[k].op \in unsettled)'
    <3> DEFINE q == ledger[k].op
    <3>1. ledger'[k] = ledger[k] /\ active' = active
      OBVIOUS
    <3>a. q \in Requests /\ q \in active /\ Own(q) /\ Key(q) = k /\ PreparedUnder(Key(q), q)
      BY <1>own, <2>1, <3>1 DEF PreparedUnder
    <3>2. CASE q # r
      BY <2>1, <3>1, <3>a, <3>2 DEF TypeOK, PreparedHasRequest
    <3>3. CASE q = r
      BY <2>1, <3>1, <3>a, <3>3 DEF TypeOK, OneEnd, MarkedIsMarked, PreparedHasRequest
    <3> QED BY <3>2, <3>3
  <2> QED BY <2>1 DEF PreparedHasRequest
<1>7. MarkedIsMarked' /\ AnswerNames' /\ AnsweredIsOver'
  BY DEF TypeOK, MarkedIsMarked, PreparedUnder, AnswerNames, AnsweredIsOver
<1>8. AnswerIsOfTheSameRequest'
  <2>1. ASSUME NEW q \in Requests, answer'[q].kind \in {"replay", "pending"}
        PROVE  answer'[q] = answer[q] /\ answer[q].op \in Requests /\ asked' = asked /\ ran' = ran
    BY <2>1 DEF TypeOK, AnswerNames
  <2> QED BY <1>aud, <2>1 DEF AnswerIsOfTheSameRequest
<1>9. AnsweredIsRecorded'
  BY DEF TypeOK, AnsweredIsRecorded
<1>10. SettledIsAudited'
  BY <1>own, <1>aud, ledger' = ledger DEF SettledIsAudited
<1> QED BY <1>1, <1>2, <1>3, <1>4, <1>5, <1>6, <1>7, <1>8, <1>9, <1>10 DEF IInv

\* The hook starts only where no end has begun.
LEMMA AbortStep ==
  ASSUME IInv, NEW r \in Requests, Abort(r)
  PROVE  IInv'
<1> USE LedgerAssumption DEF LedgerAssumption, IInv, Key, Own, Holds, Reserved, InFlight, Goes,
        Told, MayFail, handling, disk, Abort, HasContext
<1>1. TypeOK'
  <2>1. (abort \in [Requests -> {"none", "marking", "auditing", "done"}])'
    BY DEF TypeOK
  <2> QED BY <2>1 DEF TypeOK
<1>2. NoTraceYet' /\ ReceiptOfItsRequest' /\ WorksUnder' /\ OwnReceiptStays'
  BY DEF TypeOK, NoTraceYet, ReceiptOfItsRequest, WorksUnder, PreparedUnder, OwnReceiptStays,
     Expired
<1>3. OwnReceiptPrepared' /\ OneEnd' /\ HandlerRan' /\ AuditLeads'
  BY DEF TypeOK, OwnReceiptPrepared, OneEnd, HandlerRan, AuditLeads, Outcome, WorksUnder
<1>4. SpentUnderReceipt' /\ PreparedHasRequest' /\ MarkedIsMarked' /\ AnswerNames'
  BY DEF TypeOK, SpentUnderReceipt, PreparedHasRequest, ReceiptOfItsRequest, MarkedIsMarked,
     PreparedUnder, AnswerNames
<1>5. AnsweredIsOver' /\ AnswerIsOfTheSameRequest' /\ AnsweredIsRecorded' /\ SettledIsAudited'
  BY DEF TypeOK, AnsweredIsOver, AnswerIsOfTheSameRequest, AnswerNames, AnsweredIsRecorded,
     SettledIsAudited
<1> QED BY <1>1, <1>2, <1>3, <1>4, <1>5 DEF IInv

\* The hook ends with the receipt marked.
LEMMA AbortAuditsStep ==
  ASSUME IInv, NEW r \in Requests, AbortAudits(r)
  PROVE  IInv'
<1> USE LedgerAssumption DEF LedgerAssumption, IInv, Key, Own, Holds, Reserved, InFlight, Goes,
        Told, MayFail, handling, disk, AbortAudits, AuditUnknown
<1>own. \A k \in Keys : ledger[k] # None =>
         /\ ledger[k].op \in Requests /\ Own(ledger[k].op) /\ Key(ledger[k].op) = k
         /\ ledger[k] \in Receipts
  BY ReceiptOwner
<1>aud. \A q \in Requests : audit[q] \subseteq audit'[q]
  <2>1. op[r] \in Requests /\ audit \in [Requests -> SUBSET Outcomes]
    BY DEF TypeOK, WorksUnder
  <2>2. audit' = audit \/ \E x : audit' = [audit EXCEPT ![op[r]] = @ \cup {x}]
    OBVIOUS
  <2> QED BY <2>1, <2>2
<1>1. TypeOK'
  <2>1. (audit \in [Requests -> SUBSET Outcomes])'
    BY DEF TypeOK, Outcomes, WorksUnder
  <2>2. (abort \in [Requests -> {"none", "marking", "auditing", "done"}])'
    BY DEF TypeOK, WorksUnder
  <2> QED BY <2>1, <2>2 DEF TypeOK
<1>2. NoTraceYet' /\ ReceiptOfItsRequest' /\ WorksUnder' /\ OwnReceiptStays'
  BY DEF TypeOK, NoTraceYet, ReceiptOfItsRequest, WorksUnder, PreparedUnder, OwnReceiptStays,
     Expired
<1>3. OwnReceiptPrepared' /\ OneEnd' /\ HandlerRan'
  BY DEF TypeOK, OwnReceiptPrepared, OneEnd, HandlerRan
<1>4. AuditLeads'
  BY <1>aud DEF TypeOK, AuditLeads, Outcome, WorksUnder
<1>5. SpentUnderReceipt'
  BY DEF TypeOK, SpentUnderReceipt
<1>6. PreparedHasRequest'
  <2>1. ASSUME NEW k \in Keys, ledger'[k] # None, ledger'[k].status = "prepared", ledger'[k].op \in active'
        PROVE  (InFlight(ledger[k].op) \/ ledger[k].op \in unsettled)'
    <3> DEFINE q == ledger[k].op
    <3>1. ledger'[k] = ledger[k] /\ active' = active
      OBVIOUS
    <3>a. q \in Requests /\ q \in active /\ Own(q) /\ Key(q) = k /\ PreparedUnder(Key(q), q)
      BY <1>own, <2>1, <3>1 DEF PreparedUnder
    <3>2. CASE q # r
      BY <2>1, <3>1, <3>a, <3>2 DEF TypeOK, PreparedHasRequest
    <3>3. CASE q = r
      BY <2>1, <3>1, <3>a, <3>3 DEF TypeOK, OneEnd, MarkedIsMarked, PreparedHasRequest
    <3> QED BY <3>2, <3>3
  <2> QED BY <2>1 DEF PreparedHasRequest
<1>7. MarkedIsMarked' /\ AnswerNames' /\ AnsweredIsOver'
  BY DEF TypeOK, MarkedIsMarked, PreparedUnder, AnswerNames, AnsweredIsOver
<1>8. AnswerIsOfTheSameRequest'
  <2>1. ASSUME NEW q \in Requests, answer'[q].kind \in {"replay", "pending"}
        PROVE  answer'[q] = answer[q] /\ answer[q].op \in Requests /\ asked' = asked /\ ran' = ran
    BY <2>1 DEF TypeOK, AnswerNames
  <2> QED BY <1>aud, <2>1 DEF AnswerIsOfTheSameRequest
<1>9. AnsweredIsRecorded'
  BY DEF TypeOK, AnsweredIsRecorded
<1>10. SettledIsAudited'
  BY <1>own, <1>aud, ledger' = ledger DEF SettledIsAudited
<1> QED BY <1>1, <1>2, <1>3, <1>4, <1>5, <1>6, <1>7, <1>8, <1>9, <1>10 DEF IInv

\* A doubted end marks the request's own receipt or none.
LEMMA DoubtStep ==
  ASSUME IInv, NEW r \in Requests, Doubt(r)
  PROVE  IInv'
<1> USE LedgerAssumption DEF LedgerAssumption, IInv, Key, Own, Holds, Reserved, InFlight
<1>own. \A k \in Keys : ledger[k] # None =>
         /\ ledger[k].op \in Requests /\ Own(ledger[k].op) /\ Key(ledger[k].op) = k
         /\ ledger[k] \in Receipts
  BY ReceiptOwner
<1>a. /\ pc[r] = "doubting" /\ pc' = [pc EXCEPT ![r] = "lamenting"]
      /\ UNCHANGED <<asked, op, abort, finalizing, gone, ran, reply, answer, audit, clock, crashes, spent>>
  BY DEF Doubt, Goes, handling
<1>b. op[r] \in Requests /\ abort[r] = "none" /\ (MarkUnknown(r) \/ MarkFails(r))
  BY <1>a DEF OneEnd, WorksUnder, Doubt
<1>c. /\ ledger' \in [Keys -> Receipts \cup {None}] /\ fails' \in 0 .. MaxFails
      /\ unsettled' \subseteq Requests /\ unsettled \subseteq unsettled'
      /\ \/ /\ UNCHANGED <<ledger, active>>
            /\ PreparedUnder(Key(r), op[r]) => op[r] \in unsettled'
         \/ /\ Own(r) /\ PreparedUnder(Key(r), r) /\ active' = active \ {r} /\ UNCHANGED unsettled
            /\ \A k \in Keys : k # Key(r) => ledger'[k] = ledger[k]
            /\ ledger'[Key(r)] # None /\ ledger'[Key(r)].op = r
            /\ ledger'[Key(r)].body = ledger[Key(r)].body
            /\ ledger'[Key(r)].status = "outcome_unknown" /\ ~ledger'[Key(r)].response
            /\ ~(ledger'[Key(r)].expires <= clock)
  BY <1>a, <1>b, MarkEffect
<1>d. \A k \in Keys :
        /\ ledger'[k] = None <=> ledger[k] = None
        /\ ledger[k] # None => ledger'[k].op = ledger[k].op /\ ledger'[k].body = ledger[k].body
        /\ \/ ledger'[k] = ledger[k]
           \/ /\ ledger[k].op = r /\ ledger[k].status = "prepared" /\ ledger'[k].status = "outcome_unknown"
              /\ ~ledger'[k].response /\ ~(ledger'[k].expires <= clock)
  BY <1>c DEF PreparedUnder
<1>e. active' = active \/ (Own(r) /\ PreparedUnder(Key(r), r) /\ active' = active \ {r})
  BY <1>c
<1>f. unsettled \subseteq unsettled' /\ (PreparedUnder(Key(r), op[r])' => op[r] \in unsettled')
  BY <1>a, <1>b, <1>c DEF PreparedUnder
<1>1. TypeOK'
  <2>1. (pc \in [Requests -> Phases])'
    BY <1>a, <1>b, <1>c DEF TypeOK, Phases
  <2>2. (ledger \in [Keys -> Receipts \cup {None}])'
    BY <1>a, <1>b, <1>c DEF TypeOK
  <2> QED BY <2>1, <2>2, <1>a, <1>b, <1>c DEF TypeOK
<1>2. NoTraceYet'
  BY <1>a, <1>b, <1>c DEF TypeOK, NoTraceYet
<1>3. ReceiptOfItsRequest'
  BY <1>own, <1>a, <1>b, <1>d, <1>e DEF ReceiptOfItsRequest, TypeOK
<1>4. WorksUnder'
  BY <1>a, <1>b, <1>c DEF TypeOK, WorksUnder, PreparedUnder
<1>5. OwnReceiptStays'
  BY <1>own, <1>a, <1>b, <1>d, <1>e DEF OwnReceiptStays, TypeOK, Expired
<1>6. OwnReceiptPrepared'
  BY <1>own, <1>a, <1>b, <1>d, <1>e DEF OwnReceiptPrepared, TypeOK, OwnReceiptStays, OneEnd,
     PreparedUnder
<1>7. OneEnd' /\ HandlerRan' /\ AuditLeads'
  BY <1>a, <1>b, <1>c DEF TypeOK, OneEnd, HandlerRan, AuditLeads, Outcome, WorksUnder
<1>8. SpentUnderReceipt'
  BY <1>own, <1>a, <1>b, <1>d, <1>e DEF SpentUnderReceipt, TypeOK
<1>9. PreparedHasRequest'
  <2>1. ASSUME NEW k \in Keys, ledger'[k] # None, ledger'[k].status = "prepared", ledger'[k].op \in active'
        PROVE  (InFlight(ledger[k].op) \/ ledger[k].op \in unsettled)'
    <3> DEFINE q == ledger[k].op
    <3>1. /\ ledger'[k] = ledger[k] /\ q \in Requests /\ q \in active /\ Own(q) /\ Key(q) = k
          /\ PreparedUnder(Key(q), q)
      BY <1>own, <1>c, <2>1 DEF PreparedUnder
    <3>2. CASE q # r
      BY <1>a, <1>c, <2>1, <3>1, <3>2 DEF TypeOK, PreparedHasRequest
    <3>3. CASE q = r
      BY <1>a, <1>b, <1>c, <2>1, <3>1, <3>3 DEF TypeOK
    <3> QED BY <3>2, <3>3
  <2> QED BY <2>1 DEF PreparedHasRequest
<1>10. MarkedIsMarked'
  BY <1>own, <1>a, <1>b, <1>d, <1>e, <1>f DEF MarkedIsMarked, TypeOK, PreparedUnder
<1>11. AnswerNames' /\ AnsweredIsOver' /\ AnswerIsOfTheSameRequest'
  BY <1>a, <1>b, <1>c DEF TypeOK, AnswerNames, AnsweredIsOver, AnswerIsOfTheSameRequest
<1>12. AnsweredIsRecorded'
  BY <1>own, <1>a, <1>b, <1>d, <1>e DEF AnsweredIsRecorded, TypeOK
<1>13. SettledIsAudited'
  BY <1>own, <1>a, <1>b, <1>d, <1>e DEF SettledIsAudited, TypeOK
<1> QED BY <1>1, <1>2, <1>3, <1>4, <1>5, <1>6, <1>7, <1>8, <1>9, <1>10, <1>11, <1>12, <1>13 DEF IInv

\* So does the hook.
LEMMA AbortMarksStep ==
  ASSUME IInv, NEW r \in Requests, AbortMarks(r)
  PROVE  IInv'
<1> USE LedgerAssumption DEF LedgerAssumption, IInv, Key, Own, Holds, Reserved, InFlight
<1>own. \A k \in Keys : ledger[k] # None =>
         /\ ledger[k].op \in Requests /\ Own(ledger[k].op) /\ Key(ledger[k].op) = k
         /\ ledger[k] \in Receipts
  BY ReceiptOwner
<1>a. /\ abort[r] = "marking"
      /\ \/ abort' = [abort EXCEPT ![r] = "auditing"]
         \/ /\ abort' = [abort EXCEPT ![r] = "done"]
            /\ PreparedUnder(Key(r), op[r]) => op[r] \in unsettled'
      /\ UNCHANGED <<asked, pc, op, finalizing, gone, ran, reply, answer, audit, clock, crashes, spent>>
  BY DEF AbortMarks, MarkUnknown, MarkFails, Doubted, PreparedUnder, handling
<1>b. op[r] \in Requests /\ pc[r] # "idle" /\ (MarkUnknown(r) \/ MarkFails(r))
  BY <1>a DEF NoTraceYet, WorksUnder, AbortMarks
<1>c. /\ ledger' \in [Keys -> Receipts \cup {None}] /\ fails' \in 0 .. MaxFails
      /\ unsettled' \subseteq Requests /\ unsettled \subseteq unsettled'
      /\ \/ /\ UNCHANGED <<ledger, active>>
            /\ PreparedUnder(Key(r), op[r]) => op[r] \in unsettled'
         \/ /\ Own(r) /\ PreparedUnder(Key(r), r) /\ active' = active \ {r} /\ UNCHANGED unsettled
            /\ \A k \in Keys : k # Key(r) => ledger'[k] = ledger[k]
            /\ ledger'[Key(r)] # None /\ ledger'[Key(r)].op = r
            /\ ledger'[Key(r)].body = ledger[Key(r)].body
            /\ ledger'[Key(r)].status = "outcome_unknown" /\ ~ledger'[Key(r)].response
            /\ ~(ledger'[Key(r)].expires <= clock)
  BY <1>a, <1>b, MarkEffect
<1>d. \A k \in Keys :
        /\ ledger'[k] = None <=> ledger[k] = None
        /\ ledger[k] # None => ledger'[k].op = ledger[k].op /\ ledger'[k].body = ledger[k].body
        /\ \/ ledger'[k] = ledger[k]
           \/ /\ ledger[k].op = r /\ ledger[k].status = "prepared" /\ ledger'[k].status = "outcome_unknown"
              /\ ~ledger'[k].response /\ ~(ledger'[k].expires <= clock)
  BY <1>c DEF PreparedUnder
<1>e. active' = active \/ (Own(r) /\ PreparedUnder(Key(r), r) /\ active' = active \ {r})
  BY <1>c
<1>f. unsettled \subseteq unsettled' /\ (PreparedUnder(Key(r), op[r])' => op[r] \in unsettled')
  BY <1>a, <1>b, <1>c DEF PreparedUnder
<1>1. TypeOK'
  <2>1. (ledger \in [Keys -> Receipts \cup {None}])'
    BY <1>a, <1>b, <1>c DEF TypeOK
  <2>2. (abort \in [Requests -> {"none", "marking", "auditing", "done"}])'
    BY <1>a, <1>b, <1>c DEF TypeOK
  <2> QED BY <2>1, <2>2, <1>a, <1>b, <1>c DEF TypeOK
<1>2. NoTraceYet'
  BY <1>a, <1>b, <1>c DEF TypeOK, NoTraceYet
<1>3. ReceiptOfItsRequest'
  BY <1>own, <1>a, <1>b, <1>d, <1>e DEF ReceiptOfItsRequest, TypeOK
<1>4. WorksUnder'
  BY <1>a, <1>b, <1>c DEF TypeOK, WorksUnder, PreparedUnder
<1>5. OwnReceiptStays'
  BY <1>own, <1>a, <1>b, <1>d, <1>e DEF OwnReceiptStays, TypeOK, Expired
<1>6. OwnReceiptPrepared'
  BY <1>own, <1>a, <1>b, <1>d, <1>e DEF OwnReceiptPrepared, TypeOK, OwnReceiptStays, OneEnd,
     PreparedUnder
<1>7. OneEnd' /\ HandlerRan' /\ AuditLeads'
  BY <1>a, <1>b, <1>c DEF TypeOK, OneEnd, HandlerRan, AuditLeads, Outcome, WorksUnder
<1>8. SpentUnderReceipt'
  BY <1>own, <1>a, <1>b, <1>d, <1>e DEF SpentUnderReceipt, TypeOK
<1>9. PreparedHasRequest'
  <2>1. ASSUME NEW k \in Keys, ledger'[k] # None, ledger'[k].status = "prepared", ledger'[k].op \in active'
        PROVE  (InFlight(ledger[k].op) \/ ledger[k].op \in unsettled)'
    <3> DEFINE q == ledger[k].op
    <3>1. /\ ledger'[k] = ledger[k] /\ q \in Requests /\ q \in active /\ Own(q) /\ Key(q) = k
          /\ PreparedUnder(Key(q), q)
      BY <1>own, <1>c, <2>1 DEF PreparedUnder
    <3>2. CASE q # r
      BY <1>a, <1>c, <2>1, <3>1, <3>2 DEF TypeOK, PreparedHasRequest
    <3>3. CASE q = r
      BY <1>a, <1>b, <1>c, <2>1, <3>1, <3>3 DEF TypeOK
    <3> QED BY <3>2, <3>3
  <2> QED BY <2>1 DEF PreparedHasRequest
<1>10. MarkedIsMarked'
  BY <1>own, <1>a, <1>b, <1>d, <1>e, <1>f DEF MarkedIsMarked, TypeOK, PreparedUnder
<1>11. AnswerNames' /\ AnsweredIsOver' /\ AnswerIsOfTheSameRequest'
  BY <1>a, <1>b, <1>c DEF TypeOK, AnswerNames, AnsweredIsOver, AnswerIsOfTheSameRequest
<1>12. AnsweredIsRecorded'
  BY <1>own, <1>a, <1>b, <1>d, <1>e DEF AnsweredIsRecorded, TypeOK
<1>13. SettledIsAudited'
  BY <1>own, <1>a, <1>b, <1>d, <1>e DEF SettledIsAudited, TypeOK
<1> QED BY <1>1, <1>2, <1>3, <1>4, <1>5, <1>6, <1>7, <1>8, <1>9, <1>10, <1>11, <1>12, <1>13 DEF IInv

\* The acceptance is audited and the handler starts, or the hook does.
LEMMA AcceptStep ==
  ASSUME IInv, NEW r \in Requests, Accept(r)
  PROVE  IInv'
<1> USE LedgerAssumption DEF LedgerAssumption, IInv, Key, Own, Holds, Reserved, InFlight
<1>own. \A k \in Keys : ledger[k] # None =>
         /\ ledger[k].op \in Requests /\ Own(ledger[k].op) /\ Key(ledger[k].op) = k
         /\ ledger[k] \in Receipts
  BY ReceiptOwner
<1>a. /\ pc[r] = "accepting" /\ audit' = [audit EXCEPT ![op[r]] = @ \cup {"accepted"}]
      /\ \/ /\ pc' = [pc EXCEPT ![r] = "over"] /\ abort' = [abort EXCEPT ![r] = "marking"]
            /\ finalizing' = finalizing \cup {r}
         \/ pc' = [pc EXCEPT ![r] = "handling"] /\ UNCHANGED <<abort, finalizing>>
      /\ UNCHANGED <<asked, op, gone, ran, reply, answer, ledger, active, clock, fails, crashes, unsettled, spent>>
  BY DEF Accept, Goes
<1>aud. \A q \in Requests : audit[q] \subseteq audit'[q] /\ audit' \in [Requests -> SUBSET Outcomes]
  BY <1>a DEF TypeOK, WorksUnder, Outcomes
<1>1. TypeOK'
  <2>1. (pc \in [Requests -> Phases])'
    BY <1>a DEF TypeOK, Phases
  <2>2. (audit \in [Requests -> SUBSET Outcomes])'
    BY <1>a DEF TypeOK, Outcomes, WorksUnder
  <2>3. (abort \in [Requests -> {"none", "marking", "auditing", "done"}])'
    BY <1>a DEF TypeOK, WorksUnder
  <2> QED BY <2>1, <2>2, <2>3, <1>a DEF TypeOK
<1>2. NoTraceYet' /\ ReceiptOfItsRequest' /\ WorksUnder' /\ OwnReceiptStays'
  BY <1>a DEF TypeOK, NoTraceYet, ReceiptOfItsRequest, WorksUnder, PreparedUnder, OwnReceiptStays,
     Expired
<1>3. OwnReceiptPrepared' /\ OneEnd' /\ HandlerRan'
  BY <1>a DEF TypeOK, OwnReceiptPrepared, OneEnd, HandlerRan
<1>4. AuditLeads'
  BY <1>a, <1>aud DEF TypeOK, AuditLeads, Outcome, WorksUnder
<1>5. SpentUnderReceipt'
  BY <1>a DEF TypeOK, SpentUnderReceipt
<1>6. PreparedHasRequest'
  <2>1. ASSUME NEW k \in Keys, ledger'[k] # None, ledger'[k].status = "prepared", ledger'[k].op \in active'
        PROVE  (InFlight(ledger[k].op) \/ ledger[k].op \in unsettled)'
    <3> DEFINE q == ledger[k].op
    <3>1. ledger'[k] = ledger[k] /\ active' = active
      BY <1>a
    <3>a. q \in Requests /\ q \in active /\ Own(q) /\ Key(q) = k /\ PreparedUnder(Key(q), q)
      BY <1>own, <2>1, <3>1 DEF PreparedUnder
    <3>2. CASE q # r
      BY <1>a, <2>1, <3>1, <3>a, <3>2 DEF TypeOK, PreparedHasRequest
    <3>3. CASE q = r
      BY <1>a, <2>1, <3>1, <3>a, <3>3 DEF TypeOK, OneEnd, MarkedIsMarked, PreparedHasRequest
    <3> QED BY <3>2, <3>3
  <2> QED BY <2>1 DEF PreparedHasRequest
<1>7. MarkedIsMarked' /\ AnswerNames' /\ AnsweredIsOver'
  BY <1>a DEF TypeOK, MarkedIsMarked, PreparedUnder, AnswerNames, AnsweredIsOver
<1>8. AnswerIsOfTheSameRequest'
  <2>1. ASSUME NEW q \in Requests, answer'[q].kind \in {"replay", "pending"}
        PROVE  answer'[q] = answer[q] /\ answer[q].op \in Requests /\ asked' = asked /\ ran' = ran
    BY <1>a, <2>1 DEF TypeOK, AnswerNames
  <2> QED BY <1>a, <1>aud, <2>1 DEF AnswerIsOfTheSameRequest
<1>9. AnsweredIsRecorded'
  BY <1>a DEF TypeOK, AnsweredIsRecorded
<1>10. SettledIsAudited'
  BY <1>own, <1>a, <1>aud DEF SettledIsAudited
<1> QED BY <1>1, <1>2, <1>3, <1>4, <1>5, <1>6, <1>7, <1>8, <1>9, <1>10 DEF IInv

\* A reservation that is taken back has had no effect.
LEMMA AbandonStep ==
  ASSUME IInv, NEW r \in Requests, Abandon(r)
  PROVE  IInv'
<1> USE LedgerAssumption DEF LedgerAssumption, IInv, Key, Own, Holds, Reserved, InFlight
<1>own. \A k \in Keys : ledger[k] # None =>
         /\ ledger[k].op \in Requests /\ Own(ledger[k].op) /\ Key(ledger[k].op) = k
         /\ ledger[k] \in Receipts
  BY ReceiptOwner
<1>a. /\ pc[r] = "abandoning" /\ pc' = [pc EXCEPT ![r] = "over"]
      /\ answer' = [answer EXCEPT ![r] = [kind |-> "unavailable", op |-> None]]
      /\ UNCHANGED <<asked, op, abort, finalizing, gone, ran, reply, audit, clock, crashes, spent>>
  BY DEF Abandon, Goes, Told, handling
<1>b. /\ op[r] \in Requests /\ Key(r) \in Keys /\ abort[r] = "none" /\ r \notin ran
      /\ PreparedUnder(Key(r), op[r]) => Own(r)
  BY <1>a DEF OneEnd, WorksUnder, HandlerRan, TypeOK
<1>c. /\ fails' \in 0 .. MaxFails /\ unsettled' \subseteq Requests /\ unsettled \subseteq unsettled'
      /\ \/ /\ UNCHANGED <<ledger, active>>
            /\ PreparedUnder(Key(r), op[r]) /\ op[r] \in active => op[r] \in unsettled'
         \/ /\ Own(r) /\ PreparedUnder(Key(r), r) /\ active' = active \ {r} /\ UNCHANGED unsettled
            /\ ledger' = [ledger EXCEPT ![Key(r)] = None]
  BY <1>a, <1>b DEF Abandon, MayAbandon, MayFail, PreparedUnder, TypeOK
<1>d. /\ ledger' \in [Keys -> Receipts \cup {None}]
      /\ \A k \in Keys : \/ ledger'[k] = ledger[k]
                         \/ k = Key(r) /\ ledger'[k] = None /\ ledger[k].op = r
  BY <1>b, <1>c DEF PreparedUnder, TypeOK
<1>e. active' = active \/ (Own(r) /\ PreparedUnder(Key(r), r) /\ active' = active \ {r})
  BY <1>c
<1>f. PreparedUnder(Key(r), r)' /\ Own(r) => r \notin active' \/ r \in unsettled'
  BY <1>a, <1>b, <1>c DEF PreparedUnder, TypeOK
<1>1. TypeOK'
  <2>1. (pc \in [Requests -> Phases])'
    BY <1>own, <1>a, <1>b, <1>c, <1>d, <1>e, <1>f DEF TypeOK, Phases
  <2>2. (ledger \in [Keys -> Receipts \cup {None}])'
    BY <1>own, <1>a, <1>b, <1>c, <1>d, <1>e, <1>f DEF TypeOK, Answers
  <2>3. (answer \in [Requests -> Answers])'
    BY <1>own, <1>a, <1>b, <1>c, <1>d, <1>e, <1>f DEF TypeOK, Answers, Answers
  <2> QED BY <2>1, <2>2, <2>3, <1>own, <1>a, <1>b, <1>c, <1>d, <1>e, <1>f DEF TypeOK
<1>2. NoTraceYet' /\ ReceiptOfItsRequest' /\ WorksUnder'
  BY <1>own, <1>a, <1>b, <1>c, <1>d, <1>e, <1>f DEF TypeOK, NoTraceYet, ReceiptOfItsRequest,
     WorksUnder, PreparedUnder
<1>3. OwnReceiptStays'
  BY <1>own, <1>a, <1>b, <1>c, <1>d, <1>e, <1>f DEF TypeOK, OwnReceiptStays, Expired, OneEnd
<1>4. OwnReceiptPrepared'
  <2>1. ASSUME NEW q \in Requests, Own(q), q # r, pc[q] \in Reserved \ {"lamenting"}, abort[q] \in {"none", "marking"}
        PROVE  q \in active' /\ ledger'[Key(q)].status = "prepared"
    <3>1. q \in active /\ ledger[Key(q)].status = "prepared" /\ Holds(Key(q), q) /\ Key(q) \in Keys
      BY <2>1 DEF OwnReceiptPrepared, OwnReceiptStays, TypeOK
    <3> QED BY <1>d, <1>e, <2>1, <3>1
  <2> QED BY <1>a, <2>1 DEF OwnReceiptPrepared, TypeOK
<1>5. OneEnd' /\ HandlerRan' /\ AuditLeads'
  BY <1>own, <1>a, <1>b, <1>c, <1>d, <1>e, <1>f DEF TypeOK, OneEnd, HandlerRan, AuditLeads, Outcome,
     WorksUnder
<1>6. SpentUnderReceipt'
  BY <1>own, <1>a, <1>b, <1>c, <1>d, <1>e, <1>f DEF TypeOK, SpentUnderReceipt, HandlerRan
<1>7. PreparedHasRequest'
  <2>1. ASSUME NEW k \in Keys, ledger'[k] # None, ledger'[k].status = "prepared", ledger'[k].op \in active'
        PROVE  (InFlight(ledger[k].op) \/ ledger[k].op \in unsettled)'
    <3> DEFINE q == ledger[k].op
    <3>1. ledger'[k] = ledger[k] /\ (ledger[k].op \in active)
      BY <1>d, <1>e, <2>1
    <3>a. q \in Requests /\ q \in active /\ Own(q) /\ Key(q) = k /\ PreparedUnder(Key(q), q)
      BY <1>a, <1>own, <2>1, <3>1 DEF PreparedUnder
    <3>2. CASE q # r
      BY <1>a, <1>c, <2>1, <3>1, <3>a, <3>2 DEF TypeOK, PreparedHasRequest
    <3>3. CASE q = r
      BY <1>a, <1>f, <2>1, <3>1, <3>a, <3>3 DEF PreparedUnder, TypeOK
    <3> QED BY <3>2, <3>3
  <2> QED BY <2>1 DEF PreparedHasRequest
<1>8. MarkedIsMarked' /\ AnswerNames' /\ AnsweredIsOver' /\ AnswerIsOfTheSameRequest'
  BY <1>own, <1>a, <1>b, <1>c, <1>d, <1>e, <1>f DEF TypeOK, MarkedIsMarked, PreparedUnder,
     AnswerNames, AnsweredIsOver, AnswerIsOfTheSameRequest
<1>9. AnsweredIsRecorded' /\ SettledIsAudited'
  BY <1>own, <1>a, <1>b, <1>c, <1>d, <1>e, <1>f DEF TypeOK, AnsweredIsRecorded, SettledIsAudited
<1> QED BY <1>1, <1>2, <1>3, <1>4, <1>5, <1>6, <1>7, <1>8, <1>9 DEF IInv

\* The end that was audited is recorded, on a receipt that is prepared.
LEMMA CompleteStep ==
  ASSUME IInv, NEW r \in Requests, Complete(r)
  PROVE  IInv'
<1> USE LedgerAssumption DEF LedgerAssumption, IInv, Key, Own, Holds, Reserved, InFlight
<1>own. \A k \in Keys : ledger[k] # None =>
         /\ ledger[k].op \in Requests /\ Own(ledger[k].op) /\ Key(ledger[k].op) = k
         /\ ledger[k] \in Receipts
  BY ReceiptOwner
<1>a. /\ pc[r] = "completing" /\ pc' = [pc EXCEPT ![r] = "over"] /\ Holds(Key(r), op[r])
      /\ answer' = [answer EXCEPT ![r] = [kind |-> "done", op |-> op[r]]] /\ active' = active \ {op[r]}
      /\ UNCHANGED <<asked, op, abort, finalizing, gone, ran, reply, audit, clock, fails, crashes, unsettled, spent>>
  BY DEF Complete, Goes, Told, handling
<1>b. /\ op[r] \in Requests /\ Key(r) \in Keys /\ abort[r] = "none"
      /\ r \in ran /\ reply[r] \in {"ok", "rejected"}
      /\ PreparedUnder(Key(r), op[r]) => Own(r)
  BY <1>a DEF OneEnd, WorksUnder, HandlerRan, TypeOK
<1>c. /\ "accepted" \in audit[op[r]]
      /\ (IF reply[r] = "ok" THEN "completed" ELSE "rejected") \in audit[op[r]]
  BY <1>a DEF AuditLeads, Outcome
<1>d. /\ ledger' \in [Keys -> Receipts \cup {None}]
      /\ ~PreparedUnder(Key(r), op[r])'
      /\ \A k \in Keys :
           /\ ledger'[k] = None <=> ledger[k] = None
           /\ ledger[k] # None => ledger'[k].op = ledger[k].op /\ ledger'[k].body = ledger[k].body
           /\ \/ ledger'[k] = ledger[k]
              \/ /\ k = Key(r) /\ ledger[k].op = r /\ Own(r) /\ ledger[k].status = "prepared"
                 /\ ledger'[k].status = "completed" /\ ledger'[k].outcome = reply[r]
                 /\ ~(ledger'[k].expires <= clock)
  <2>1. CASE ledger[Key(r)].status # "prepared" /\ ledger' = ledger
    BY <1>a, <1>b, <2>1 DEF PreparedUnder, TypeOK
  <2>2. CASE ~(ledger[Key(r)].status # "prepared" /\ ledger' = ledger)
    <3>1. PICK kept \in BOOLEAN : ledger' = [ledger EXCEPT ![Key(r)] = Settled(r, kept)]
      BY <2>2 DEF Complete
    <3>2. ledger[Key(r)].status = "prepared"
      BY <2>2 DEF Complete
    <3>3. /\ Settled(r, kept) \in Receipts
          /\ Settled(r, kept).op = ledger[Key(r)].op /\ Settled(r, kept).body = ledger[Key(r)].body
          /\ Settled(r, kept).status = "completed" /\ Settled(r, kept).outcome = reply[r]
          /\ ~(Settled(r, kept).expires <= clock)
      BY <1>a, SettledReceipt
    <3> HIDE DEF Settled
    <3> QED BY <1>a, <1>b, <3>1, <3>2, <3>3 DEF PreparedUnder, TypeOK
  <2> QED BY <2>1, <2>2
<1>e. \A q \in Requests : q # r /\ Own(q) /\ PreparedUnder(Key(q), q) => q # op[r]
  BY <1>b DEF WorksUnder, PreparedUnder
<1>f. \A q \in Requests : Own(q) /\ InFlight(q) => Holds(Key(q), q)
  BY DEF OwnReceiptStays
<1>1. TypeOK'
  <2>1. (pc \in [Requests -> Phases])'
    BY <1>own, <1>a, <1>b, <1>c, <1>d, <1>e, <1>f DEF TypeOK, Phases
  <2>2. (ledger \in [Keys -> Receipts \cup {None}])'
    BY <1>own, <1>a, <1>b, <1>c, <1>d, <1>e, <1>f DEF TypeOK, Answers
  <2>3. (answer \in [Requests -> Answers])'
    BY <1>own, <1>a, <1>b, <1>c, <1>d, <1>e, <1>f DEF TypeOK, Answers, Answers
  <2> QED BY <2>1, <2>2, <2>3, <1>own, <1>a, <1>b, <1>c, <1>d, <1>e, <1>f DEF TypeOK
<1>2. NoTraceYet'
  BY <1>own, <1>a, <1>b, <1>c, <1>d, <1>e, <1>f DEF TypeOK, NoTraceYet
<1>3. ReceiptOfItsRequest'
  BY <1>own, <1>a, <1>b, <1>c, <1>d, <1>e, <1>f DEF TypeOK, ReceiptOfItsRequest, HandlerRan
<1>4. WorksUnder' /\ OwnReceiptStays'
  BY <1>own, <1>a, <1>b, <1>c, <1>d, <1>e, <1>f DEF TypeOK, WorksUnder, PreparedUnder,
     OwnReceiptStays, Expired
<1>5. OwnReceiptPrepared'
  BY <1>own, <1>a, <1>b, <1>c, <1>d, <1>e, <1>f DEF TypeOK, OwnReceiptPrepared, OneEnd,
     OwnReceiptStays, PreparedUnder, WorksUnder
<1>6. OneEnd' /\ HandlerRan' /\ AuditLeads' /\ SpentUnderReceipt'
  BY <1>own, <1>a, <1>b, <1>c, <1>d, <1>e, <1>f DEF TypeOK, OneEnd, HandlerRan, AuditLeads, Outcome,
     WorksUnder, SpentUnderReceipt
<1>7. PreparedHasRequest'
  <2>1. ASSUME NEW k \in Keys, ledger'[k] # None, ledger'[k].status = "prepared", ledger'[k].op \in active'
        PROVE  (InFlight(ledger[k].op) \/ ledger[k].op \in unsettled)'
    <3>1. /\ ledger'[k] = ledger[k] /\ ledger[k].op \in active /\ ledger[k].op \in Requests /\ ledger[k].op # op[r]
      BY <1>own, <1>a, <1>d, <2>1
    <3>2. ledger[k].op # r
      BY <1>own, <1>a, <1>b, <1>d, <2>1, <3>1 DEF PreparedUnder, OwnReceiptStays, OwnReceiptPrepared
    <3> QED BY <1>a, <2>1, <3>1, <3>2 DEF PreparedHasRequest, TypeOK
  <2> QED BY <1>own, <1>d, <2>1 DEF PreparedHasRequest
<1>8. MarkedIsMarked'
  BY <1>own, <1>a, <1>b, <1>c, <1>d, <1>e, <1>f DEF TypeOK, MarkedIsMarked, PreparedUnder, OneEnd
<1>9. AnswerNames' /\ AnsweredIsOver' /\ AnswerIsOfTheSameRequest'
  BY <1>own, <1>a, <1>b, <1>c, <1>d, <1>e, <1>f DEF TypeOK, AnswerNames, AnsweredIsOver,
     AnswerIsOfTheSameRequest
<1>10. AnsweredIsRecorded'
  BY <1>own, <1>a, <1>b, <1>c, <1>d, <1>e, <1>f DEF TypeOK, AnsweredIsRecorded, OwnReceiptPrepared,
     OwnReceiptStays, PreparedUnder
<1>11. SettledIsAudited'
  BY <1>own, <1>a, <1>b, <1>c, <1>d, <1>e, <1>f DEF TypeOK, SettledIsAudited, AuditLeads, Outcome
<1> QED BY <1>1, <1>2, <1>3, <1>4, <1>5, <1>6, <1>7, <1>8, <1>9, <1>10, <1>11 DEF IInv

\* An end that is not recorded is doubted.
LEMMA CompleteFailsStep ==
  ASSUME IInv, NEW r \in Requests, CompleteFails(r)
  PROVE  IInv'
<1> USE LedgerAssumption DEF LedgerAssumption, IInv, Key, Own, Holds, Reserved, InFlight, Goes,
        Told, MayFail, handling, disk, CompleteFails
<1>1. TypeOK'
  <2>1. (pc \in [Requests -> Phases])'
    BY DEF TypeOK, Phases
  <2> QED BY <2>1 DEF TypeOK
<1>2. NoTraceYet' /\ ReceiptOfItsRequest' /\ WorksUnder' /\ OwnReceiptStays'
  BY DEF TypeOK, NoTraceYet, ReceiptOfItsRequest, WorksUnder, PreparedUnder, OwnReceiptStays,
     Expired
<1>3. OwnReceiptPrepared' /\ OneEnd' /\ HandlerRan' /\ AuditLeads'
  BY DEF TypeOK, OwnReceiptPrepared, OneEnd, HandlerRan, AuditLeads, Outcome, WorksUnder
<1>4. SpentUnderReceipt' /\ PreparedHasRequest' /\ MarkedIsMarked' /\ AnswerNames'
  BY DEF TypeOK, SpentUnderReceipt, PreparedHasRequest, ReceiptOfItsRequest, MarkedIsMarked,
     PreparedUnder, AnswerNames
<1>5. AnsweredIsOver' /\ AnswerIsOfTheSameRequest' /\ AnsweredIsRecorded' /\ SettledIsAudited'
  BY DEF TypeOK, AnsweredIsOver, AnswerIsOfTheSameRequest, AnswerNames, AnsweredIsRecorded,
     SettledIsAudited
<1> QED BY <1>1, <1>2, <1>3, <1>4, <1>5 DEF IInv

\* No receipt of a request in flight expires.
LEMMA TickStep ==
  ASSUME IInv, Tick
  PROVE  IInv'
<1> USE LedgerAssumption DEF LedgerAssumption, IInv, Key, Own, Holds, Reserved, InFlight, Goes,
        Told, MayFail, handling, disk, Tick
<1>1. TypeOK'
  <2> QED BY DEF TypeOK
<1>2. NoTraceYet' /\ ReceiptOfItsRequest' /\ WorksUnder'
  BY DEF TypeOK, NoTraceYet, ReceiptOfItsRequest, WorksUnder, PreparedUnder
<1>3. OwnReceiptStays'
  <2>1. ASSUME NEW q \in Requests, Own(q), InFlight(q)
        PROVE  Holds(Key(q), q) /\ ~(ledger[Key(q)].expires <= clock + 1)
    BY <2>1, ReceiptFields DEF TypeOK, OwnReceiptStays
  <2> QED BY <2>1 DEF OwnReceiptStays, Expired
<1>4. OwnReceiptPrepared' /\ OneEnd' /\ HandlerRan' /\ AuditLeads'
  BY DEF TypeOK, OwnReceiptPrepared, OneEnd, HandlerRan, AuditLeads, Outcome, WorksUnder
<1>5. SpentUnderReceipt' /\ PreparedHasRequest' /\ MarkedIsMarked' /\ AnswerNames'
  BY DEF TypeOK, SpentUnderReceipt, PreparedHasRequest, ReceiptOfItsRequest, MarkedIsMarked,
     PreparedUnder, AnswerNames
<1>6. AnsweredIsOver' /\ AnswerIsOfTheSameRequest' /\ AnsweredIsRecorded' /\ SettledIsAudited'
  BY DEF TypeOK, AnsweredIsOver, AnswerIsOfTheSameRequest, AnswerNames, AnsweredIsRecorded,
     SettledIsAudited
<1> QED BY <1>1, <1>2, <1>3, <1>4, <1>5, <1>6 DEF IInv

\* A crash leaves the files and no request in flight.
LEMMA CrashStep ==
  ASSUME IInv, Crash
  PROVE  IInv'
<1> USE LedgerAssumption DEF LedgerAssumption, IInv, Key, Own, Holds, Reserved, InFlight, Goes,
        Told, MayFail, handling, disk, Crash
<1>1. TypeOK'
  <2>1. (pc \in [Requests -> Phases])'
    BY DEF TypeOK, Phases
  <2>2. (abort \in [Requests -> {"none", "marking", "auditing", "done"}])'
    BY DEF TypeOK, Answers
  <2>3. (answer \in [Requests -> Answers])'
    BY DEF TypeOK, Answers, Answers
  <2> QED BY <2>1, <2>2, <2>3 DEF TypeOK
<1>2. NoTraceYet' /\ ReceiptOfItsRequest' /\ WorksUnder' /\ OwnReceiptStays'
  BY DEF TypeOK, NoTraceYet, ReceiptOfItsRequest, WorksUnder, PreparedUnder, OwnReceiptStays,
     Expired
<1>3. OwnReceiptPrepared' /\ OneEnd' /\ HandlerRan' /\ AuditLeads'
  BY DEF TypeOK, OwnReceiptPrepared, OneEnd, HandlerRan, AuditLeads, Outcome, WorksUnder
<1>4. SpentUnderReceipt' /\ PreparedHasRequest' /\ MarkedIsMarked' /\ AnswerNames'
  BY DEF TypeOK, SpentUnderReceipt, PreparedHasRequest, ReceiptOfItsRequest, MarkedIsMarked,
     PreparedUnder, AnswerNames
<1>5. AnsweredIsOver' /\ AnswerIsOfTheSameRequest' /\ AnsweredIsRecorded' /\ SettledIsAudited'
  BY DEF TypeOK, AnsweredIsOver, AnswerIsOfTheSameRequest, AnswerNames, AnsweredIsRecorded,
     SettledIsAudited
<1> QED BY <1>1, <1>2, <1>3, <1>4, <1>5 DEF IInv

\* A look normalizes.
LEMMA LookStep ==
  ASSUME IInv, Look
  PROVE  IInv'
<1> USE LedgerAssumption DEF LedgerAssumption, IInv, Key, Own, Holds, Reserved, InFlight
<1>own. \A k \in Keys : ledger[k] # None =>
         /\ ledger[k].op \in Requests /\ Own(ledger[k].op) /\ Key(ledger[k].op) = k
         /\ ledger[k] \in Receipts
  BY ReceiptOwner
<1>a. /\ Normalizes /\ fails' \in 0 .. MaxFails
      /\ UNCHANGED <<asked, pc, op, abort, finalizing, gone, ran, reply, answer, audit, clock, crashes, unsettled>>
  BY NormalizeEffect DEF Look, MayFail, TypeOK, handling
<1>c. /\ \A q \in Requests : Key(q) \in Keys
      /\ active' \subseteq Requests
      /\ \A q \in Requests, k \in Keys : Holds(k, q)' => Holds(k, q)
      /\ \A k \in Keys : ledger'[k] # None /\ ledger'[k].status = "prepared" => ledger'[k] = ledger[k]
  BY <1>a DEF Normalizes, TypeOK
<1>1. TypeOK'
  <2>1. (ledger \in [Keys -> Receipts \cup {None}])'
    BY <1>own, <1>a, <1>c DEF TypeOK, Normalizes, Normalizes
  <2>2. (spent \in [Keys -> SUBSET Requests])'
    BY <1>own, <1>a, <1>c DEF TypeOK, Normalizes, Normalizes
  <2> QED BY <2>1, <2>2, <1>own, <1>a, <1>c DEF TypeOK
<1>2. NoTraceYet'
  BY <1>own, <1>a, <1>c DEF TypeOK, NoTraceYet, Normalizes
<1>3. ReceiptOfItsRequest'
  BY <1>own, <1>a, <1>c DEF TypeOK, ReceiptOfItsRequest, Normalizes
<1>4. WorksUnder'
  BY <1>own, <1>a, <1>c DEF TypeOK, WorksUnder, PreparedUnder, Normalizes
<1>5. OwnReceiptStays'
  BY <1>own, <1>a, <1>c DEF TypeOK, OwnReceiptStays, Expired, Normalizes
<1>6. OwnReceiptPrepared'
  BY <1>own, <1>a, <1>c DEF TypeOK, OwnReceiptPrepared, OneEnd, Normalizes
<1>7. OneEnd'
  BY <1>own, <1>a, <1>c DEF TypeOK, OneEnd, Normalizes
<1>8. HandlerRan'
  BY <1>own, <1>a, <1>c DEF TypeOK, HandlerRan, Normalizes
<1>9. AuditLeads'
  BY <1>own, <1>a, <1>c DEF TypeOK, AuditLeads, Outcome, WorksUnder, Normalizes
<1>10. SpentUnderReceipt'
  BY <1>own, <1>a, <1>c DEF TypeOK, SpentUnderReceipt, Normalizes
<1>11. PreparedHasRequest'
  BY <1>own, <1>a, <1>c DEF TypeOK, PreparedHasRequest, ReceiptOfItsRequest, Normalizes
<1>12. MarkedIsMarked'
  BY <1>own, <1>a, <1>c DEF TypeOK, MarkedIsMarked, PreparedUnder, Normalizes
<1>13. AnswerNames'
  BY <1>own, <1>a, <1>c DEF TypeOK, AnswerNames, Normalizes
<1>14. AnsweredIsOver'
  BY <1>own, <1>a, <1>c DEF TypeOK, AnsweredIsOver, Normalizes
<1>15. AnswerIsOfTheSameRequest'
  BY <1>own, <1>a, <1>c DEF TypeOK, AnswerIsOfTheSameRequest, AnswerNames, Normalizes
<1>16. AnsweredIsRecorded'
  BY <1>own, <1>a, <1>c DEF TypeOK, AnsweredIsRecorded, Normalizes
<1>17. SettledIsAudited'
  BY <1>own, <1>a, <1>c DEF TypeOK, SettledIsAudited, Normalizes
<1> QED BY <1>1, <1>2, <1>3, <1>4, <1>5, <1>6, <1>7, <1>8, <1>9, <1>10, <1>11, <1>12, <1>13, <1>14,
           <1>15, <1>16, <1>17 DEF IInv

\* A refusal leaves the files and starts nothing.
LEMMA ReserveRefusedStep ==
  ASSUME IInv, NEW r \in Requests, ReserveRefused(r)
  PROVE  IInv'
<1> USE LedgerAssumption DEF LedgerAssumption, IInv, Key, Own, Holds, Reserved, InFlight
<1>own. \A k \in Keys : ledger[k] # None =>
         /\ ledger[k].op \in Requests /\ Own(ledger[k].op) /\ Key(ledger[k].op) = k
         /\ ledger[k] \in Receipts
  BY ReceiptOwner
<1>a. /\ Normalizes /\ fails' \in 0 .. MaxFails /\ UNCHANGED <<ledger, spent>>
      /\ UNCHANGED <<asked, op, abort, finalizing, gone, ran, reply, audit, clock, crashes, unsettled>>
  BY NormalizeEffect DEF ReserveRefused, MayFail, TypeOK, handling
<1>c. /\ pc[r] = "idle" /\ pc' = [pc EXCEPT ![r] = "over"]
      /\ \/ answer' = [answer EXCEPT ![r] = [kind |-> "capacity", op |-> None]]
         \/ answer' = [answer EXCEPT ![r] = [kind |-> "unavailable", op |-> None]]
  BY DEF ReserveRefused, Told, Goes
<1>d. /\ \A q \in Requests : Key(q) \in Keys
      /\ active' \subseteq Requests
      /\ \A q \in Requests : Own(q) /\ InFlight(q) /\ q \in active => q \in active'
  BY <1>a DEF Normalizes, TypeOK
<1>1. TypeOK'
  <2>1. (pc \in [Requests -> Phases])'
    BY <1>own, <1>a, <1>c, <1>d DEF TypeOK, Phases
  <2>2. (answer \in [Requests -> Answers])'
    BY <1>own, <1>a, <1>c, <1>d DEF TypeOK, Answers
  <2>3. (ledger \in [Keys -> Receipts \cup {None}])'
    BY <1>own, <1>a, <1>c, <1>d DEF TypeOK, Normalizes
  <2>4. (spent \in [Keys -> SUBSET Requests])'
    BY <1>own, <1>a, <1>c, <1>d DEF TypeOK, Normalizes
  <2> QED BY <2>1, <2>2, <2>3, <2>4, <1>own, <1>a, <1>c, <1>d DEF TypeOK
<1>2. NoTraceYet'
  BY <1>own, <1>a, <1>c, <1>d DEF TypeOK, NoTraceYet, Normalizes
<1>3. ReceiptOfItsRequest'
  BY <1>own, <1>a, <1>c, <1>d DEF TypeOK, ReceiptOfItsRequest, Normalizes
<1>4. WorksUnder'
  BY <1>own, <1>a, <1>c, <1>d DEF TypeOK, WorksUnder, PreparedUnder, Normalizes
<1>5. OwnReceiptStays'
  BY <1>own, <1>a, <1>c, <1>d DEF TypeOK, OwnReceiptStays, Expired, Normalizes
<1>6. OwnReceiptPrepared'
  BY <1>own, <1>a, <1>c, <1>d DEF TypeOK, OwnReceiptPrepared, OneEnd
<1>7. OneEnd'
  BY <1>own, <1>a, <1>c, <1>d DEF TypeOK, OneEnd, NoTraceYet
<1>8. HandlerRan'
  BY <1>own, <1>a, <1>c, <1>d DEF TypeOK, HandlerRan, Normalizes
<1>9. AuditLeads'
  BY <1>own, <1>a, <1>c, <1>d DEF TypeOK, AuditLeads, Outcome, WorksUnder, Normalizes
<1>10. SpentUnderReceipt'
  BY <1>own, <1>a, <1>c, <1>d DEF TypeOK, SpentUnderReceipt, Normalizes
<1>11. PreparedHasRequest'
  BY <1>own, <1>a, <1>c, <1>d DEF TypeOK, PreparedHasRequest, ReceiptOfItsRequest, Normalizes
<1>12. MarkedIsMarked'
  BY <1>own, <1>a, <1>c, <1>d DEF TypeOK, MarkedIsMarked, PreparedUnder, Normalizes
<1>13. AnswerNames'
  BY <1>own, <1>a, <1>c, <1>d DEF TypeOK, AnswerNames, Normalizes
<1>14. AnsweredIsOver'
  BY <1>own, <1>a, <1>c, <1>d DEF TypeOK, AnsweredIsOver, Normalizes
<1>15. AnswerIsOfTheSameRequest'
  BY <1>own, <1>a, <1>c, <1>d DEF TypeOK, AnswerIsOfTheSameRequest, AnswerNames, Normalizes
<1>16. AnsweredIsRecorded'
  <2>1. ASSUME NEW q \in Requests, answer'[q].kind = "done"
        PROVE  answer'[q] = answer[q]
    BY <1>c, <2>1 DEF TypeOK
  <2> QED BY <1>a, <2>1 DEF AnsweredIsRecorded
<1>17. SettledIsAudited'
  BY <1>own, <1>a, <1>c, <1>d DEF TypeOK, SettledIsAudited, Normalizes
<1> QED BY <1>1, <1>2, <1>3, <1>4, <1>5, <1>6, <1>7, <1>8, <1>9, <1>10, <1>11, <1>12, <1>13, <1>14,
           <1>15, <1>16, <1>17 DEF IInv

\* An existing receipt is answered with, or recovered under, and never handled again.
LEMMA ReserveExistingStep ==
  ASSUME IInv, NEW r \in Requests, ReserveExisting(r)
  PROVE  IInv'
<1> USE LedgerAssumption DEF LedgerAssumption, IInv, Key, Own, Holds, Reserved, InFlight
<1>own. \A k \in Keys : ledger[k] # None =>
         /\ ledger[k].op \in Requests /\ Own(ledger[k].op) /\ Key(ledger[k].op) = k
         /\ ledger[k] \in Receipts
  BY ReceiptOwner
<1>a. /\ Normalizes /\ fails' \in 0 .. MaxFails
      /\ UNCHANGED <<asked, abort, finalizing, gone, ran, reply, clock, crashes, unsettled>>
  BY NormalizeEffect DEF ReserveExisting, Conflicts, Replays, Recovers, Pends, MayFail, TypeOK,
     handling
<1>b. /\ Key(r) \in Keys /\ pc[r] = "idle" /\ ledger' = Normalized /\ ledger'[Key(r)] # None
      /\ op[r] = None /\ answer[r].kind = "none"
  BY DEF ReserveExisting, Write, TypeOK, NoTraceYet
<1>o. PICK o : o = ledger'[Key(r)].op
  OBVIOUS
<1>p. /\ o \in Requests /\ o # r /\ Own(o) /\ Key(o) = Key(r) /\ ledger[Key(r)] # None
      /\ ledger[Key(r)].op = o /\ ledger'[Key(r)].body = asked[o].body
      /\ ledger'[Key(r)].response =>
           o \in ran /\ audit[o] \cap {"completed", "rejected"} # {}
  <2>1. ledger[Key(r)] # None /\ ledger[Key(r)].op = o /\ ledger'[Key(r)].body = ledger[Key(r)].body
    BY <1>a, <1>b, <1>o DEF Normalizes
  <2>2. o \in Requests /\ Own(o) /\ asked[o] = [key |-> Key(r), body |-> ledger[Key(r)].body]
    BY <1>own, <1>b, <2>1 DEF ReceiptOfItsRequest
  <2>3. o # r
    BY <1>b, <2>1 DEF NoTraceYet
  <2>4. ASSUME ledger'[Key(r)].response
        PROVE  o \in ran /\ audit[o] \cap {"completed", "rejected"} # {}
    BY <1>a, <1>b, <2>1, <2>4 DEF Normalizes, ReceiptOfItsRequest, SettledIsAudited
  <2> QED BY <2>1, <2>2, <2>3, <2>4
<1>c. \/ /\ ledger'[Key(r)].body = asked[r].body /\ Key(r) \in Recoverable
         /\ ledger'[Key(r)].status = "completed"
         /\ pc' = [pc EXCEPT ![r] = "accepting"] /\ op' = [op EXCEPT ![r] = o] /\ UNCHANGED <<answer, audit>>
      \/ /\ pc' = [pc EXCEPT ![r] = "over"] /\ UNCHANGED op
         /\ \E kind \in {"conflict", "unavailable", "replay", "pending"}, of \in Requests \cup {None} :
              /\ answer' = [answer EXCEPT ![r] = [kind |-> kind, op |-> of]]
              /\ kind \in {"replay", "pending"} => of = o /\ ledger'[Key(r)].body = asked[r].body
              /\ kind = "replay" => ledger'[Key(r)].response
         /\ audit' = audit \/ audit' = [audit EXCEPT ![o] = @ \cup {"conflict"}]
  BY <1>b, <1>o, <1>p DEF ReserveExisting, Write, Conflicts, Replays, Recovers, Pends, MayRecover,
     Told, Goes
<1>aud. \A q \in Requests : audit[q] \subseteq audit'[q] /\ audit' \in [Requests -> SUBSET Outcomes]
  BY <1>c, <1>p DEF TypeOK, Outcomes
<1>d. /\ \A q \in Requests : Key(q) \in Keys
      /\ active' \subseteq Requests
      /\ \A q \in Requests, k \in Keys : Holds(k, q)' => Holds(k, q)
      /\ \A k \in Keys : ledger'[k] # None /\ ledger'[k].status = "prepared" => ledger'[k] = ledger[k]
      /\ \A q \in Requests : q # r => op'[q] = op[q] /\ pc'[q] = pc[q] /\ answer'[q] = answer[q]
  BY <1>a, <1>c DEF Normalizes, TypeOK
<1>t. op' \in [Requests -> Requests \cup {None}] /\ pc' \in [Requests -> Phases] /\ answer' \in [Requests -> Answers]
  <2>1. op' \in [Requests -> Requests \cup {None}]
    BY <1>c, <1>p DEF TypeOK
  <2>2. pc' \in [Requests -> Phases]
    BY <1>c DEF TypeOK, Phases
  <2>3. answer' \in [Requests -> Answers]
    <3>1. \A kind \in {"conflict", "unavailable", "replay", "pending"}, of \in Requests \cup {None} :
            [kind |-> kind, op |-> of] \in Answers
      BY DEF Answers
    <3>2. CASE UNCHANGED answer
      BY <3>2 DEF TypeOK
    <3>3. CASE ~UNCHANGED answer
      <4>1. PICK kind \in {"conflict", "unavailable", "replay", "pending"}, of \in Requests \cup {None} :
              answer' = [answer EXCEPT ![r] = [kind |-> kind, op |-> of]]
        BY <1>c, <3>3
      <4>2. [kind |-> kind, op |-> of] \in Answers
        BY <3>1
      <4> QED BY <4>1, <4>2 DEF TypeOK
    <3> QED BY <3>2, <3>3
  <2> QED BY <2>1, <2>2, <2>3
<1>e. \/ /\ pc'[r] = "accepting" /\ op'[r] = o /\ answer'[r].kind = "none"
         /\ Key(r) \in Recoverable /\ ledger'[Key(r)].status = "completed"
      \/ /\ pc'[r] = "over" /\ op'[r] = None /\ answer'[r].kind \notin {"none", "done"}
         /\ answer'[r].kind \in {"replay", "pending"} => answer'[r].op = o /\ asked[o] = asked[r]
         /\ answer'[r].kind = "replay" => o \in ran /\ audit[o] \cap {"completed", "rejected"} # {}
  <2>1. ledger'[Key(r)].body = asked[r].body => asked[o] = asked[r]
    <3>1. \A q \in Requests : asked[q] = [key |-> asked[q].key, body |-> asked[q].body]
      BY DEF TypeOK
    <3> QED BY <1>p, <3>1
  <2>2. CASE /\ ledger'[Key(r)].body = asked[r].body /\ Key(r) \in Recoverable
             /\ ledger'[Key(r)].status = "completed"
             /\ pc' = [pc EXCEPT ![r] = "accepting"] /\ op' = [op EXCEPT ![r] = o] /\ UNCHANGED <<answer, audit>>
    BY <1>b, <2>2 DEF TypeOK
  <2>3. CASE /\ pc' = [pc EXCEPT ![r] = "over"] /\ UNCHANGED op
             /\ \E kind \in {"conflict", "unavailable", "replay", "pending"}, of \in Requests \cup {None} :
                  /\ answer' = [answer EXCEPT ![r] = [kind |-> kind, op |-> of]]
                  /\ kind \in {"replay", "pending"} => of = o /\ ledger'[Key(r)].body = asked[r].body
                  /\ kind = "replay" => ledger'[Key(r)].response
    BY <1>b, <1>p, <2>1, <2>3 DEF TypeOK
  <2> QED BY <1>c, <2>2, <2>3
<1>1. TypeOK'
  BY <1>a, <1>aud, <1>d, <1>t DEF TypeOK, Normalizes
<1>2. NoTraceYet'
  BY <1>a, <1>p, <1>d, <1>e DEF NoTraceYet, Normalizes
<1>3. ReceiptOfItsRequest'
  <2>1. ASSUME NEW k \in Keys, ledger'[k] # None
        PROVE  /\ op'[ledger'[k].op] = ledger'[k].op
               /\ asked[ledger'[k].op] = [key |-> k, body |-> ledger'[k].body]
               /\ ledger'[k].response => ledger'[k].status = "completed"
               /\ ledger'[k].status = "completed" => ledger'[k].op \in ran
    <3>1. /\ ledger[k] # None /\ ledger'[k].op = ledger[k].op /\ ledger'[k].body = ledger[k].body
          /\ \/ ledger'[k] = ledger[k]
             \/ ledger'[k].status = "outcome_unknown" /\ ~ledger'[k].response
      BY <1>a, <2>1 DEF Normalizes
    <3>2. ledger[k].op \in Requests /\ Own(ledger[k].op) /\ ledger[k].op # r
      BY <1>own, <1>b, <3>1 DEF NoTraceYet
    <3> QED BY <1>d, <3>1, <3>2 DEF ReceiptOfItsRequest
  <2> QED BY <1>a, <2>1 DEF ReceiptOfItsRequest
<1>4. WorksUnder'
  <2>0. \A k \in Keys : \A x : /\ ledger'[k] # None /\ ledger'[k].op = x /\ ledger'[k].status = "prepared"
                           => PreparedUnder(k, x)
    BY <1>d DEF PreparedUnder
  <2>1. ASSUME NEW q \in Requests, q # r
        PROVE  /\ pc'[q] \in Reserved \/ abort[q] # "none" => op'[q] \in Requests
               /\ op'[q] # None /\ op'[q] # q =>
                    /\ Key(q) \in Recoverable /\ Key(op'[q]) = Key(q)
                    /\ ~(/\ ledger'[Key(q)] # None /\ ledger'[Key(q)].op = op'[q]
                         /\ ledger'[Key(q)].status = "prepared")
    <3>1. op'[q] = op[q] /\ pc'[q] = pc[q] /\ Key(q) \in Keys
      BY <1>d, <2>1
    <3> QED BY <2>0, <2>1, <3>1 DEF WorksUnder
  <2>2. abort[r] = "none"
    BY <1>b DEF NoTraceYet
  <2>3. /\ pc'[r] \in Reserved \/ abort[r] # "none" => op'[r] \in Requests
        /\ op'[r] # None /\ op'[r] # r =>
             /\ Key(r) \in Recoverable /\ Key(op'[r]) = Key(r)
             /\ ~(/\ ledger'[Key(r)] # None /\ ledger'[Key(r)].op = op'[r]
                  /\ ledger'[Key(r)].status = "prepared")
    BY <1>p, <1>e, <2>2
  <2>4. asked' = asked /\ abort' = abort
    BY <1>a
  <2> QED BY <2>1, <2>3, <2>4 DEF WorksUnder, PreparedUnder
<1>5. OwnReceiptStays'
  <2>1. ASSUME NEW q \in Requests, Own(q)', InFlight(q)'
        PROVE  Own(q) /\ InFlight(q)
    BY <1>a, <1>p, <1>d, <1>e, <2>1 DEF NoTraceYet
  <2> QED BY <1>a, <2>1 DEF Normalizes, OwnReceiptStays, Expired
<1>6. OwnReceiptPrepared'
  <2>1. ASSUME NEW q \in Requests, Own(q)', pc'[q] \in Reserved \ {"lamenting"}, abort[q] \in {"none", "marking"}
        PROVE  q # r /\ Own(q) /\ InFlight(q) /\ pc[q] \in Reserved \ {"lamenting"}
    BY <1>p, <1>d, <1>e, <2>1
  <2>2. ASSUME NEW q \in Requests, Own(q)', pc'[q] \in Reserved \ {"lamenting"}, abort[q] \in {"none", "marking"}
        PROVE  q \in active' /\ ledger'[Key(q)].status = "prepared"
    BY <1>a, <2>1, <2>2 DEF Normalizes, OwnReceiptPrepared
  <2>3. asked' = asked /\ abort' = abort
    BY <1>a
  <2> QED BY <2>2, <2>3 DEF OwnReceiptPrepared
<1>7. OneEnd'
  BY <1>a, <1>b, <1>d, <1>e DEF OneEnd, NoTraceYet
<1>8. HandlerRan'
  BY <1>a, <1>b, <1>d, <1>e DEF HandlerRan, NoTraceYet
<1>9. AuditLeads'
  BY <1>a, <1>aud, <1>d, <1>e DEF AuditLeads, Outcome, WorksUnder
<1>10. SpentUnderReceipt'
  BY <1>a, <1>own, <1>d DEF SpentUnderReceipt, Normalizes, TypeOK
<1>11. PreparedHasRequest'
  <2>1. ASSUME NEW k \in Keys, ledger'[k] # None, ledger'[k].status = "prepared", ledger'[k].op \in active'
        PROVE  (InFlight(ledger[k].op) \/ ledger[k].op \in unsettled)'
    <3>1. ledger'[k] = ledger[k] /\ ledger[k].op \in Requests /\ ledger[k].op \in active /\ ledger[k].op # r
      BY <1>own, <1>a, <1>b, <1>d, <2>1 DEF NoTraceYet, Normalizes
    <3> QED BY <1>a, <1>d, <2>1, <3>1 DEF PreparedHasRequest
  <2> QED BY <1>d, <2>1 DEF PreparedHasRequest
<1>12. MarkedIsMarked'
  <2>1. \A q \in Requests, k \in Keys : PreparedUnder(k, q)' => PreparedUnder(k, q)
    BY <1>d DEF PreparedUnder
  <2>2. active' \subseteq active
    BY <1>a DEF Normalizes
  <2> QED BY <1>a, <1>b, <1>p, <1>d, <1>e, <2>1, <2>2 DEF MarkedIsMarked, NoTraceYet
<1>13. AnswerNames'
  BY <1>p, <1>d, <1>e DEF AnswerNames
<1>14. AnsweredIsOver'
  BY <1>d, <1>e DEF AnsweredIsOver
<1>15. AnswerIsOfTheSameRequest'
  BY <1>a, <1>aud, <1>p, <1>d, <1>e DEF AnswerIsOfTheSameRequest, AnswerNames
<1>16. AnsweredIsRecorded'
  BY <1>a, <1>d, <1>e DEF AnsweredIsRecorded, Normalizes
<1>17. SettledIsAudited'
  BY <1>a, <1>aud, <1>own, <1>d DEF SettledIsAudited, Normalizes
<1> QED BY <1>1, <1>2, <1>3, <1>4, <1>5, <1>6, <1>7, <1>8, <1>9, <1>10, <1>11, <1>12, <1>13, <1>14,
           <1>15, <1>16, <1>17 DEF IInv

\* A reservation takes a key that has no receipt.
LEMMA ReserveNewStep ==
  ASSUME IInv, NEW r \in Requests, ReserveNew(r)
  PROVE  IInv'
<1> USE LedgerAssumption DEF LedgerAssumption, IInv, Key, Own, Holds, Reserved, InFlight
<1>own. \A k \in Keys : ledger[k] # None =>
         /\ ledger[k].op \in Requests /\ Own(ledger[k].op) /\ Key(ledger[k].op) = k
         /\ ledger[k] \in Receipts
  BY ReceiptOwner
<1>a. /\ pc[r] = "idle" /\ Normalized[Key(r)] = None /\ Key(r) \in Keys
      /\ pc' = [pc EXCEPT ![r] = "accepting"] /\ op' = [op EXCEPT ![r] = r]
      /\ UNCHANGED <<asked, abort, finalizing, gone, ran, reply, answer, audit, clock, fails, crashes, unsettled>>
  BY DEF ReserveNew, Goes, handling, TypeOK
<1>b. /\ op[r] = None /\ abort[r] = "none" /\ answer[r].kind = "none"
      /\ r \notin ran /\ r \notin finalizing /\ r \notin active
      /\ \A k \in Keys : ~Holds(k, r)
      /\ \A q \in Requests : op[q] # r
  BY <1>a DEF NoTraceYet
<1>c. /\ ledger' = [Normalized EXCEPT ![Key(r)] = Prepared(r)] /\ active' = NormalizedActive \cup {r}
      /\ spent' = [k \in Keys |-> IF Expired(k) THEN {} ELSE spent[k]]
  BY DEF ReserveNew, Write
<1>d. /\ ledger' \in [Keys -> Receipts \cup {None}]
      /\ \A k \in Keys : k # Key(r) => ledger'[k] = Normalized[k]
      /\ ledger'[Key(r)] # None /\ ledger'[Key(r)].op = r /\ ledger'[Key(r)].body = asked[r].body
      /\ ledger'[Key(r)].status = "prepared" /\ ~ledger'[Key(r)].response
      /\ ~(ledger'[Key(r)].expires <= clock)
  BY <1>a, <1>c, NormalizedReceipt, PreparedReceipt
<1>e. \A k \in Keys : k # Key(r) /\ ledger'[k] # None =>
        /\ ledger[k] # None /\ ledger'[k].op = ledger[k].op /\ ledger'[k].body = ledger[k].body
        /\ ledger[k].op \in Requests /\ Own(ledger[k].op) /\ Key(ledger[k].op) = k /\ ledger[k].op # r
        /\ \/ ledger'[k] = ledger[k]
           \/ /\ ledger[k].status = "prepared" /\ ledger[k].op \notin active
              /\ ledger'[k].status = "outcome_unknown" /\ ~ledger'[k].response
  BY <1>own, <1>b, <1>d, NormalizedReceipt
<1>f. \A q \in Requests : Own(q) /\ InFlight(q) =>
        /\ Key(q) # Key(r) /\ Key(q) \in Keys
        /\ ledger'[Key(q)] # None /\ ledger'[Key(q)].op = q /\ ~(ledger'[Key(q)].expires <= clock)
        /\ q \in active => q \in active' /\ ledger'[Key(q)] = ledger[Key(q)]
  <2>1. \A q \in Requests : Key(q) \in Keys
    BY DEF TypeOK
  <2> QED BY <1>a, <1>c, <1>d, <2>1, NormalizedKeeps, NormalizedReceipt
<1>g. \A k \in Keys \ Recoverable :
        \/ spent'[k] = {}
        \/ k # Key(r) /\ spent'[k] = spent[k] /\ (ledger[k] # None => ledger'[k] # None)
  <2>1. Expired(Key(r)) \/ ledger[Key(r)] = None
    BY <1>a, NormalizedReceipt
  <2> QED BY <1>a, <1>c, <1>d, <2>1, NormalizedReceipt DEF SpentUnderReceipt, TypeOK
<1>h. /\ pc'[r] = "accepting" /\ op'[r] = r
      /\ \A q \in Requests : q # r => op'[q] = op[q] /\ pc'[q] = pc[q]
      /\ active' \subseteq active \cup {r} /\ r \in active'
  BY <1>a, <1>c, NormalizedKeeps DEF TypeOK
<1>1. TypeOK'
  <2>1. op' \in [Requests -> Requests \cup {None}] /\ pc' \in [Requests -> Phases]
    BY <1>a DEF TypeOK, Phases
  <2>2. spent' \in [Keys -> SUBSET Requests]
    BY <1>c DEF TypeOK
  <2> QED BY <1>a, <1>d, <1>h, <2>1, <2>2 DEF TypeOK
<1>2. NoTraceYet'
  BY <1>a, <1>b, <1>d, <1>e, <1>h DEF NoTraceYet, TypeOK
<1>3. ReceiptOfItsRequest'
  <2>1. ASSUME NEW k \in Keys, ledger'[k] # None
        PROVE  /\ op'[ledger'[k].op] = ledger'[k].op
               /\ asked[ledger'[k].op] = [key |-> k, body |-> ledger'[k].body]
               /\ ledger'[k].response => ledger'[k].status = "completed"
               /\ ledger'[k].status = "completed" => ledger'[k].op \in ran
    <3>1. CASE k = Key(r)
      <4>1. asked[r] = [key |-> asked[r].key, body |-> asked[r].body]
        BY DEF TypeOK
      <4> QED BY <1>d, <1>h, <3>1, <4>1
    <3>2. CASE k # Key(r)
      BY <1>e, <1>h, <2>1, <3>2 DEF ReceiptOfItsRequest
    <3> QED BY <3>1, <3>2
  <2> QED BY <1>a, <2>1 DEF ReceiptOfItsRequest
<1>4. WorksUnder'
  <2>0. \A k \in Keys : \A x : x # r /\ ledger'[k] # None /\ ledger'[k].op = x /\ ledger'[k].status = "prepared"
                           => PreparedUnder(k, x)
    BY <1>d, <1>e DEF PreparedUnder
  <2>1. ASSUME NEW q \in Requests, q # r
        PROVE  /\ pc'[q] \in Reserved \/ abort[q] # "none" => op'[q] \in Requests
               /\ op'[q] # None /\ op'[q] # q =>
                    /\ Key(q) \in Recoverable /\ Key(op'[q]) = Key(q)
                    /\ ~(/\ ledger'[Key(q)] # None /\ ledger'[Key(q)].op = op'[q]
                         /\ ledger'[Key(q)].status = "prepared")
    <3>1. op'[q] = op[q] /\ pc'[q] = pc[q] /\ Key(q) \in Keys /\ op[q] # r
      BY <1>b, <1>h, <2>1 DEF TypeOK
    <3> QED BY <2>0, <2>1, <3>1 DEF WorksUnder
  <2>2. asked' = asked /\ abort' = abort /\ op'[r] = r
    BY <1>a, <1>h
  <2> QED BY <2>1, <2>2 DEF WorksUnder, PreparedUnder
<1>5. OwnReceiptStays'
  <2>1. ASSUME NEW q \in Requests, q # r, Own(q)', InFlight(q)'
        PROVE  Own(q) /\ InFlight(q)
    BY <1>a, <1>h, <2>1
  <2> QED BY <1>a, <1>d, <1>f, <2>1 DEF OwnReceiptStays, Expired
<1>6. OwnReceiptPrepared'
  <2>1. ASSUME NEW q \in Requests, q # r, Own(q)', pc'[q] \in Reserved \ {"lamenting"}, abort[q] \in {"none", "marking"}
        PROVE  q \in active' /\ ledger'[Key(q)].status = "prepared"
    <3>1. Own(q) /\ InFlight(q) /\ pc[q] \in Reserved \ {"lamenting"}
      BY <1>h, <2>1
    <3> QED BY <1>f, <2>1, <3>1 DEF OwnReceiptPrepared
  <2>2. asked' = asked /\ abort' = abort
    BY <1>a
  <2> QED BY <1>d, <1>h, <2>1, <2>2 DEF OwnReceiptPrepared
<1>7. OneEnd'
  BY <1>a, <1>b, <1>h DEF OneEnd
<1>8. HandlerRan'
  BY <1>a, <1>b, <1>h DEF HandlerRan
<1>9. AuditLeads'
  BY <1>a, <1>h DEF AuditLeads, Outcome
<1>10. SpentUnderReceipt'
  <2>1. ASSUME NEW k \in Keys \ Recoverable, NEW q \in spent'[k]
        PROVE  Holds(k, q)'
    BY <1>e, <1>g, <2>1 DEF SpentUnderReceipt
  <2>2. ASSUME NEW k \in Keys \ Recoverable, NEW q \in Requests, Holds(k, q)', q \notin ran
        PROVE  spent'[k] = {}
    BY <1>e, <1>g, <2>2 DEF SpentUnderReceipt
  <2> QED BY <1>a, <2>1, <2>2 DEF SpentUnderReceipt
<1>11. PreparedHasRequest'
  <2>1. ASSUME NEW k \in Keys, k # Key(r), ledger'[k] # None, ledger'[k].status = "prepared", ledger'[k].op \in active'
        PROVE  (InFlight(ledger[k].op) \/ ledger[k].op \in unsettled)'
    BY <1>a, <1>e, <1>h, <2>1 DEF PreparedHasRequest
  <2> QED BY <1>d, <1>e, <1>h, <2>1 DEF PreparedHasRequest
<1>12. MarkedIsMarked'
  <2>1. \A q \in Requests, k \in Keys : q # r /\ PreparedUnder(k, q)' => PreparedUnder(k, q)
    BY <1>d, <1>e DEF PreparedUnder
  <2>2. \A q \in Requests : Key(q) \in Keys
    BY DEF TypeOK
  <2> QED BY <1>a, <1>b, <1>h, <2>1, <2>2 DEF MarkedIsMarked
<1>13. AnswerNames'
  BY <1>a DEF AnswerNames
<1>14. AnsweredIsOver'
  BY <1>a, <1>b, <1>h DEF AnsweredIsOver
<1>15. AnswerIsOfTheSameRequest'
  BY <1>a DEF AnswerIsOfTheSameRequest
<1>16. AnsweredIsRecorded'
  <2>1. \A q \in Requests : Key(q) \in Keys
    BY DEF TypeOK
  <2> QED BY <1>a, <1>b, <1>d, <1>e, <1>h, <2>1 DEF AnsweredIsRecorded
<1>17. SettledIsAudited'
  BY <1>a, <1>d, <1>e DEF SettledIsAudited
<1> QED BY <1>1, <1>2, <1>3, <1>4, <1>5, <1>6, <1>7, <1>8, <1>9, <1>10, <1>11, <1>12, <1>13, <1>14,
           <1>15, <1>16, <1>17 DEF IInv

\* Nothing is reserved at the start.
LEMMA InitInv ==
  ASSUME Init
  PROVE  IInv
<1> USE LedgerAssumption DEF LedgerAssumption, Init
<1>1. TypeOK
  BY DEF TypeOK, Phases, Answers, Outcomes
<1>2. NoTraceYet /\ ReceiptOfItsRequest /\ WorksUnder /\ OwnReceiptStays
  BY DEF NoTraceYet, ReceiptOfItsRequest, WorksUnder, OwnReceiptStays, Own, Holds, InFlight,
     Reserved, TypeOK, Key
<1>3. OwnReceiptPrepared /\ OneEnd /\ HandlerRan /\ AuditLeads /\ SpentUnderReceipt
  BY DEF OwnReceiptPrepared, OneEnd, HandlerRan, AuditLeads, SpentUnderReceipt, Own, Holds, Reserved
<1>4. PreparedHasRequest /\ MarkedIsMarked /\ AnswerNames /\ AnsweredIsOver
  BY DEF PreparedHasRequest, MarkedIsMarked, AnswerNames, AnsweredIsOver, Own
<1>5. AnswerIsOfTheSameRequest /\ AnsweredIsRecorded /\ SettledIsAudited
  BY DEF AnswerIsOfTheSameRequest, AnsweredIsRecorded, SettledIsAudited
<1> QED BY <1>1, <1>2, <1>3, <1>4, <1>5 DEF IInv

\* A step that changes nothing keeps it.
LEMMA StutterStep ==
  ASSUME IInv, UNCHANGED vars
  PROVE  IInv'
<1> USE DEF vars, IInv, Own, Holds, Key, InFlight, Reserved, PreparedUnder, Outcome, Expired
<1>1. TypeOK' /\ NoTraceYet' /\ ReceiptOfItsRequest' /\ WorksUnder' /\ OwnReceiptStays'
  BY DEF TypeOK, NoTraceYet, ReceiptOfItsRequest, WorksUnder, OwnReceiptStays
<1>2. OwnReceiptPrepared' /\ OneEnd' /\ HandlerRan' /\ AuditLeads' /\ SpentUnderReceipt'
  BY DEF OwnReceiptPrepared, OneEnd, HandlerRan, AuditLeads, SpentUnderReceipt
<1>3. PreparedHasRequest' /\ MarkedIsMarked' /\ AnswerNames' /\ AnsweredIsOver'
  BY DEF PreparedHasRequest, MarkedIsMarked, AnswerNames, AnsweredIsOver
<1>4. AnswerIsOfTheSameRequest' /\ AnsweredIsRecorded' /\ SettledIsAudited'
  BY DEF AnswerIsOfTheSameRequest, AnsweredIsRecorded, SettledIsAudited
<1> QED BY <1>1, <1>2, <1>3, <1>4

\* The invariant holds in every state.
LEMMA Invariance == Spec => []IInv
<1>1. Init => IInv
  BY InitInv
<1>2. IInv /\ [Next]_vars => IInv'
  <2> SUFFICES ASSUME IInv, [Next]_vars
               PROVE  IInv'
    OBVIOUS
  <2>1. ASSUME NEW r \in Requests, Request(r)
        PROVE  IInv'
    BY <2>1, ReserveExistingStep, ReserveNewStep, ReserveRefusedStep, AcceptStep, AcceptFailsStep,
       AbandonStep, HandleStep, SendAbortedStep, SendStep, CompleteStep, CompleteFailsStep,
       DoubtStep, LamentStep, AbortStep, AbortMarksStep, AbortAuditsStep DEF Request
  <2> QED BY <2>1, LookStep, CrashStep, TickStep, StutterStep DEF Next
<1> QED BY <1>1, <1>2, PTL DEF Spec

-----------------------------------------------------------------------------
(* What the invariant gives *)

\* Every variable keeps its type: a retained receipt is a whole receipt
\* whatever write failed.
THEOREM TypeCorrect == Spec => []TypeOK
<1>1. IInv => TypeOK
  BY DEF IInv
<1> QED BY <1>1, Invariance, PTL

\* A request that is sent again under the same key is not handled again while
\* the receipt is retained, and the answer it gets is the one of a request
\* like its own, over any crashes, failed writes and clients that leave.
THEOREM ResentIsSafe == Spec => []ResentIsTheSame
<1>1. ASSUME IInv
      PROVE  ResentIsTheSame
  <2>1. ASSUME NEW k \in Keys \ Recoverable
        PROVE  Cardinality(spent[k]) <= 1
    <3>1. spent[k] = {} \/ spent[k] = {ledger[k].op}
      BY <1>1 DEF IInv, SpentUnderReceipt, Holds
    <3>2. CASE spent[k] = {}
      <4>1. Cardinality(spent[k]) = 0
        BY <3>2, FS_EmptySet
      <4> QED BY <4>1
    <3>3. CASE spent[k] = {ledger[k].op}
      <4>1. Cardinality(spent[k]) = 1
        BY <3>3, FS_Singleton
      <4> QED BY <4>1
    <3> QED BY <3>1, <3>2, <3>3
  <2> QED BY <1>1, <2>1 DEF IInv, ResentIsTheSame, OneEffectPerReceipt
<1> QED BY <1>1, Invariance, PTL

\* The ledger, the audit file and the answers, written apart, never contradict
\* each other, and a receipt shown as prepared has a request that will settle
\* it, or a write of its settlement that failed.
THEOREM RecordsNeverDisagree == Spec => []RecordsAgree
<1>1. ASSUME IInv
      PROVE  RecordsAgree
  <2>1. PreparedIsInFlight
    BY <1>1, NormalizedReceipt DEF IInv, PreparedIsInFlight, PreparedHasRequest
  <2> QED BY <1>1, <2>1 DEF IInv, RecordsAgree
<1> QED BY <1>1, Invariance, PTL

\* What one step does to a receipt that is settled, and which it removes.
LEMMA ReceiptStep ==
  ASSUME IInv, [Next]_vars, NEW k \in Keys, ledger[k] # None
  PROVE  /\ ledger[k].status # "prepared" /\ ~Expired(k) => ledger'[k] = ledger[k]
         /\ ledger'[k] = None => Expired(k) \/ ledger[k].op \notin ran
<1>1. CASE ledger' = ledger
  BY <1>1
<1>2. CASE ledger' = Normalized
  BY <1>2, NormalizedReceipt DEF IInv
<1>3. ASSUME NEW r \in Requests, ReserveNew(r)
      PROVE  /\ ledger[k].status # "prepared" /\ ~Expired(k) => ledger'[k] = ledger[k]
             /\ ledger'[k] = None => Expired(k) \/ ledger[k].op \notin ran
  BY <1>3, NormalizedReceipt DEF IInv, ReserveNew, Write
<1>4. ASSUME NEW r \in Requests, Abandon(r), ledger' # ledger
      PROVE  (ledger[k].status = "prepared" /\ ledger[k].op \notin ran) \/ ledger'[k] = ledger[k]
  <2>1. /\ ledger' = [ledger EXCEPT ![Key(r)] = None] /\ PreparedUnder(Key(r), op[r])
        /\ pc[r] = "abandoning"
    BY <1>4 DEF Abandon, MayAbandon, PreparedUnder
  <2>2. op[r] = r /\ r \notin ran /\ Key(r) \in Keys
    BY <2>1, LedgerAssumption DEF LedgerAssumption, IInv, WorksUnder, HandlerRan, Own, Reserved,
       TypeOK, Key
  <2> QED BY <2>1, <2>2 DEF IInv, TypeOK, PreparedUnder, Holds
<1>5. ASSUME NEW r \in Requests, Complete(r), ledger' # ledger
      PROVE  (ledger[k].status = "prepared" /\ ledger'[k] # None) \/ ledger'[k] = ledger[k]
  <2>1. PICK kept \in BOOLEAN : ledger' = [ledger EXCEPT ![Key(r)] = Settled(r, kept)]
    BY <1>5 DEF Complete
  <2>2. ledger[Key(r)] # None /\ ledger[Key(r)].status = "prepared" /\ Key(r) \in Keys
    BY <1>5 DEF Complete, Holds, IInv, TypeOK, Key
  <2>3. Settled(r, kept) \in Receipts /\ None \notin Receipts
    BY <2>2, SettledReceipt, LedgerAssumption DEF LedgerAssumption, IInv
  <2> QED BY <2>1, <2>2, <2>3 DEF IInv, TypeOK
<1>6. ASSUME NEW r \in Requests, MarkUnknown(r) \/ MarkFails(r), ledger' # ledger
      PROVE  (ledger[k].status = "prepared" /\ ledger'[k] # None) \/ ledger'[k] = ledger[k]
  <2>1. /\ Doubted(r) /\ ledger' = [ledger EXCEPT ![Key(r)] = Unknown(ledger[Key(r)])]
        /\ Key(r) \in Keys
    BY <1>6 DEF MarkUnknown, MarkFails, IInv, TypeOK, Key
  <2>2. ledger[Key(r)] # None /\ Unknown(ledger[Key(r)]) \in Receipts /\ None \notin Receipts
    BY <2>1, UnknownReceipt, LedgerAssumption DEF LedgerAssumption, IInv, Doubted, Holds
  <2> QED BY <2>1, <2>2 DEF IInv, TypeOK, Doubted
<1>7. CASE UNCHANGED vars
  BY <1>1, <1>7 DEF vars
<1>8. CASE Look
  BY <1>1, <1>2, <1>8 DEF Look, Write
<1>9. CASE Crash \/ Tick
  BY <1>1, <1>9 DEF Crash, Tick, disk
<1>10. ASSUME NEW r \in Requests, Request(r)
       PROVE  /\ ledger[k].status # "prepared" /\ ~Expired(k) => ledger'[k] = ledger[k]
              /\ ledger'[k] = None => Expired(k) \/ ledger[k].op \notin ran
  <2>1. CASE ReserveExisting(r)
    BY <1>2, <2>1 DEF ReserveExisting, Write
  <2>2. CASE ReserveNew(r)
    BY <1>3, <2>2
  <2>3. CASE Abandon(r)
    BY <1>1, <1>4, <2>3
  <2>4. CASE Complete(r)
    BY <1>1, <1>5, <2>4
  <2>5. CASE Doubt(r) \/ AbortMarks(r)
    BY <1>1, <1>6, <2>5 DEF Doubt, AbortMarks
  <2>6. CASE \/ ReserveRefused(r) \/ Accept(r) \/ AcceptFails(r) \/ Handle(r) \/ SendAborted(r)
             \/ Send(r) \/ CompleteFails(r) \/ Lament(r) \/ Abort(r) \/ AbortAudits(r)
    BY <1>1, <2>6 DEF ReserveRefused, Accept, AcceptFails, Handle, SendAborted, Send, CompleteFails,
                      Lament, Abort, AbortAudits, disk
  <2> QED BY <1>10, <2>1, <2>2, <2>3, <2>4, <2>5, <2>6 DEF Request
<1> QED BY <1>7, <1>8, <1>9, <1>10 DEF Next

\* A settled receipt is not rewritten before it expires, and a receipt whose
\* handler has run is forgotten for no reason but its age: not for room, not
\* by a late abort, a recovery or a failed write.
THEOREM ReceiptsStay == Spec => ReceiptsAreKept
<1>1. ASSUME IInv, [Next]_vars
      PROVE  /\ [\A k \in Keys : ledger[k] # None /\ ledger[k].status # "prepared" /\ ~Expired(k)
                                   => ledger'[k] = ledger[k]]_vars
             /\ [\A k \in Keys : ledger[k] # None /\ ledger'[k] = None
                                   => Expired(k) \/ ledger[k].op \notin ran]_vars
  BY <1>1, ReceiptStep
<1> QED BY <1>1, Invariance, PTL DEF Spec, ReceiptsAreKept, SettledStaysSettled,
           OnlyExpiredIsForgotten
=============================================================================
