------------------------------ MODULE WipcStream ------------------------------
(***************************************************************************)
(* One HTTP exchange over the connection between this program and its      *)
(* native helper (src/src/remote/helperClient.ts): the life of one stream, *)
(* which either end may open.                                              *)
(*                                                                         *)
(*   - opened by the node (kind "remote"): a browser's request goes out    *)
(*     through request(); the response comes back as a body its consumer   *)
(*     reads;                                                              *)
(*   - opened by the helper (kind "host"): a remote device's request is    *)
(*     dispatched to the app, whose response goes back.                    *)
(*                                                                         *)
(* In both the node pumps one body out, a chunk at a time against the      *)
(* peer's credit (pump), and writes the body that comes in to a bounded    *)
(* buffer, one link of a promise chain per frame (tail), granting credit   *)
(* when the buffer drains. The two directions run at once, a cancellation  *)
(* or an early response may cross anything, and each end follows the       *)
(* stream in a copy of its own (WipcState).                                *)
(*                                                                         *)
(* The helper is not in this repository: it sends any frame its own copy   *)
(* of the stream allows. Chunks are alike and of size 1.                   *)
(***************************************************************************)
EXTENDS WipcState, Sequences, FiniteSets

CONSTANTS HighWater,   \* chunks the incoming body buffers
          MaxChunks    \* bound: chunks of each body

ASSUME StreamAssumption == HighWater \in Nat \ {0} /\ MaxChunks \in Nat

VARIABLES
  node,     \* this program's end: its ActiveStream, its copy of the stream
            \* and the frames it wrote that the helper has not read
  helper,   \* the helper's end
  up,       \* the connection, until #failConnection
  past      \* what happened: the consumer left; a cancel reached a finished
            \* response, or came before an answer that was then dropped; an end
            \* refused a frame; chunks sent to, and read from, the node's
            \* incoming body

streamVars == <<node, helper, up, past>>

Pumps == {"idle", "starting", "dispatching", "reading", "credit", "waiting",
          "writing", "ending", "off"}
Bodies == {"open", "ended", "read", "destroyed"}
Links == {"chunk", "written", "end", "remove"}

StreamTypeOK ==
  /\ node \in [stream : Streams, wire : Seq(Frames), closed : BOOLEAN,
               aborted : BOOLEAN, pump : Pumps, left : 0 .. MaxChunks,
               source : BOOLEAN, body : Bodies, held : Nat, tail : Seq(Links),
               caller : {"none", "waiting", "answered", "rejected"}]
  /\ helper \in [stream : Streams, wire : Seq(Frames), left : 0 .. MaxChunks,
                 owed : Nat]
  /\ up \in BOOLEAN
  /\ past \in [quit : BOOLEAN, crossed : BOOLEAN, dropped : BOOLEAN,
               refused : BOOLEAN, sent : 0 .. MaxChunks, got : 0 .. MaxChunks]

Frame(type, sender) ==
  [type |-> type, sender |-> sender, size |-> 1, window |-> "request"]
Grant(window, sender) ==
  [type |-> "window_update", sender |-> sender, size |-> 1, window |-> window]

IsRemote(n) == n.stream.initiator = "node"
Outgoing(n) == IF IsRemote(n) THEN "request" ELSE "response"
Incoming(n) == IF IsRemote(n) THEN "response" ELSE "request"
CreditOf(s, window) ==
  IF window = "request" THEN s.requestCredit ELSE s.responseCredit
ChunkOf(window) ==
  IF window = "request" THEN "request_chunk" ELSE "response_chunk"

StreamInit ==
  \E initiator \in Sides, chunks \in 0 .. MaxChunks :
    /\ node = [stream |-> Unstarted(initiator), wire |-> <<>>, closed |-> FALSE,
               aborted |-> FALSE, pump |-> "idle", left |-> 0, source |-> TRUE,
               body |-> "open", held |-> 0, tail |-> <<>>, caller |-> "none"]
    /\ helper = [stream |-> Unstarted(initiator), wire |-> <<>>,
                 left |-> chunks, owed |-> 0]
    /\ up = TRUE
    /\ past = [quit |-> FALSE, crossed |-> FALSE, dropped |-> FALSE,
               refused |-> FALSE, sent |-> 0, got |-> 0]

-----------------------------------------------------------------------------
(* What the node does to its end, as functions of it.                      *)

\* Mutant: the frame is written and the copy not told.
SendUntold(n, f) == [n EXCEPT !.wire = Append(@, f)]

\* #sendStreamFrame: the frame and the copy's change go together; what the
\* copy ignores is not written.
Send(n, f) ==
  LET r == Receive(n.stream, f) IN
  [n EXCEPT !.stream = r.stream,
            !.wire = IF r.outcome \in Ignored \union Refused
                     THEN @ ELSE Append(@, f)]

SendRefused(n, f) == Receive(n.stream, f).outcome \in Refused

Woken(pump) == IF pump = "waiting" THEN "credit" ELSE pump
Destroyed(body) == IF body = "read" THEN body ELSE "destroyed"
Rejected(caller) == IF caller = "waiting" THEN "rejected" ELSE caller

\* Mutant: whoever waits for credit is not woken.
RemoveSilently(n, preserve) ==
  [n EXCEPT !.closed = TRUE, !.stream = Removed(@),
            !.body = IF preserve THEN @ ELSE Destroyed(@)]

\* #removeStream: preserve keeps the response body for its consumer.
Remove(n, preserve) ==
  [n EXCEPT !.closed = TRUE, !.pump = Woken(@),
            !.body = IF preserve THEN @ ELSE Destroyed(@),
            !.stream = Removed(@)]

RemoveFor(n) ==
  [Remove(n, FALSE) EXCEPT !.aborted = TRUE, !.caller = Rejected(@),
                           !.source = FALSE]

\* #cancelRemoteStream
CancelRemote(n) ==
  IF n.closed \/ n.aborted THEN n
  ELSE Send([n EXCEPT !.aborted = TRUE, !.caller = Rejected(@),
                      !.source = FALSE, !.body = Destroyed(@),
                      !.pump = Woken(@)],
            Frame("request_cancel", "node"))

\* #cancelHostStream; response.cancel stops the app's response
CancelHost(n) ==
  IF n.closed THEN n
  ELSE [n EXCEPT !.aborted = TRUE, !.source = FALSE, !.body = Destroyed(@),
                 !.pump = Woken(@)]

\* #rejectHostStream up to its write; the bridge's abort destroys the upload
Reject(n) ==
  IF n.closed THEN [n EXCEPT !.pump = "off"]
  ELSE LET m == [n EXCEPT !.aborted = TRUE, !.source = FALSE,
                          !.body = Destroyed(@), !.pump = "ending"]
       IN IF m.stream.failed \/ IsResponseTerminal(m.stream) THEN m
          ELSE Send(m, Frame("response_error", "node"))

\* Mutant: the stream is removed with its request still open.
FinishHostAtOnce(n) == IF n.closed THEN n ELSE Remove(n, FALSE)

\* #finishHostResponse: a request still open is waited for.
FinishHost(n) ==
  IF n.closed THEN n
  ELSE IF n.stream.request = "response_closed"
       THEN [n EXCEPT !.body = Destroyed(@), !.source = FALSE]
       ELSE Remove(n, FALSE)

\* #finishRemoteRequestInput
FinishInput(n) ==
  IF n.stream.at = "active" /\ n.stream.request = "response_closed"
  THEN Send(n, Frame("request_end", "node")) ELSE n

\* What the pump does when something it awaited failed.
PumpThrows(n) ==
  IF IsRemote(n) THEN [CancelRemote(n) EXCEPT !.pump = "off"] ELSE Reject(n)

-----------------------------------------------------------------------------
(* The node's outgoing body.                                               *)

\* request(): REQUEST_START is written, and its flush awaited.
Request ==
  /\ up /\ IsRemote(node) /\ node.pump = "idle"
  /\ \E chunks \in 0 .. MaxChunks :
       node' = [Send(node, Frame("request_start", "node"))
                  EXCEPT !.pump = "starting", !.left = chunks,
                         !.caller = "waiting"]
  /\ UNCHANGED <<helper, up, past>>

\* The flush is over: the body is pumped, or there is none and the request
\* ends.
StartFlushed ==
  /\ node.pump = "starting"
  /\ node' = IF node.aborted \/ node.closed THEN [node EXCEPT !.pump = "off"]
             ELSE IF node.left > 0 THEN [node EXCEPT !.pump = "reading"]
             ELSE [Send(node, Frame("request_end", "node"))
                     EXCEPT !.pump = "off"]
  /\ UNCHANGED <<helper, up, past>>

\* #dispatchHostStream: the app fails, or answers; an answer that comes after a
\* cancellation is dropped without a word to the helper.
Dispatch ==
  /\ node.pump = "dispatching"
  /\ \/ node' = Reject(node) /\ past' = past
     \/ /\ node.aborted \/ node.closed
        /\ node' = [node EXCEPT !.pump = "off"]
        /\ past' = [past EXCEPT !.dropped = TRUE]
     \/ /\ ~node.aborted /\ ~node.closed
        /\ \E chunks \in 0 .. MaxChunks :
             node' = [Send(node, Frame("response_start", "node"))
                        EXCEPT !.pump = "writing", !.left = chunks]
        /\ past' = past
  /\ UNCHANGED <<helper, up>>

EndFrame(n) ==
  Frame(IF IsRemote(n) THEN "request_end" ELSE "response_end", "node")

\* Mutant: one chunk too many.
PumpReadsOnePast ==
  /\ node.pump = "reading" /\ node.source
  /\ node' = [node EXCEPT !.pump = "credit"]
  /\ UNCHANGED <<helper, up, past>>

\* The for-await over the source: a chunk, the end, or the source destroyed.
\* An app's response that is already whole ends although it was cancelled.
PumpReads ==
  /\ node.pump = "reading"
  /\ \/ /\ node.source /\ node.left > 0
        /\ node' = [node EXCEPT !.pump = "credit"]
        /\ UNCHANGED past
     \/ /\ node.left = 0 /\ (node.source \/ ~IsRemote(node))
        /\ LET over == node.closed \/ (IsRemote(node) /\ node.aborted)
           IN /\ node' = IF over THEN [node EXCEPT !.pump = "off"]
                         ELSE [Send(node, EndFrame(node)) EXCEPT
                                 !.pump = IF IsRemote(node) THEN "off" ELSE "ending"]
              /\ past' = [past EXCEPT !.refused =
                   @ \/ (~over /\ SendRefused(node, EndFrame(node)))]
     \/ /\ ~node.source \/ (~IsRemote(node) /\ ~node.aborted)
        /\ node' = PumpThrows(node)
        /\ UNCHANGED past
  /\ UNCHANGED <<helper, up>>

\* #waitForRequestCredit, #waitForResponseCredit and the chunk's write
PumpCredit ==
  /\ node.pump = "credit"
  /\ LET over == \/ node.closed \/ node.aborted \/ node.stream.at # "active"
                 \/ IsRemote(node) /\ node.stream.request # "open"
     IN node' = IF over THEN PumpThrows(node)
                ELSE IF CreditOf(node.stream, Outgoing(node)) = 0
                THEN [node EXCEPT !.pump = "waiting"]
                ELSE [Send(node, Frame(ChunkOf(Outgoing(node)), "node"))
                        EXCEPT !.pump = "writing", !.left = @ - 1]
  /\ UNCHANGED <<helper, up, past>>

PumpWritten ==
  /\ node.pump = "writing"
  /\ node' = [node EXCEPT !.pump = "reading"]
  /\ UNCHANGED <<helper, up, past>>

\* The last frame of a response is flushed.
HostFinishes ==
  /\ node.pump = "ending"
  /\ node' = [FinishHost(node) EXCEPT !.pump = "off"]
  /\ UNCHANGED <<helper, up, past>>

-----------------------------------------------------------------------------
(* The node's incoming body: requestWriteTail, responseWriteTail.          *)

Writable(n) == ~n.closed /\ n.body = "open"
Next1(n) == [n EXCEPT !.tail = Tail(@)]

\* #enqueueRequestChunk, #enqueueResponseChunk: the write
TailWrites ==
  /\ node.tail # <<>> /\ Head(node.tail) = "chunk"
  /\ node' = IF Writable(node)
             THEN [node EXCEPT !.held = @ + 1, !.tail[1] = "written"]
             ELSE Next1(node)
  /\ UNCHANGED <<helper, up, past>>

\* The buffer drained, or the body closed: the chunk's credit goes back.
TailGrants ==
  LET f == Grant(Incoming(node), "node")
      grants == ~node.closed /\ node.body # "destroyed"
  IN /\ node.tail # <<>> /\ Head(node.tail) = "written"
     /\ node.held < HighWater \/ node.body = "destroyed"
     /\ node' = Next1(IF grants THEN Send(node, f) ELSE node)
     /\ past' = [past EXCEPT !.refused = @ \/ (grants /\ SendRefused(node, f))]
     /\ UNCHANGED <<helper, up>>

Ended(n) == [n EXCEPT !.body = IF @ = "open" THEN "ended" ELSE @]

\* Mutant: the body is never ended.
TailEndsOpen ==
  /\ node.tail # <<>> /\ Head(node.tail) = "end"
  /\ node' = IF IsRemote(node)
             THEN [FinishInput(node) EXCEPT !.tail[1] = "remove"]
             ELSE Next1(node)
  /\ UNCHANGED <<helper, up, past>>

\* Mutant: a finished stream is left in the map.
TailEndsOnly ==
  /\ node.tail # <<>> /\ Head(node.tail) = "end"
  /\ node' = IF IsRemote(node)
             THEN [FinishInput(Ended(node)) EXCEPT !.tail[1] = "remove"]
             ELSE Next1(Ended(node))
  /\ UNCHANGED <<helper, up, past>>

\* The peer's end of the body, behind its chunks. The request of a response
\* that is over is the last thing a host stream waits for; a remote stream
\* first ends its own request.
TailEnds ==
  /\ node.tail # <<>> /\ Head(node.tail) = "end"
  /\ node' = IF IsRemote(node)
             THEN [FinishInput(Ended(node)) EXCEPT !.tail[1] = "remove"]
             ELSE Next1(IF ~node.closed /\ IsResponseTerminal(node.stream)
                        THEN Remove(Ended(node), FALSE) ELSE Ended(node))
  /\ UNCHANGED <<helper, up, past>>

TailRemoves ==
  /\ node.tail # <<>> /\ Head(node.tail) = "remove"
  /\ node' = Next1(IF node.closed THEN node
                   ELSE IF node.stream.response = "failed" THEN RemoveFor(node)
                   ELSE Remove(node, TRUE))
  /\ UNCHANGED <<helper, up, past>>

\* Who reads the body: the browser's response, or the app's handler.
BodyRead ==
  /\ \/ /\ node.body \in {"open", "ended"} /\ node.held > 0
        /\ node' = [node EXCEPT !.held = @ - 1]
        /\ past' = [past EXCEPT !.got = @ + 1]
     \/ /\ node.body = "ended" /\ node.held = 0
        /\ node' = [node EXCEPT !.body = "read"]
        /\ UNCHANGED past
  /\ UNCHANGED <<helper, up>>

\* The caller's signal, response.cancel, or the body closed before its end.
CallerQuits ==
  /\ IsRemote(node) /\ node.caller \in {"waiting", "answered"}
  /\ node.body \in {"open", "ended"} /\ ~past.quit
  /\ node' = IF node.caller = "answered"
             THEN [CancelRemote(node) EXCEPT !.body = "destroyed"]
             ELSE CancelRemote(node)
  /\ past' = [past EXCEPT !.quit = TRUE]
  /\ UNCHANGED <<helper, up>>

-----------------------------------------------------------------------------
(* #readLoop                                                               *)

\* Mutant: the response ends when its frame is read, not behind its chunks.
ReadRemoteEndsNow(n, outcome) ==
  CASE outcome = "response_started" ->
         [n EXCEPT !.caller = IF @ = "waiting" THEN "answered" ELSE @]
    [] outcome = "response_chunk_delivered" ->
         [n EXCEPT !.tail = Append(@, "chunk")]
    [] outcome = "response_ended" -> [Ended(n) EXCEPT !.tail = Append(@, "end")]
    [] outcome = "response_failed" ->
         FinishInput([n EXCEPT !.caller = Rejected(@), !.body = Destroyed(@),
                               !.tail = <<"remove">>])
    [] OTHER -> [n EXCEPT !.pump = Woken(@)]

\* #handleRemoteStreamFrame
ReadRemote(n, outcome) ==
  CASE outcome = "response_started" ->
         [n EXCEPT !.caller = IF @ = "waiting" THEN "answered" ELSE @]
    [] outcome = "response_chunk_delivered" ->
         [n EXCEPT !.tail = Append(@, "chunk")]
    [] outcome = "response_ended" -> [n EXCEPT !.tail = Append(@, "end")]
    [] outcome = "response_failed" ->
         FinishInput([n EXCEPT !.caller = Rejected(@), !.body = Destroyed(@),
                               !.tail = <<"remove">>])
    [] OTHER -> [n EXCEPT !.pump = Woken(@)]

\* #handleStreamFrame for a stream the helper opened
ReadHost(n, outcome) ==
  CASE outcome = "request_started" -> [n EXCEPT !.pump = "dispatching"]
    [] outcome = "request_chunk_delivered" ->
         [n EXCEPT !.tail = Append(@, "chunk")]
    [] outcome = "request_ended" -> [n EXCEPT !.tail = Append(@, "end")]
    [] outcome = "request_cancelled" -> CancelHost(n)
    [] OTHER -> [n EXCEPT !.pump = Woken(@)]

\* A terminal response of the peer closes an upload that is not over.
ClosesInput(before, after) ==
  before.request = "open" /\ after.request = "response_closed"

\* Mutant: frames are read only while the pump does not wait.
NodeReadsInTurn ==
  /\ up /\ helper.wire # <<>> /\ node.pump \notin {"starting", "waiting"}
  /\ helper' = [helper EXCEPT !.wire = Tail(@)]
  /\ LET r == Receive(node.stream, Head(helper.wire))
         n == [node EXCEPT !.stream = r.stream]
     IN node' = IF r.outcome \in Ignored THEN n
                ELSE IF IsRemote(n) THEN ReadRemote(n, r.outcome)
                ELSE ReadHost(n, r.outcome)
  /\ UNCHANGED <<up, past>>

\* No frame answers a request before its start is flushed and the request
\* resumed.
NodeReads ==
  /\ up /\ helper.wire # <<>> /\ node.pump # "starting"
  /\ helper' = [helper EXCEPT !.wire = Tail(@)]
  /\ LET f == Head(helper.wire)
         r == Receive(node.stream, f)
         n == [node EXCEPT !.stream = r.stream,
                 !.source = @ /\ ~(IsRemote(node) /\
                                   ClosesInput(node.stream, r.stream))]
     IN /\ node' = CASE r.outcome \in Ignored -> n
                     [] r.outcome \in Refused -> RemoveFor(n)
                     [] OTHER -> IF IsRemote(n) THEN ReadRemote(n, r.outcome)
                                 ELSE ReadHost(n, r.outcome)
        /\ up' = (r.outcome # "connection_error")
        /\ past' = [past EXCEPT
             !.refused = @ \/ r.outcome \in Refused,
             !.crossed = @ \/ ( /\ r.outcome = "cancel_ignored"
                                /\ node.stream.request = "response_closed" )]

\* The socket closes: #failConnection
Disconnect ==
  /\ up
  /\ up' = FALSE
  /\ node' = IF node.stream.at = "unknown" \/ node.closed THEN node
             ELSE RemoveFor(node)
  /\ UNCHANGED <<helper, past>>

-----------------------------------------------------------------------------
(* The helper, whose code is elsewhere: what its copy of the stream allows. *)

HelperSends(types) ==
  /\ up
  /\ \E type \in types :
       LET f == Frame(type, "helper")
           r == Receive(helper.stream, f)
           chunk == type \in {"request_chunk", "response_chunk"}
       IN /\ type = "request_start" \/ helper.stream.at = "active"
          /\ r.outcome \notin Ignored \union Refused
          /\ chunk => helper.left > 0
          /\ helper' = [helper EXCEPT !.stream = r.stream,
                          !.wire = Append(@, f),
                          !.left = IF chunk THEN @ - 1 ELSE @]
          /\ past' = [past EXCEPT !.sent = IF chunk THEN @ + 1 ELSE @]
  /\ UNCHANGED <<node, up>>

\* It opens a stream, sends its request and may cancel it.
HelperStarts == HelperSends({"request_start"})
HelperRequests == HelperSends({"request_chunk", "request_end"})
HelperCancels == HelperSends({"request_cancel"})
\* It answers a stream of the node.
HelperAnswers ==
  HelperSends({"response_start", "response_chunk", "response_end",
               "response_error"})

\* It gives credit back for what it delivered.
HelperGrants ==
  /\ up /\ helper.owed > 0
  /\ LET f == Grant(Outgoing(node), "helper")
         r == Receive(helper.stream, f)
     IN helper' = [helper EXCEPT !.stream = r.stream, !.owed = @ - 1,
                     !.wire = IF r.outcome \in Ignored \union Refused
                              THEN @ ELSE Append(@, f)]
  /\ UNCHANGED <<node, up, past>>

HelperReads ==
  /\ up /\ node.wire # <<>>
  /\ node' = [node EXCEPT !.wire = Tail(@)]
  /\ LET f == Head(node.wire)
         r == Receive(helper.stream, f)
     IN /\ helper' = [helper EXCEPT !.stream = r.stream,
             !.owed = IF r.outcome \in {"request_chunk_delivered",
                                        "response_chunk_delivered"}
                      THEN @ + 1 ELSE @]
        /\ past' = [past EXCEPT !.refused = @ \/ r.outcome \in Refused]
  /\ UNCHANGED up

\* Both directions are over: it forgets the stream.
HelperRemoves ==
  /\ helper.stream.at = "active" /\ IsResponseTerminal(helper.stream)
  /\ helper.stream.request \notin {"open", "response_closed"}
  /\ helper' = [helper EXCEPT !.stream = Removed(@)]
  /\ UNCHANGED <<node, up, past>>

-----------------------------------------------------------------------------

Node == \/ Request \/ StartFlushed \/ Dispatch \/ PumpReads \/ PumpCredit
        \/ PumpWritten \/ HostFinishes \/ TailWrites \/ TailGrants \/ TailEnds
        \/ TailRemoves \/ NodeReads
Helper == \/ HelperStarts \/ HelperRequests \/ HelperCancels \/ HelperAnswers
          \/ HelperGrants \/ HelperReads \/ HelperRemoves

StreamNext == Node \/ Helper \/ BodyRead \/ CallerQuits \/ Disconnect

StreamSpec == StreamInit /\ [][StreamNext]_streamVars

\* The event loop runs what is ready; the app and the helper answer, read and
\* grant in the end, and a consumer that stays reads on.
StreamFairness ==
  /\ WF_streamVars(StartFlushed) /\ WF_streamVars(Dispatch)
  /\ WF_streamVars(PumpReads) /\ WF_streamVars(PumpCredit)
  /\ WF_streamVars(PumpWritten) /\ WF_streamVars(HostFinishes)
  /\ WF_streamVars(TailWrites) /\ WF_streamVars(TailGrants)
  /\ WF_streamVars(TailEnds) /\ WF_streamVars(TailRemoves)
  /\ WF_streamVars(NodeReads) /\ WF_streamVars(IsRemote(node) /\ BodyRead)
  /\ WF_streamVars(HelperRequests) /\ WF_streamVars(HelperAnswers)
  /\ WF_streamVars(HelperGrants) /\ WF_streamVars(HelperReads)
  /\ WF_streamVars(HelperRemoves)

FairStreamSpec == StreamSpec /\ StreamFairness

-----------------------------------------------------------------------------

\* Two ends that each follow the protocol never refuse one another a frame,
\* whatever crosses on the way: no stream fails, and with it no connection and
\* none of the other streams on it (helperClient.ts:911, wipcState.ts:493).
NothingRefused == ~past.refused

Count(seq, e) == Cardinality({k \in DOMAIN seq : seq[k] = e})

\* Credit is neither made nor lost: what an end may still send, what is on the
\* way or not yet drained, and the grants on the way add up to the window, as
\* long as the direction is open at both ends.
Conserved(window, sender, receiver, unread) ==
  CreditOf(sender.stream, window)
    + Count(sender.wire, Frame(ChunkOf(window), sender.side))
    + unread
    + Count(receiver.wire, Grant(window, receiver.side)) = Credit

End(side) == IF side = "node" THEN [stream |-> node.stream, wire |-> node.wire,
                                    side |-> side]
             ELSE [stream |-> helper.stream, wire |-> helper.wire,
                   side |-> side]
Flowing(window) ==
  \A s \in {node.stream, helper.stream} :
    /\ s.at = "active"
    /\ IF window = "request" THEN s.request = "open"
                             ELSE ~IsResponseTerminal(s)
Undrained == Count(node.tail, "chunk") + Count(node.tail, "written")

CreditConserved ==
  up => /\ Flowing(Outgoing(node)) =>
             Conserved(Outgoing(node), End("node"), End("helper"), helper.owed)
        /\ Flowing(Incoming(node)) /\ node.body = "open" =>
             Conserved(Incoming(node), End("helper"), End("node"), Undrained)

\* A body that ends for its reader is the whole body: its end never overtakes
\* its chunks, and no chunk is dropped from a body that is read to its end
\* (helperClient.ts:973, :1028).
NothingMissing == node.body = "read" => past.got = past.sent

\* What has come of a response the helper ended is kept for a consumer who
\* stays, whatever of the upload the helper did not want
\* (tests/helperClient.test.ts:1120). The code does not: the closed upload makes
\* the pump throw, and the pump cancels the whole exchange
\* (helperClient.ts:811).
EarlyResponseKept ==
  ( /\ up /\ IsRemote(node) /\ node.stream.response = "succeeded"
    /\ ~past.quit ) => (node.body = "destroyed" => node.held = 0)

\* Every request is answered or refused.
CallerHears == node.caller = "waiting" ~> node.caller # "waiting"

\* A body that is being read ends or breaks, and a pump that waits for credit
\* gets it or hears that the stream is over.
BodyEnds ==
  IsRemote(node) /\ node.caller = "answered"
    ~> node.body \in {"read", "destroyed"}
PumpGoesOn == node.pump = "waiting" ~> node.pump # "waiting"

\* A stream's slot (one of 128) is freed, unless a cancellation met a response
\* that was already over: that request then has no end, and the node waits for
\* one (helperClient.ts:1248); or came before the app's answer, which is then
\* dropped and the stream with it (helperClient.ts:1137).
SlotIsFreed ==
  node.stream.at = "active" ~> (node.closed \/ past.crossed \/ past.dropped)
\* Without the one or the other excuse: the code needs both.
UnlessDropped == node.stream.at = "active" ~> (node.closed \/ past.dropped)
UnlessCrossed == node.stream.at = "active" ~> (node.closed \/ past.crossed)

\* Nothing is lost or made up between the ends: credit adds up to the window
\* in both directions, and a body that ends is the whole body.
NothingIsLost == StreamTypeOK /\ CreditConserved /\ NothingMissing

\* Every exchange ends on every side: the caller hears, the body ends or breaks,
\* the pump goes on or is told, and the stream's slot is freed.
ExchangeEnds == CallerHears /\ BodyEnds /\ PumpGoesOn /\ SlotIsFreed
=============================================================================
