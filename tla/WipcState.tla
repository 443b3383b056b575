------------------------------ MODULE WipcState ------------------------------
(***************************************************************************)
(* What one end of a parent-helper connection knows of one stream, and how *)
(* a frame changes it (src/src/shared/wipcState.ts; the peer's reference   *)
(* implementation is contracts/remote/v1/conformance-go/internal/wipc).    *)
(* Each end gives its own copy every frame it sends and every frame it     *)
(* reads, so the two copies see the frames of the two directions in        *)
(* different orders.                                                       *)
(*                                                                         *)
(* Receive(s, f) is the frame's outcome and the copy after it. A frame is  *)
(* [type, sender, size, window]: size is a chunk's length or an update's   *)
(* increment, window the direction an update is about. Payloads, stream    *)
(* numbers and the limit of 128 streams are left out: one stream.          *)
(***************************************************************************)
EXTENDS Naturals

CONSTANT Credit   \* WIPC_INITIAL_STREAM_CREDIT_BYTES

ASSUME CreditAssumption == Credit \in Nat \ {0}

Sides == {"node", "helper"}
Opposite(side) == IF side = "node" THEN "helper" ELSE "node"

RequestStates == {"open", "ended", "cancelled", "response_closed", "failed"}
ResponseStates == {"none", "open", "succeeded", "failed"}
Windows == {"request", "response"}
FrameTypes == {"request_start", "request_chunk", "request_end",
               "request_cancel", "response_start", "response_chunk",
               "response_end", "response_error", "window_update"}

Frames == [type : FrameTypes, sender : Sides, size : Nat, window : Windows]

\* at: whether the stream is in the map, and if not, whether its number is
\* above the highest one seen
Streams == [at : {"unknown", "active", "removed"}, initiator : Sides,
            request : RequestStates, response : ResponseStates,
            cancelled : BOOLEAN, failed : BOOLEAN,
            requestCredit : 0 .. Credit, responseCredit : 0 .. Credit]

Started(initiator) ==
  [at |-> "active", initiator |-> initiator, request |-> "open",
   response |-> "none", cancelled |-> FALSE, failed |-> FALSE,
   requestCredit |-> Credit, responseCredit |-> Credit]

Unstarted(initiator) == [Started(initiator) EXCEPT !.at = "unknown"]

Responder(s) == Opposite(s.initiator)
IsResponseTerminal(s) == s.response \in {"succeeded", "failed"}

To(outcome, s) == [outcome |-> outcome, stream |-> s]

\* The whole connection ends.
ConnectionError(s) == To("connection_error", s)

FailStream(s) ==
  To("stream_failed", [s EXCEPT !.failed = TRUE, !.request = "failed"])

-----------------------------------------------------------------------------

ReceiveRequestStart(s, f) ==
  IF s.at = "unknown" /\ f.sender = s.initiator
  THEN To("request_started", Started(s.initiator))
  ELSE ConnectionError(s)

\* Who may send an update of a window: the end that reads that direction.
GrantsWindow(s, f) ==
  f.sender = IF f.window = "request" THEN Responder(s) ELSE s.initiator

ReceiveInactiveFrame(s, f) ==
  IF /\ s.at = "removed"
     /\ \/ f.type = "request_cancel" /\ f.sender = s.initiator
        \/ f.type = "window_update" /\ GrantsWindow(s, f)
  THEN To("inactive_frame_ignored", s)
  ELSE ConnectionError(s)

ReceiveRequestChunk(s, f) ==
  IF s.request \in {"ended", "failed"} THEN FailStream(s)
  ELSE IF f.size > s.requestCredit THEN ConnectionError(s)
  ELSE To(IF s.request = "open" THEN "request_chunk_delivered"
                                ELSE "request_chunk_discarded",
          [s EXCEPT !.requestCredit = @ - f.size])

ReceiveRequestEnd(s, f) ==
  IF s.request \in {"open", "response_closed"}
  THEN To("request_ended", [s EXCEPT !.request = "ended"])
  ELSE FailStream(s)

ReceiveRequestCancel(s, f) ==
  IF s.cancelled \/ IsResponseTerminal(s)
  THEN To("cancel_ignored", s)
  ELSE To("request_cancelled",
          [s EXCEPT !.cancelled = TRUE, !.request = "cancelled"])

ReceiveResponseStart(s, f) ==
  IF s.response = "none"
  THEN To("response_started", [s EXCEPT !.response = "open"])
  ELSE FailStream(s)

ReceiveResponseChunk(s, f) ==
  IF s.response # "open" THEN FailStream(s)
  ELSE IF f.size > s.responseCredit THEN ConnectionError(s)
  ELSE To("response_chunk_delivered", [s EXCEPT !.responseCredit = @ - f.size])

\* A terminal response closes a request that is still open.
ReceiveResponseTerminal(s, f) ==
  LET succeeded == f.type = "response_end" IN
  IF (succeeded /\ s.response = "none") \/ IsResponseTerminal(s)
  THEN FailStream(s)
  ELSE To(IF succeeded THEN "response_ended" ELSE "response_failed",
          [s EXCEPT !.response = IF succeeded THEN "succeeded" ELSE "failed",
                    !.request = IF @ = "open" THEN "response_closed" ELSE @])

ReceiveWindowUpdate(s, f) ==
  LET terminal == IF f.window = "request" THEN s.request # "open"
                  ELSE IsResponseTerminal(s) \/ s.failed
      credit == IF f.window = "request" THEN s.requestCredit
                                        ELSE s.responseCredit
  IN IF ~GrantsWindow(s, f) THEN ConnectionError(s)
     ELSE IF terminal THEN To("window_ignored", s)
     ELSE IF credit + f.size > Credit THEN ConnectionError(s)
     ELSE To("window_updated",
             IF f.window = "request"
             THEN [s EXCEPT !.requestCredit = @ + f.size]
             ELSE [s EXCEPT !.responseCredit = @ + f.size])

ReceiveFailedStreamFrame(s, f) ==
  IF f.type = "request_cancel" /\ f.sender = s.initiator
  THEN To("cancel_ignored", s)
  ELSE IF f.type = "window_update" THEN ReceiveWindowUpdate(s, f)
  ELSE ConnectionError(s)

\* Whose frame it is on an active stream.
ExpectedSender(s, f) ==
  IF f.type \in {"request_chunk", "request_end", "request_cancel"}
  THEN s.initiator ELSE Responder(s)

ReceiveActive(s, f) ==
  IF f.type = "window_update" THEN ReceiveWindowUpdate(s, f)
  ELSE IF f.sender # ExpectedSender(s, f) THEN FailStream(s)
  ELSE CASE f.type = "request_chunk" -> ReceiveRequestChunk(s, f)
         [] f.type = "request_end" -> ReceiveRequestEnd(s, f)
         [] f.type = "request_cancel" -> ReceiveRequestCancel(s, f)
         [] f.type = "response_start" -> ReceiveResponseStart(s, f)
         [] f.type = "response_chunk" -> ReceiveResponseChunk(s, f)
         [] OTHER -> ReceiveResponseTerminal(s, f)

Receive(s, f) ==
  IF f.type = "request_start" THEN ReceiveRequestStart(s, f)
  ELSE IF s.at # "active" THEN ReceiveInactiveFrame(s, f)
  ELSE IF s.failed THEN ReceiveFailedStreamFrame(s, f)
  ELSE ReceiveActive(s, f)

\* removeStream: refused for a stream that is not over.
Removable(s) == s.at = "active" /\ (s.failed \/ IsResponseTerminal(s))
Removed(s) == IF Removable(s) THEN [s EXCEPT !.at = "removed"] ELSE s

\* forwardWipcTransition: these change nothing beyond the copy itself.
Ignored == {"request_chunk_discarded", "cancel_ignored", "window_ignored",
            "inactive_frame_ignored"}
Refused == {"connection_error", "stream_failed"}
=============================================================================
