----------------------------- MODULE Transport ------------------------------
(***************************************************************************)
(* One call over HTTP, with its retries: HttpTarget.send of a plain or of  *)
(* a streaming target, or a judge's complete_json.  juried.transport sends *)
(* the request again while the server cannot be reached or answers with a  *)
(* retryable status; the answer is then read at once, or as server-sent    *)
(* events line by line as they arrive, and interpreted.                    *)
(*                                                                         *)
(* The server and the network are external: a request may be lost, served  *)
(* without its answer arriving, refused, or answered with anything, and a  *)
(* stream, or the body of a streamed error status, may break off anywhere. *)
(***************************************************************************)
EXTENDS Integers, Sequences

CONSTANTS
  Retries,      (* target.retries, or the judge's 3                         *)
  MaxLines      (* bounds the lines of a stream                             *)

ASSUME TransportAssumption == Retries \in Nat /\ MaxLines \in Nat

VARIABLES
  caller,       (* who calls: see Callers                                   *)
  pc,           (* where the call is                                        *)
  attempt,      (* the retries made                                         *)
  sent,         (* requests sent                                            *)
  served,       (* requests the server has handled                          *)
  trouble,      (* the trouble of the last answer, "none" if there was none *)
  lines,        (* the lines of the stream read so far                      *)
  data,         (* iter_events: the data lines of the event being read      *)
  events,       (* the events of the stream, decoded                        *)
  counted,      (* the event the token counts were last taken from          *)
  open,         (* whether a streamed response is open                      *)
  result        (* how the call ended, "none" before                        *)

requestVars == <<attempt, sent, served, trouble>>
streamVars == <<lines, data, events, counted>>
vars == <<caller, pc, requestVars, streamVars, open, result>>

(* A target streams server-sent events ("sse"), JSON lines, or not at all. *)
Streams == {"sse", "ndjson"}
Callers == {"target", "judge"} \cup Streams

(***************************************************************************)
(* "reply": a TargetResponse or a Verdict.  "error": a TransportFailure or *)
(* a ProviderError, which the runner records.  "config": TargetConfigError.*)
(* "raised": any other exception, which ends the scenario.                 *)
(***************************************************************************)
Results == {"reply", "error", "config", "raised", "cancelled"}

(* The server cannot be reached, or its status is in RETRYABLE_STATUSES or not. *)
RetryableTroubles == {"unreachable", "unavailable"}
ErrorStatuses == {"unavailable", "refused"}
Troubles == RetryableTroubles \cup ErrorStatuses

Init ==
  /\ caller \in Callers
  /\ pc = "ready"
  /\ attempt = 0 /\ sent = 0 /\ served = 0
  /\ trouble = "none"
  /\ lines = <<>> /\ data = <<>> /\ events = <<>> /\ counted = 0
  /\ open = FALSE
  /\ result = "none"

Ended(r) == pc' = "done" /\ result' = r

ClosedByNobody(r) == Ended(r) /\ UNCHANGED open  (* Mutant: without the finally. *)

(* The finally of stream_response closes the response whose lines are read. *)
Closed(r) == Ended(r) /\ open' = FALSE
-----------------------------------------------------------------------------
(***************************************************************************)
(* request_json and stream_response, the same up to the answer.            *)
(***************************************************************************)

(* require_env: the judge's key is asked for before anything is sent. *)
NoKey ==
  /\ pc = "ready" /\ caller = "judge" /\ attempt = 0
  /\ Ended("error")
  /\ UNCHANGED <<caller, requestVars, streamVars, open>>

Send ==
  /\ pc = "ready"
  /\ pc' = "sent"
  /\ sent' = sent + 1
  /\ UNCHANGED <<caller, attempt, served, trouble, streamVars, open, result>>

(* The server handles the request, whether or not its answer arrives. *)
Serve ==
  /\ pc = "sent"
  /\ pc' = "served"
  /\ served' = served + 1
  /\ UNCHANGED <<caller, attempt, sent, trouble, streamVars, open, result>>

RetriesPast(t) == t \in RetryableTroubles /\ attempt <= Retries  (* Mutant: one more. *)

RetriesAfter(t) == t \in RetryableTroubles /\ attempt < Retries

(* After trouble t: back off and try again, or TransportFailure. *)
Troubled(t) ==
  /\ trouble' = t
  /\ IF RetriesAfter(t)
       THEN /\ pc' = "backoff"
            /\ attempt' = attempt + 1
            /\ UNCHANGED result
       ELSE Ended("error") /\ UNCHANGED attempt
  /\ UNCHANGED <<caller, sent, served, streamVars>>

(* httpx.TransportError, before or after the server handled the request. *)
Unreachable ==
  /\ pc \in {"sent", "served"}
  /\ Troubled("unreachable")
  /\ UNCHANGED open

(* An error status whose body request_json has read with it. *)
BadStatus ==
  /\ pc = "served" /\ caller \notin Streams
  /\ \E t \in ErrorStatuses : Troubled(t)
  /\ UNCHANGED open

(* To stream_response an error status is an open response, its body unread. *)
StatusOpened ==
  /\ pc = "served" /\ caller \in Streams
  /\ pc' = "refusing"
  /\ open' = TRUE
  /\ trouble' \in ErrorStatuses
  /\ UNCHANGED <<caller, attempt, sent, served, streamVars, result>>

(* aread, then aclose: only then is the call tried again or given up. *)
StatusRead ==
  /\ pc = "refusing"
  /\ Troubled(trouble)
  /\ open' = FALSE

(* aread raises: past the retries, and past the aclose after it. *)
UnreadableStatus ==
  /\ pc = "refusing"
  /\ Ended("raised")
  /\ UNCHANGED <<caller, requestVars, streamVars, open>>

Backoff ==
  /\ pc = "backoff"
  /\ pc' = "ready"
  /\ UNCHANGED <<caller, requestVars, streamVars, open, result>>

(* httpx.DecodingError, of a body not in its encoding, is no TransportError. *)
UnreadableBody ==
  /\ pc = "served" /\ caller \notin Streams
  /\ Ended("raised")
  /\ trouble' = "unreadable"
  /\ UNCHANGED <<caller, attempt, sent, served, streamVars, open>>
-----------------------------------------------------------------------------
(***************************************************************************)
(* An answer below 400 that is not streamed: a body of any kind.           *)
(***************************************************************************)
TargetBodies == {"text", "not_json", "other_path"}

(* The text of a judge's payload is a verdict, no object or an object of another shape. *)
JudgeTexts == {"verdict", "no_object", "no_verdict"}
JudgeBodies == {"not_json", "not_an_object", "refusal", "cut_off"} \cup JudgeTexts

(* extract_path, at the response_path of a body or the stream_path of an event. *)
SelectsText(payload) == payload \in {"text", "delta"}

Interpreted(body) ==
  CASE SelectsText(body) \/ body = "verdict"                       -> "reply"
    [] body = "other_path"                                         -> "config"
    [] body \in {"not_json", "not_an_object"} /\ caller = "judge"  -> "raised"
    [] OTHER                                                       -> "error"

Answered ==
  /\ pc = "served" /\ caller \notin Streams
  /\ \E body \in (IF caller = "target" THEN TargetBodies ELSE JudgeBodies) :
       Ended(Interpreted(body))
  /\ trouble' = "none"
  /\ UNCHANGED <<caller, attempt, sent, served, streamVars, open>>

(* The streamed response is open, and _send_stream iterates over its lines. *)
Opened ==
  /\ pc = "served" /\ caller \in Streams
  /\ pc' = "reading"
  /\ open' = TRUE
  /\ trouble' = "none"
  /\ UNCHANGED <<caller, attempt, sent, served, streamVars, result>>
-----------------------------------------------------------------------------
(***************************************************************************)
(* iter_events.  A line is blank, a comment or another field, or a data    *)
(* line with a whole event, a part of one or [DONE].                       *)
(***************************************************************************)
WholeEvents == {"delta", "preamble", "counts", "count"}
DataLines == WholeEvents \cup {"head", "tail", "DONE"}
Lines == DataLines \cup {"blank", "comment"}

(* An event may come in two data lines; anything else is not JSON. *)
Decoded(payload) ==
  CASE payload = <<"head", "tail">>                     -> "delta"
    [] Len(payload) = 1 /\ payload[1] \in WholeEvents   -> payload[1]
    [] OTHER                                            -> "garbled"

IsDone(payload) == payload = <<"DONE">>

(* The body of _send_stream's loop, for one more event. *)
CountsFrom(seen, e) == IF e = "counts" THEN Len(seen) + 1 ELSE counted

Taken(e) == events' = Append(events, e) /\ counted' = CountsFrom(events, e)

(* After the loop: no event, no text at stream_path, or the reply. *)
Concluded(seen) ==
  IF seen = <<>> THEN "error"
  ELSE IF \E i \in 1 .. Len(seen) : SelectsText(seen[i]) THEN "reply" ELSE "config"

(* An event is decoded and taken, or is not JSON: TransportFailure. *)
Yielded(e) ==
  IF e = "garbled"
    THEN Closed("error") /\ UNCHANGED <<events, counted>>
    ELSE Taken(e) /\ UNCHANGED <<pc, open, result>>

Reading == pc = "reading" /\ Len(lines) < MaxLines

(* ndjson: every line that is not blank is an event. *)
ReadObject ==
  /\ Reading /\ caller = "ndjson"
  /\ \E l \in WholeEvents \cup {"head", "blank"} :
       /\ lines' = Append(lines, l)
       /\ IF l = "blank"
            THEN UNCHANGED <<pc, open, result, events, counted>>
            ELSE Yielded(Decoded(<<l>>))
  /\ UNCHANGED <<caller, requestVars, data>>

(* A data line is kept until the blank line that ends its event. *)
ReadData ==
  /\ Reading /\ caller = "sse"
  /\ \E l \in DataLines : lines' = Append(lines, l) /\ data' = Append(data, l)
  /\ UNCHANGED <<caller, pc, requestVars, events, counted, open, result>>

ReadComment ==
  /\ Reading /\ caller = "sse"
  /\ lines' = Append(lines, "comment")
  /\ UNCHANGED <<caller, pc, requestVars, data, events, counted, open, result>>

(* A blank line ends the event being read, if there is one; [DONE] the stream. *)
ReadBlank ==
  /\ Reading /\ caller = "sse"
  /\ lines' = Append(lines, "blank")
  /\ data' = <<>>
  /\ CASE data = <<>>  -> UNCHANGED <<pc, open, result, events, counted>>
       [] IsDone(data) -> Closed(Concluded(events)) /\ UNCHANGED <<events, counted>>
       [] OTHER        -> Yielded(Decoded(data))
  /\ UNCHANGED <<caller, requestVars>>

(* The server ends the body: an event without its blank line still counts. *)
DropsUnendedEvent(payload) == TRUE  (* Mutant: only a blank line ends an event. *)

NothingPending(payload) == payload = <<>> \/ IsDone(payload)

EndOfStream ==
  /\ pc = "reading"
  /\ data' = <<>>
  /\ CASE NothingPending(data) -> Closed(Concluded(events)) /\ UNCHANGED <<events, counted>>
       [] ~NothingPending(data) /\ Decoded(data) = "garbled" ->
            Closed("error") /\ UNCHANGED <<events, counted>>
       [] OTHER -> Taken(Decoded(data)) /\ Closed(Concluded(Append(events, Decoded(data))))
  /\ UNCHANGED <<caller, requestVars, lines>>

(* The connection breaks: httpx raises inside the loop, past every retry. *)
BreakOff ==
  /\ pc = "reading"
  /\ Closed("raised")
  /\ trouble' = "broken"
  /\ UNCHANGED <<caller, attempt, sent, served, streamVars>>

(* The task is cancelled at the await it is at; only reading lines has a finally. *)
Cancel ==
  /\ pc \in {"sent", "served", "backoff", "refusing", "reading"}
  /\ IF pc = "reading" THEN Closed("cancelled") ELSE Ended("cancelled") /\ UNCHANGED open
  /\ UNCHANGED <<caller, requestVars, streamVars>>

Next ==
  \/ NoKey \/ Send \/ Serve \/ Unreachable \/ BadStatus \/ Backoff
  \/ StatusOpened \/ StatusRead \/ UnreadableStatus
  \/ UnreadableBody \/ Answered \/ Opened
  \/ ReadObject \/ ReadData \/ ReadComment \/ ReadBlank \/ EndOfStream \/ BreakOff
  \/ Cancel

Spec == Init /\ [][Next]_vars

-----------------------------------------------------------------------------
TypeOK ==
  /\ caller \in Callers
  /\ pc \in {"ready", "sent", "served", "backoff", "refusing", "reading", "done"}
  /\ attempt \in 0 .. Retries
  /\ sent \in Nat /\ served \in Nat
  /\ trouble \in {"none", "broken", "unreadable"} \cup Troubles
  /\ lines \in Seq(Lines) /\ data \in Seq(DataLines)
  /\ events \in Seq(WholeEvents) /\ counted \in 0 .. Len(events)
  /\ open \in BOOLEAN
  /\ result \in Results \cup {"none"}

(***************************************************************************)
(* A retry may send again what the server has served (transport.py cannot  *)
(* tell a request lost from an answer lost): never more often than the     *)
(* retries allow, and only after retryable trouble, on which the call      *)
(* gives up only once every retry is used.                                 *)
(***************************************************************************)
ResendsBounded ==
  /\ served <= sent /\ sent <= Retries + 1
  /\ pc = "backoff" => trouble \in RetryableTroubles
  /\ trouble \in RetryableTroubles /\ result = "error" => sent = Retries + 1

(***************************************************************************)
(* A response whose lines are read is open while they are, and closed      *)
(* however that ends: at [DONE] before the end of the body, on an event    *)
(* that is not JSON, broken off or cancelled.  The one response that is    *)
(* left unclosed is an error status whose body could not be read, as the   *)
(* call raises or is cancelled between aread and aclose (stream_response). *)
(***************************************************************************)
LeftUnclosed ==
  pc = "done" /\ trouble \in ErrorStatuses /\ result \in {"raised", "cancelled"}

ResponseClosed ==
  /\ pc \in {"refusing", "reading"} => open
  /\ open => caller \in Streams /\ (pc \in {"refusing", "reading"} \/ LeftUnclosed)

(***************************************************************************)
(* "A wobbly staging endpoint therefore shows up as transport errors"      *)
(* (docs/runs.md): so does a stream whose connection breaks.               *)
(***************************************************************************)
BrokenStreamIsAnError == trouble = "broken" => result = "error"
=============================================================================
