------------------------------ MODULE Streams -------------------------------
(***************************************************************************)
(* What the streams of Transport are held to: the events of a whole        *)
(* stream, defined without reading it line by line.                        *)
(***************************************************************************)
EXTENDS Transport, FiniteSets

(* What seq has at some places, in their order. *)
Ranked(places, n) == {i \in places : Cardinality({j \in places : j <= i}) = n}

Nth(places, n) == CHOOSE i \in Ranked(places, n) : TRUE

At(seq, places) == [n \in 1 .. Cardinality(places) |-> seq[Nth(places, n)]]

(* The data lines before a place, after the last blank line before it. *)
DataBefore(ls, e) ==
  {i \in 1 .. (e - 1) : ls[i] \in DataLines /\ \A j \in i .. (e - 1) : ls[j] # "blank"}

(* Of server-sent events, one ends at a blank line or the end; else it is a line. *)
Ends(kind, ls) ==
  IF kind = "ndjson"
    THEN {i \in 1 .. Len(ls) : ls[i] # "blank"}
    ELSE {e \in 1 .. (Len(ls) + 1) : /\ e = Len(ls) + 1 \/ ls[e] = "blank"
                                     /\ DataBefore(ls, e) # {}}

Payload(kind, ls, e) == IF kind = "ndjson" THEN <<ls[e]>> ELSE At(ls, DataBefore(ls, e))

Event(payload) == IF IsDone(payload) THEN "DONE" ELSE Decoded(payload)

EventAt(kind, ls, e) == Event(Payload(kind, ls, e))

(* Reading stops at [DONE] or at an event that is not JSON. *)
Halts == {"DONE", "garbled"}
Stops(kind, ls) == {e \in Ends(kind, ls) : EventAt(kind, ls, e) \in Halts}

EventsAt(kind, ls, places) == At([e \in places |-> EventAt(kind, ls, e)], places)

EventsOf(kind, ls) ==
  EventsAt(kind, ls, {e \in Ends(kind, ls) : \A s \in Stops(kind, ls) : e < s})

ResultOf(kind, ls) ==
  IF \E s \in Stops(kind, ls) :
       EventAt(kind, ls, s) = "garbled" /\ \A t \in Stops(kind, ls) : s <= t
    THEN "error" ELSE Concluded(EventsOf(kind, ls))

(***************************************************************************)
(* A streamed reply is the whole of what the server streamed: every event  *)
(* up to [DONE] or the end, over however many lines it came, with the      *)
(* counts of the last event that carried both.  A stream that broke off is *)
(* no reply, whatever had arrived.                                         *)
(***************************************************************************)
Counts == {i \in 1 .. Len(events) : events[i] = "counts"}

ReplyIsWholeStream ==
  caller \in Streams /\ pc = "done" /\ trouble \in {"none", "broken"} /\ result # "cancelled" =>
    /\ trouble = "none" /\ result # "raised" =>
         /\ events = EventsOf(caller, lines)
         /\ result = ResultOf(caller, lines)
         /\ counted \in {0} \cup Counts /\ \A i \in Counts : i <= counted
    /\ trouble = "broken" => result # "reply"
=============================================================================
