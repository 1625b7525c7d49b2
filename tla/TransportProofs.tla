--------------------------- MODULE TransportProofs ---------------------------
(***************************************************************************)
(* Proofs about Transport, for every number of retries and of lines: its   *)
(* types, the bound on the requests a call sends, which responses it       *)
(* closes, and that a streamed reply is the whole stream.                  *)
(***************************************************************************)
EXTENDS Streams, SequenceTheorems, Counting

(* How many requests were sent, from where the call is and its retries. *)
Sent ==
  /\ pc \in {"ready", "backoff"} => sent = attempt
  /\ pc \in {"sent", "served", "refusing", "reading"} => sent = attempt + 1
  /\ pc = "done" => sent \in {attempt, attempt + 1}
  /\ pc = "sent" => served < sent
  /\ served <= sent

(* Trouble is what is retried, and what the last try ended in. *)
Tried ==
  /\ pc = "ready" /\ attempt = 0 => trouble = "none"
  /\ pc = "backoff" => trouble \in RetryableTroubles /\ attempt > 0
  /\ pc = "refusing" => trouble \in ErrorStatuses
  /\ pc = "reading" => trouble = "none"
  /\ result # "none" => pc = "done"
  /\ trouble \in RetryableTroubles /\ result = "error" => sent = Retries + 1

IInv == TypeOK /\ Sent /\ Tried /\ ResponseClosed

(* An event that is decoded is one of those there are. *)
LEMMA DecodedType ==
  ASSUME NEW payload \in Seq(DataLines)
  PROVE  Decoded(payload) \in WholeEvents \cup {"garbled"}
  <1>1. CASE payload = <<"head", "tail">>
    BY <1>1 DEF Decoded, WholeEvents
  <1>2. CASE payload # <<"head", "tail">> /\ Len(payload) = 1 /\ payload[1] \in WholeEvents
    BY <1>2 DEF Decoded
  <1>3. CASE payload # <<"head", "tail">> /\ ~(Len(payload) = 1 /\ payload[1] \in WholeEvents)
    BY <1>3 DEF Decoded
  <1> QED  BY <1>1, <1>2, <1>3

(* What an event does to those read and to the counts. *)
LEMMA TakenType ==
  ASSUME NEW e \in WholeEvents, events \in Seq(WholeEvents), counted \in 0 .. Len(events), Taken(e)
  PROVE  events' \in Seq(WholeEvents) /\ counted' \in 0 .. Len(events')
  <1>1. events' = Append(events, e) /\ events' \in Seq(WholeEvents)
    BY DEF Taken
  <1>2. Len(events') = Len(events) + 1 /\ Len(events) \in Nat
    BY <1>1
  <1>3. counted' \in {counted, Len(events) + 1}
    BY DEF Taken, CountsFrom
  <1> QED  BY <1>1, <1>2, <1>3

(* An event that is read keeps the types. *)
LEMMA YieldedType ==
  ASSUME NEW e \in WholeEvents \cup {"garbled"}, TypeOK, Yielded(e)
  PROVE  events' \in Seq(WholeEvents) /\ counted' \in 0 .. Len(events')
  <1>1. CASE e = "garbled"
    BY <1>1 DEF Yielded, TypeOK
  <1>2. CASE e # "garbled"
    <2>1. e \in WholeEvents /\ Taken(e)
      BY <1>2 DEF Yielded
    <2> QED  BY <2>1, TakenType DEF TypeOK
  <1> QED  BY <1>1, <1>2

(* A stream that ends is a reply or an error. *)
LEMMA ConcludedType ==
  ASSUME NEW seen
  PROVE  Concluded(seen) \in {"error", "reply", "config"}
  BY DEF Concluded

(* Reading goes on, or ends in a reply, an error or a configuration error. *)
ReadOn ==
  /\ pc = "reading"
  /\ \/ UNCHANGED <<pc, open, result>>
     \/ \E r \in {"error", "reply", "config"} : Closed(r)
  /\ UNCHANGED <<caller, requestVars>>

(* An event that is read is a step of ReadOn. *)
LEMMA YieldedReadsOn ==
  ASSUME NEW e, pc = "reading", Yielded(e), UNCHANGED <<caller, requestVars>>
  PROVE  ReadOn
  BY DEF Yielded, ReadOn

(* A step that reads is ReadOn, and keeps the types of what was read. *)
ReadTypes ==
  /\ lines' \in Seq(Lines) /\ data' \in Seq(DataLines)
  /\ events' \in Seq(WholeEvents) /\ counted' \in 0 .. Len(events')

Read == ReadObject \/ ReadData \/ ReadComment \/ ReadBlank \/ EndOfStream

(* Every step that reads goes on or ends, and keeps the types. *)
LEMMA ReadStep ==
  ASSUME TypeOK, Read
  PROVE  ReadOn /\ ReadTypes
  <1> USE DEF TypeOK
  <1>1. CASE ReadObject
    <2>1. PICK l \in WholeEvents \cup {"head", "blank"} :
            /\ lines' = Append(lines, l)
            /\ IF l = "blank" THEN UNCHANGED <<pc, open, result, events, counted>>
                              ELSE Yielded(Decoded(<<l>>))
      BY <1>1 DEF ReadObject
    <2>2. pc = "reading" /\ UNCHANGED <<caller, requestVars, data>>
      BY <1>1 DEF ReadObject, Reading
    <2>3. l \in Lines /\ lines' \in Seq(Lines)
      BY <2>1 DEF Lines, DataLines, WholeEvents
    <2>4. CASE l = "blank"
      BY <2>1, <2>2, <2>3, <2>4 DEF ReadOn, ReadTypes
    <2>5. CASE l # "blank"
      <3>1. l \in DataLines /\ <<l>> \in Seq(DataLines)
        BY <2>5 DEF DataLines, WholeEvents
      <3>2. Decoded(<<l>>) \in WholeEvents \cup {"garbled"}
        BY <3>1, DecodedType
      <3>3. events' \in Seq(WholeEvents) /\ counted' \in 0 .. Len(events')
        BY <2>1, <2>5, <3>2, YieldedType
      <3>4. ReadOn
        BY <2>1, <2>2, <2>5, YieldedReadsOn
      <3> QED  BY <2>2, <2>3, <3>3, <3>4 DEF ReadTypes
    <2> QED  BY <2>4, <2>5
  <1>2. CASE ReadData
    <2>1. PICK l \in DataLines : lines' = Append(lines, l) /\ data' = Append(data, l)
      BY <1>2 DEF ReadData
    <2>2. lines' \in Seq(Lines) /\ data' \in Seq(DataLines)
      BY <2>1 DEF Lines
    <2>3. ReadOn
      BY <1>2 DEF ReadData, Reading, ReadOn
    <2> QED  BY <1>2, <2>2, <2>3 DEF ReadData, ReadTypes
  <1>3. CASE ReadComment
    <2>1. lines' \in Seq(Lines)
      BY <1>3 DEF ReadComment, Lines
    <2>2. ReadOn
      BY <1>3 DEF ReadComment, Reading, ReadOn
    <2> QED  BY <1>3, <2>1, <2>2 DEF ReadComment, ReadTypes
  <1>4. CASE ReadBlank
    <2>1. pc = "reading" /\ data' = <<>> /\ UNCHANGED <<caller, requestVars>>
      BY <1>4 DEF ReadBlank, Reading
    <2>2. lines' \in Seq(Lines)
      BY <1>4 DEF ReadBlank, Lines
    <2>3. CASE data = <<>> \/ IsDone(data)
      <3>1. UNCHANGED <<events, counted>>
        BY <1>4, <2>3 DEF ReadBlank
      <3>2. UNCHANGED <<pc, open, result>> \/ Closed(Concluded(events))
        BY <1>4, <2>3 DEF ReadBlank
      <3>3. ReadOn
        BY <2>1, <3>2, ConcludedType DEF ReadOn
      <3> QED  BY <2>1, <2>2, <3>1, <3>3 DEF ReadTypes
    <2>4. CASE ~(data = <<>> \/ IsDone(data))
      <3>1. Yielded(Decoded(data))
        BY <1>4, <2>4 DEF ReadBlank
      <3>2. events' \in Seq(WholeEvents) /\ counted' \in 0 .. Len(events')
        BY <3>1, DecodedType, YieldedType
      <3>3. ReadOn
        BY <2>1, <3>1, YieldedReadsOn
      <3> QED  BY <2>1, <2>2, <3>2, <3>3 DEF ReadTypes
    <2> QED  BY <2>3, <2>4
  <1>5. CASE EndOfStream
    <2>1. pc = "reading" /\ data' = <<>> /\ UNCHANGED <<caller, requestVars, lines>>
      BY <1>5 DEF EndOfStream
    <2>2. CASE NothingPending(data)
      <3>1. Closed(Concluded(events)) /\ UNCHANGED <<events, counted>>
        BY <1>5, <2>2 DEF EndOfStream
      <3> QED  BY <2>1, <3>1, ConcludedType DEF ReadOn, ReadTypes
    <2>3. CASE ~NothingPending(data) /\ Decoded(data) = "garbled"
      <3>1. Closed("error") /\ UNCHANGED <<events, counted>>
        BY <1>5, <2>3 DEF EndOfStream
      <3> QED  BY <2>1, <3>1 DEF ReadOn, ReadTypes
    <2>4. CASE ~NothingPending(data) /\ Decoded(data) # "garbled"
      <3>1. Taken(Decoded(data)) /\ Closed(Concluded(Append(events, Decoded(data))))
        BY <1>5, <2>4 DEF EndOfStream
      <3>2. Decoded(data) \in WholeEvents
        BY <2>4, DecodedType
      <3>3. events' \in Seq(WholeEvents) /\ counted' \in 0 .. Len(events')
        BY <3>1, <3>2, TakenType
      <3>4. ReadOn
        BY <2>1, <3>1, ConcludedType DEF ReadOn
      <3> QED  BY <2>1, <3>3, <3>4 DEF ReadTypes
    <2> QED  BY <2>2, <2>3, <2>4
  <1> QED  BY <1>1, <1>2, <1>3, <1>4, <1>5 DEF Read
-----------------------------------------------------------------------------
(* The invariant holds at the start. *)
LEMMA InitInv == Init => IInv
  <1> SUFFICES ASSUME Init PROVE IInv
    OBVIOUS
  <1>1. TypeOK
    <2>1. lines \in Seq(Lines) /\ data \in Seq(DataLines) /\ events \in Seq(WholeEvents)
      BY DEF Init
    <2>2. counted \in 0 .. Len(events)
      BY DEF Init
    <2>3. attempt \in 0 .. Retries /\ sent \in Nat /\ served \in Nat
      BY TransportAssumption DEF Init
    <2>4. /\ caller \in Callers /\ trouble \in {"none", "broken", "unreadable"} \cup Troubles
          /\ pc \in {"ready", "sent", "served", "backoff", "refusing", "reading", "done"}
          /\ open \in BOOLEAN /\ result \in Results \cup {"none"}
      BY DEF Init
    <2> QED  BY <2>1, <2>2, <2>3, <2>4 DEF TypeOK
  <1>2. Sent /\ Tried /\ ResponseClosed
    BY DEF Init, Sent, Tried, ResponseClosed, RetryableTroubles
  <1> QED  BY <1>1, <1>2 DEF IInv

(* Reading keeps the invariant, however it goes on. *)
LEMMA ReadInv == IInv /\ Read => IInv'
  <1> SUFFICES ASSUME IInv, Read PROVE IInv'
    OBVIOUS
  <1>1. ReadOn /\ ReadTypes
    BY ReadStep DEF IInv
  <1>2. CASE UNCHANGED <<pc, open, result>>
    BY <1>1, <1>2 DEF ReadOn, ReadTypes, requestVars, IInv, TypeOK, Sent, Tried, ResponseClosed
  <1>3. ASSUME NEW r \in {"error", "reply", "config"}, Closed(r)
        PROVE  IInv'
    BY <1>1, <1>3
    DEF Closed, Ended, ReadOn, ReadTypes, requestVars, IInv, TypeOK, Sent, Tried, ResponseClosed,
        Results, RetryableTroubles
  <1> QED  BY <1>1, <1>2, <1>3 DEF ReadOn

(* So does trouble, tried again or given up on, once no response is open. *)
LEMMA TroubledInv ==
  ASSUME IInv, NEW t \in Troubles, Troubled(t), open' = FALSE, pc \in {"sent", "served", "refusing"}
  PROVE  IInv'
  <1> USE TransportAssumption
  <1>0. /\ trouble' = t /\ UNCHANGED <<caller, sent, served, lines, data, events, counted>>
        /\ TypeOK /\ Sent /\ Tried /\ result = "none" /\ sent = attempt + 1
    BY DEF IInv, Troubled, streamVars, Sent, Tried, TypeOK
  <1>1. CASE RetriesAfter(t)
    <2>1. /\ pc' = "backoff" /\ attempt' = attempt + 1 /\ result' = result
          /\ t \in RetryableTroubles /\ attempt < Retries
      BY <1>1 DEF Troubled, RetriesAfter
    <2>2. TypeOK'
      <3>1. attempt' \in 0 .. Retries
        BY <1>0, <2>1 DEF TypeOK
      <3> QED  BY <1>0, <2>1, <3>1 DEF TypeOK
    <2>3. Sent' /\ Tried' /\ ResponseClosed'
      BY <1>0, <2>1 DEF TypeOK, Sent, Tried, ResponseClosed
    <2> QED  BY <2>2, <2>3 DEF IInv
  <1>2. CASE ~RetriesAfter(t)
    <2>1. pc' = "done" /\ result' = "error" /\ UNCHANGED attempt
      BY <1>2 DEF Troubled, Ended
    <2>2. t \in RetryableTroubles => attempt = Retries
      BY <1>0, <1>2 DEF RetriesAfter, TypeOK
    <2>3. TypeOK'
      BY <1>0, <2>1 DEF TypeOK, Results
    <2>4. Sent' /\ Tried' /\ ResponseClosed'
      BY <1>0, <2>1, <2>2 DEF TypeOK, Sent, Tried, ResponseClosed
    <2> QED  BY <2>3, <2>4 DEF IInv
  <1> QED  BY <1>1, <1>2

(* Every step of a call keeps the invariant. *)
LEMMA NextInv == IInv /\ [Next]_vars => IInv'
  <1> SUFFICES ASSUME IInv, [Next]_vars PROVE IInv'
    OBVIOUS
  <1> USE TransportAssumption DEF IInv, Troubles, ErrorStatuses, RetryableTroubles
  <1>0. ~open \/ pc \notin {"ready", "sent", "served", "backoff"}
    BY DEF ResponseClosed, LeftUnclosed
  <1>1. CASE NoKey
    BY <1>1 DEF NoKey, Ended, requestVars, streamVars, TypeOK, Sent, Tried, ResponseClosed,
                LeftUnclosed, Results
  <1>2. CASE Send
    BY <1>2 DEF Send, streamVars, TypeOK, Sent, Tried, ResponseClosed, LeftUnclosed
  <1>3. CASE Serve
    BY <1>3 DEF Serve, streamVars, TypeOK, Sent, Tried, ResponseClosed, LeftUnclosed
  <1>4. CASE Unreachable
    BY <1>0, <1>4, TroubledInv DEF Unreachable, TypeOK
  <1>5. CASE BadStatus
    BY <1>0, <1>5, TroubledInv DEF BadStatus, TypeOK
  <1>6. CASE Backoff
    BY <1>6 DEF Backoff, requestVars, streamVars, TypeOK, Sent, Tried, ResponseClosed,
                LeftUnclosed, RetriesAfter
  <1>7. CASE StatusOpened
    BY <1>7 DEF StatusOpened, streamVars, TypeOK, Sent, Tried, ResponseClosed
  <1>8. CASE StatusRead
    BY <1>8, TroubledInv DEF StatusRead, Tried
  <1>9. CASE UnreadableStatus
    BY <1>9 DEF UnreadableStatus, Ended, requestVars, streamVars, TypeOK, Sent, Tried,
                ResponseClosed, LeftUnclosed, Results
  <1>10. CASE UnreadableBody
    BY <1>10 DEF UnreadableBody, Ended, streamVars, TypeOK, Sent, Tried, ResponseClosed,
                 LeftUnclosed, Results
  <1>11. CASE Answered
    <2>1. PICK r \in {"reply", "config", "raised", "error"} : Ended(r)
      BY <1>11 DEF Answered, Interpreted
    <2> QED
      BY <1>11, <2>1 DEF Answered, Ended, streamVars, TypeOK, Sent, Tried, ResponseClosed,
                         LeftUnclosed, Results
  <1>12. CASE Opened
    BY <1>12 DEF Opened, streamVars, TypeOK, Sent, Tried, ResponseClosed
  <1>13. CASE Read
    BY <1>13, ReadInv
  <1>14. CASE BreakOff
    BY <1>14 DEF BreakOff, Closed, Ended, streamVars, TypeOK, Sent, Tried, ResponseClosed, Results
  <1>15. CASE Cancel
    <2>1. CASE pc = "reading"
      BY <1>15, <2>1 DEF Cancel, Closed, Ended, requestVars, streamVars, TypeOK, Sent, Tried,
                         ResponseClosed, Results
    <2>2. CASE pc # "reading"
      BY <1>0, <1>15, <2>2 DEF Cancel, Ended, requestVars, streamVars, TypeOK, Sent, Tried,
                               ResponseClosed, LeftUnclosed, Results
    <2> QED  BY <2>1, <2>2
  <1>16. CASE UNCHANGED vars
    BY <1>16 DEF vars, requestVars, streamVars, TypeOK, Sent, Tried, ResponseClosed, LeftUnclosed
  <1> QED
    BY <1>1, <1>2, <1>3, <1>4, <1>5, <1>6, <1>7, <1>8, <1>9, <1>10, <1>11, <1>12, <1>13, <1>14,
       <1>15, <1>16
    DEF Next, Read

(* The invariant holds in every state of a call (request_json, stream_response). *)
THEOREM Invariance == Spec => []IInv
  BY InitInv, NextInv, PTL DEF Spec
-----------------------------------------------------------------------------
(***************************************************************************)
(* Every state of a call is of its types (the counters and buffers of      *)
(* request_json, stream_response, _send_stream and iter_events).           *)
(***************************************************************************)
THEOREM CallTypeCorrect == Spec => []TypeOK
  BY Invariance, PTL DEF IInv

(***************************************************************************)
(* A call sends its request once more than its retries at most, and gives  *)
(* up on trouble it may retry only after the last of them (the retry loops *)
(* of juried.transport).                                                   *)
(***************************************************************************)
THEOREM RetriesAreBounded == Spec => []ResendsBounded
  <1>1. IInv => ResendsBounded
    BY TransportAssumption DEF IInv, TypeOK, Sent, Tried, ResendsBounded
  <1> QED  BY <1>1, Invariance, PTL

(***************************************************************************)
(* A streamed response is open while its lines or its error body are read; *)
(* reading its lines closes it, whether that ends at [DONE], with the      *)
(* body, on an error or by a cancellation (the finally of stream_response),*)
(* and what is left unclosed is an error status whose body was not read.   *)
(***************************************************************************)
THEOREM StreamsAreClosed == Spec => []ResponseClosed
  BY Invariance, PTL DEF IInv
-----------------------------------------------------------------------------
(***************************************************************************)
(* A place after all the others is the last of them, and leaves their      *)
(* order as it is.                                                         *)
(***************************************************************************)
LEMMA RankedAfter ==
  ASSUME NEW m \in Nat, NEW S \in SUBSET (1 .. m)
  PROVE  /\ IsFiniteSet(S) /\ Cardinality(S) \in Nat
         /\ Cardinality(S \cup {m + 1}) = Cardinality(S) + 1
         /\ \A k \in 1 .. Cardinality(S) : Ranked(S \cup {m + 1}, k) = Ranked(S, k)
         /\ Ranked(S \cup {m + 1}, Cardinality(S) + 1) = {m + 1}
  <1> DEFINE T == S \cup {m + 1}
             Below(i) == {j \in S : j <= i}
             BelowT(i) == {j \in T : j <= i}
  <1>1. IsFiniteSet(S) /\ Cardinality(S) \in Nat
    <2>1. IsFiniteSet(1 .. m)
      BY FS_Interval
    <2> DEFINE I == 1 .. m
    <2> HIDE DEF I
    <2>2. IsFiniteSet(I) /\ S \in SUBSET I
      BY <2>1 DEF I
    <2> QED  BY <2>2, FS_Subset, FS_CardinalityType
  <1>2. m + 1 \notin S
    OBVIOUS
  <1>3. Cardinality(T) = Cardinality(S) + 1
    BY <1>1, <1>2, FS_AddElement
  <1>4. \A i \in S : BelowT(i) = Below(i)
    OBVIOUS
  <1>5. BelowT(m + 1) = T
    <2>1. \A j \in T : j <= m + 1
      OBVIOUS
    <2> HIDE DEF T
    <2> QED  BY <2>1
  <1>6. ASSUME NEW i \in S
        PROVE  Cardinality(Below(i)) \in Nat /\ Cardinality(Below(i)) <= Cardinality(S)
    <2>1. Below(i) \in SUBSET S
      OBVIOUS
    <2> HIDE DEF Below
    <2> QED  BY <1>1, <2>1, FS_Subset, FS_CardinalityType
  <1>7. \A k : Ranked(S, k) = {i \in S : Cardinality(Below(i)) = k}
    BY DEF Ranked
  <1>8. \A k : Ranked(T, k) = {i \in T : Cardinality(BelowT(i)) = k}
    BY DEF Ranked
  <1>9. \A i \in S : Cardinality(BelowT(i)) = Cardinality(Below(i))
    BY <1>4
  <1>10. Cardinality(BelowT(m + 1)) = Cardinality(S) + 1
    BY <1>3, <1>5
  <1> HIDE DEF Below, BelowT
  <1>11. ASSUME NEW k \in 1 .. Cardinality(S)
         PROVE  Ranked(T, k) = Ranked(S, k)
    <2>1. k # Cardinality(S) + 1
      BY <1>1
    <2>2. \A i \in T : Cardinality(BelowT(i)) = k <=> i \in S /\ Cardinality(Below(i)) = k
      BY <1>9, <1>10, <2>1
    <2> QED  BY <1>7, <1>8, <2>2
  <1>12. Ranked(T, Cardinality(S) + 1) = {m + 1}
    <2>1. \A i \in S : Cardinality(Below(i)) # Cardinality(S) + 1
      BY <1>1, <1>6
    <2>2. \A i \in T : Cardinality(BelowT(i)) = Cardinality(S) + 1 <=> i = m + 1
      BY <1>2, <1>9, <1>10, <2>1
    <2> QED  BY <1>8, <2>2
  <1> QED  BY <1>1, <1>3, <1>11, <1>12

(* Every place has its number: there is an n-th of at least n places. *)
LEMMA NthIsOne ==
  ASSUME NEW m \in Nat, NEW S \in SUBSET (1 .. m), NEW k \in 1 .. Cardinality(S)
  PROVE  Nth(S, k) \in S
  <1> DEFINE Numbered(n) == \A P \in SUBSET (1 .. n) : \A i \in 1 .. Cardinality(P) : Ranked(P, i) # {}
             T == {n \in Nat : Numbered(n)}
  <1>1. Numbered(0)
    <2>1. \A P \in SUBSET (1 .. 0) : P = {}
      OBVIOUS
    <2>2. Cardinality({}) = 0
      BY FS_EmptySet
    <2> QED  BY <2>1, <2>2
  <1>2. ASSUME NEW n \in Nat, Numbered(n)
        PROVE  Numbered(n + 1)
    <2> SUFFICES ASSUME NEW P \in SUBSET (1 .. (n + 1)), NEW i \in 1 .. Cardinality(P)
                 PROVE  Ranked(P, i) # {}
      OBVIOUS
    <2>1. CASE n + 1 \in P
      <3> DEFINE Q == P \ {n + 1}
      <3>1. Q \in SUBSET (1 .. n) /\ P = Q \cup {n + 1}
        BY <2>1
      <3> HIDE DEF Q
      <3>2. /\ Cardinality(Q) \in Nat /\ Cardinality(P) = Cardinality(Q) + 1
            /\ \A j \in 1 .. Cardinality(Q) : Ranked(P, j) = Ranked(Q, j)
            /\ Ranked(P, Cardinality(Q) + 1) = {n + 1}
        BY <3>1, RankedAfter
      <3>3. i \in 1 .. Cardinality(Q) \/ i = Cardinality(Q) + 1
        BY <3>2
      <3> QED  BY <1>2, <3>1, <3>2, <3>3
    <2>2. CASE n + 1 \notin P
      <3>1. P \in SUBSET (1 .. n)
        BY <2>2
      <3> QED  BY <1>2, <3>1
    <2> QED  BY <2>1, <2>2
  <1> HIDE DEF Numbered
  <1>3. 0 \in T /\ \A n \in Nat : n \in T => n + 1 \in T
    BY <1>1, <1>2
  <1> HIDE DEF T
  <1>4. m \in T
    BY <1>3, NatSet
  <1>5. Ranked(S, k) # {}
    BY <1>4 DEF T, Numbered
  <1>6. Nth(S, k) \in Ranked(S, k)
    BY <1>5 DEF Nth
  <1> QED  BY <1>6 DEF Ranked

(* What is at places depends on nothing else. *)
LEMMA AtSame ==
  ASSUME NEW m \in Nat, NEW S \in SUBSET (1 .. m), NEW f, NEW g, \A i \in S : f[i] = g[i]
  PROVE  At(f, S) = At(g, S)
  <1>1. \A k \in 1 .. Cardinality(S) : f[Nth(S, k)] = g[Nth(S, k)]
    BY NthIsOne
  <1> QED  BY <1>1 DEF At

(* Nothing is at no place. *)
LEMMA AtNone ==
  ASSUME NEW f
  PROVE  At(f, {}) = <<>>
  <1>1. Cardinality({}) = 0
    BY FS_EmptySet
  <1> QED  BY <1>1 DEF At

(* At one more place, after the others, is one more. *)
LEMMA AtAfter ==
  ASSUME NEW m \in Nat, NEW S \in SUBSET (1 .. m), NEW f, NEW g, NEW A,
         \A i \in S : f[i] = g[i], At(f, S) \in Seq(A), g[m + 1] \in A
  PROVE  At(g, S \cup {m + 1}) = Append(At(f, S), g[m + 1])
  <1> DEFINE T == S \cup {m + 1}
             n == Cardinality(S)
             q == At(f, S)
             r == Append(q, g[m + 1])
  <1>1. /\ n \in Nat /\ Cardinality(T) = n + 1
        /\ \A k \in 1 .. n : Ranked(T, k) = Ranked(S, k)
        /\ Ranked(T, n + 1) = {m + 1}
    BY RankedAfter
  <1>2. At(g, T) = [k \in 1 .. (n + 1) |-> g[Nth(T, k)]]
    BY <1>1 DEF At
  <1>3. \A k \in 1 .. n : Nth(T, k) = Nth(S, k) /\ Nth(S, k) \in S
    BY <1>1, NthIsOne DEF Nth
  <1>4. Nth(T, n + 1) = m + 1
    BY <1>1 DEF Nth
  <1>5. q \in Seq(A) /\ DOMAIN q = 1 .. n /\ \A k \in 1 .. n : q[k] = f[Nth(S, k)]
    BY DEF At
  <1> HIDE DEF q, n
  <1>6. Len(q) = n
    BY <1>1, <1>5
  <1>7. /\ r \in Seq(A) /\ DOMAIN r = 1 .. (n + 1)
        /\ r[n + 1] = g[m + 1] /\ \A k \in 1 .. n : r[k] = q[k]
    BY <1>1, <1>5, <1>6
  <1>8. r = [k \in 1 .. (n + 1) |-> r[k]]
    <2>1. r = [k \in DOMAIN r |-> r[k]]
      <3>1. q \in Seq(A) /\ g[m + 1] \in A
        BY <1>5
      <3> QED  BY <3>1
    <2> QED  BY <1>7, <2>1
  <1> HIDE DEF r, T
  <1>9. \A k \in 1 .. (n + 1) : g[Nth(T, k)] = r[k]
    <2> SUFFICES ASSUME NEW k \in 1 .. (n + 1) PROVE g[Nth(T, k)] = r[k]
      OBVIOUS
    <2>1. CASE k \in 1 .. n
      BY <1>3, <1>5, <1>7, <2>1
    <2>2. CASE k = n + 1
      BY <1>4, <1>7, <2>2
    <2> QED  BY <1>1, <2>1, <2>2
  <1>10. At(g, T) = r
    BY <1>2, <1>8, <1>9
  <1> QED  BY <1>10 DEF r, T, q
-----------------------------------------------------------------------------
(* The places before n + 1 are those up to n. *)
LEMMA DataPlaces ==
  ASSUME NEW n \in Nat, NEW ls
  PROVE  DataBefore(ls, n + 1) \in SUBSET (1 .. n)
  BY DEF DataBefore

(* The lines ls of which there are n, and one more. *)
LineAdded(ls, n, l, more) ==
  /\ n \in Nat /\ Len(ls) = n /\ more \in Seq(Lines) /\ Len(more) = n + 1 /\ more[n + 1] = l
  /\ \A i \in 1 .. n : more[i] = ls[i]
  /\ \A e \in 1 .. (n + 1) : DataBefore(more, e) = DataBefore(ls, e)
  /\ l = "blank" => DataBefore(more, n + 2) = {}
  /\ l \in DataLines => DataBefore(more, n + 2) = DataBefore(ls, n + 1) \cup {n + 1}
  /\ l = "comment" => DataBefore(more, n + 2) = DataBefore(ls, n + 1)

(* One more line leaves what was before it, and is one more data line or none. *)
LEMMA OneMoreLine ==
  ASSUME NEW ls \in Seq(Lines), NEW l \in Lines
  PROVE  LineAdded(ls, Len(ls), l, Append(ls, l))
  <1> DEFINE n == Len(ls)
             more == Append(ls, l)
  <1>1. /\ n \in Nat /\ more \in Seq(Lines) /\ Len(more) = n + 1 /\ more[n + 1] = l
        /\ \A i \in 1 .. n : more[i] = ls[i]
    OBVIOUS
  <1> HIDE DEF n, more
  <1>2. ASSUME NEW e \in 1 .. (n + 1)
        PROVE  DataBefore(more, e) = DataBefore(ls, e)
    <2>1. 1 .. (e - 1) \subseteq 1 .. n /\ \A i \in 1 .. (e - 1) : i .. (e - 1) \subseteq 1 .. n
      BY <1>1
    <2>2. \A i \in 1 .. (e - 1) : more[i] = ls[i] /\ \A j \in i .. (e - 1) : more[j] = ls[j]
      BY <1>1, <2>1
    <2> QED  BY <2>2 DEF DataBefore
  <1>3. /\ (n + 2) - 1 = n + 1 /\ 1 .. (n + 1) = 1 .. n \cup {n + 1}
        /\ \A i \in 1 .. n : i .. (n + 1) = i .. n \cup {n + 1} /\ i .. n \subseteq 1 .. n
        /\ (n + 1) .. (n + 1) = {n + 1} /\ (n + 1) - 1 = n
    BY <1>1
  <1>4. DataBefore(more, n + 2) =
          {i \in 1 .. (n + 1) : more[i] \in DataLines /\ \A j \in i .. (n + 1) : more[j] # "blank"}
    BY <1>3 DEF DataBefore
  <1>5. DataBefore(ls, n + 1) =
          {i \in 1 .. n : ls[i] \in DataLines /\ \A j \in i .. n : ls[j] # "blank"}
    BY <1>3 DEF DataBefore
  <1>6. CASE l = "blank"
    <2>1. \A i \in 1 .. (n + 1) : n + 1 \in i .. (n + 1)
      BY <1>1
    <2>2. DataBefore(more, n + 2) = {}
      BY <1>1, <1>4, <1>6, <2>1
    <2>3. "blank" \notin DataLines
      BY DEF DataLines, WholeEvents
    <2>4. LineAdded(ls, n, l, more)
      BY <1>1, <1>2, <1>6, <2>2, <2>3 DEF LineAdded, n
    <2> QED  BY <2>4 DEF n, more
  <1>7. CASE l # "blank"
    <2>1. ASSUME NEW i \in 1 .. n
          PROVE  i \in DataBefore(more, n + 2) <=> i \in DataBefore(ls, n + 1)
      <3>1. (\A j \in i .. (n + 1) : more[j] # "blank") <=> (\A j \in i .. n : ls[j] # "blank")
        BY <1>1, <1>3, <1>7
      <3> QED  BY <1>1, <1>3, <1>4, <1>5, <3>1
    <2>2. n + 1 \in DataBefore(more, n + 2) <=> l \in DataLines
      BY <1>1, <1>3, <1>4, <1>7
    <2>3. DataBefore(more, n + 2) \subseteq 1 .. n \cup {n + 1} /\ DataBefore(ls, n + 1) \subseteq 1 .. n
      BY <1>3, <1>4, <1>5
    <2>4. "comment" \notin DataLines
      BY DEF DataLines, WholeEvents
    <2>5. l \in DataLines => DataBefore(more, n + 2) = DataBefore(ls, n + 1) \cup {n + 1}
      BY <2>1, <2>2, <2>3
    <2>6. l \notin DataLines => DataBefore(more, n + 2) = DataBefore(ls, n + 1)
      BY <2>1, <2>2, <2>3
    <2>7. LineAdded(ls, n, l, more)
      BY <1>1, <1>2, <1>7, <2>4, <2>5, <2>6 DEF LineAdded, n
    <2> QED  BY <2>7 DEF n, more
  <1> QED  BY <1>6, <1>7
-----------------------------------------------------------------------------
(* The places of the events that are read before a stream ends. *)
Past(kind, ls) == {e \in Ends(kind, ls) : e <= Len(ls)}

(* The last place is that of an event if lines of one are pending. *)
LEMMA EndsPast ==
  ASSUME NEW kind \in Streams, NEW ls \in Seq(Lines)
  PROVE  /\ Past(kind, ls) \in SUBSET (1 .. Len(ls))
         /\ Ends(kind, ls) = Past(kind, ls) \cup
              (IF kind = "sse" /\ DataBefore(ls, Len(ls) + 1) # {} THEN {Len(ls) + 1} ELSE {})
  <1>1. Len(ls) \in Nat
    OBVIOUS
  <1>2. CASE kind = "ndjson"
    BY <1>1, <1>2 DEF Past, Ends
  <1>3. CASE kind = "sse"
    <2>1. Ends(kind, ls) = {e \in 1 .. (Len(ls) + 1) : /\ e = Len(ls) + 1 \/ ls[e] = "blank"
                                                       /\ DataBefore(ls, e) # {}}
      BY <1>3 DEF Ends
    <2>2. Past(kind, ls) = {e \in 1 .. Len(ls) : ls[e] = "blank" /\ DataBefore(ls, e) # {}}
      BY <1>1, <2>1 DEF Past
    <2>3. 1 .. (Len(ls) + 1) = 1 .. Len(ls) \cup {Len(ls) + 1}
      BY <1>1
    <2> QED  BY <1>1, <1>3, <2>1, <2>2, <2>3
  <1> QED  BY <1>2, <1>3 DEF Streams

(* One more line leaves the events before it. *)
LEMMA EventsStay ==
  ASSUME NEW kind \in Streams, NEW ls \in Seq(Lines), NEW l \in Lines, NEW e \in 1 .. (Len(ls) + 1),
         kind = "sse" \/ e <= Len(ls)
  PROVE  EventAt(kind, Append(ls, l), e) = EventAt(kind, ls, e)
  <1> DEFINE more == Append(ls, l)
             n == Len(ls)
  <1>1. /\ n \in Nat /\ \A i \in 1 .. n : more[i] = ls[i]
        /\ DataBefore(more, e) = DataBefore(ls, e)
    BY OneMoreLine DEF LineAdded
  <1>2. CASE kind = "ndjson"
    BY <1>1, <1>2 DEF EventAt, Payload
  <1>3. CASE kind = "sse"
    <2> DEFINE S == DataBefore(ls, e)
    <2>1. S \in SUBSET (1 .. n)
      <3>1. 1 .. (e - 1) \subseteq 1 .. n
        BY <1>1
      <3> QED  BY <3>1 DEF DataBefore
    <2> HIDE DEF S, more, n
    <2>2. At(more, S) = At(ls, S)
      <3>1. \A i \in S : more[i] = ls[i]
        BY <1>1, <2>1
      <3> QED  BY <1>1, <2>1, <3>1, AtSame
    <2> QED  BY <1>1, <1>3, <2>2 DEF EventAt, Payload, S, more
  <1> QED  BY <1>2, <1>3 DEF Streams

(* One more line leaves the events at the places before it. *)
LEMMA EventsAtStay ==
  ASSUME NEW kind \in Streams, NEW ls \in Seq(Lines), NEW l \in Lines,
         NEW S \in SUBSET (1 .. Len(ls))
  PROVE  EventsAt(kind, Append(ls, l), S) = EventsAt(kind, ls, S)
  <1>1. Len(ls) \in Nat
    OBVIOUS
  <1>2. \A e \in S : EventAt(kind, Append(ls, l), e) = EventAt(kind, ls, e)
    BY <1>1, EventsStay
  <1> QED  BY <1>2 DEF EventsAt

(* At one more place, after the others, is one more event. *)
LEMMA EventsAtAfter ==
  ASSUME NEW kind, NEW ls, NEW m \in Nat, NEW S \in SUBSET (1 .. m), NEW A,
         EventsAt(kind, ls, S) \in Seq(A), EventAt(kind, ls, m + 1) \in A
  PROVE  EventsAt(kind, ls, S \cup {m + 1}) = Append(EventsAt(kind, ls, S), EventAt(kind, ls, m + 1))
  <1> DEFINE T == S \cup {m + 1}
             f == [e \in S |-> EventAt(kind, ls, e)]
             g == [e \in T |-> EventAt(kind, ls, e)]
             x == EventAt(kind, ls, m + 1)
  <1>1. (\A e \in S : f[e] = g[e]) /\ g[m + 1] = x /\ x \in A
    OBVIOUS
  <1>2. At(f, S) \in Seq(A)
    BY DEF EventsAt
  <1>3. EventsAt(kind, ls, T) = At(g, T) /\ EventsAt(kind, ls, S) = At(f, S)
    BY DEF EventsAt
  <1> HIDE DEF f, g, x
  <1>4. At(g, S \cup {m + 1}) = Append(At(f, S), g[m + 1])
    <2>1. (\A e \in S : f[e] = g[e]) /\ g[m + 1] \in A
      BY <1>1
    <2> QED  BY <1>2, <2>1, AtAfter
  <1> QED  BY <1>1, <1>3, <1>4 DEF x

(* A stream without a stop is read to its end. *)
LEMMA ReadToEnd ==
  ASSUME NEW kind, NEW ls, \A e \in Ends(kind, ls) : EventAt(kind, ls, e) \notin Halts
  PROVE  /\ EventsOf(kind, ls) = EventsAt(kind, ls, Ends(kind, ls))
         /\ ResultOf(kind, ls) = Concluded(EventsAt(kind, ls, Ends(kind, ls)))
  <1>1. Stops(kind, ls) = {}
    BY DEF Stops
  <1>2. {e \in Ends(kind, ls) : \A s \in Stops(kind, ls) : e < s} = Ends(kind, ls)
    BY <1>1
  <1> QED  BY <1>1, <1>2 DEF EventsOf, ResultOf

(* One that stops at its last place is read up to there. *)
LEMMA ReadToStop ==
  ASSUME NEW kind, NEW ls, NEW m \in Nat, NEW S \in SUBSET (1 .. m), Ends(kind, ls) = S \cup {m + 1},
         \A e \in S : EventAt(kind, ls, e) \notin Halts, EventAt(kind, ls, m + 1) \in Halts
  PROVE  /\ EventsOf(kind, ls) = EventsAt(kind, ls, S)
         /\ ResultOf(kind, ls) = IF EventAt(kind, ls, m + 1) = "garbled" THEN "error"
                                 ELSE Concluded(EventsAt(kind, ls, S))
  <1>1. Stops(kind, ls) = {m + 1}
    BY DEF Stops
  <1>2. {e \in Ends(kind, ls) : \A s \in Stops(kind, ls) : e < s} = S
    <2>1. \A e \in S : e < m + 1
      OBVIOUS
    <2>2. ~(m + 1 < m + 1)
      OBVIOUS
    <2> QED  BY <1>1, <2>1, <2>2
  <1>3. EventsOf(kind, ls) = EventsAt(kind, ls, S)
    BY <1>2 DEF EventsOf
  <1>4. (\E s \in Stops(kind, ls) :
           EventAt(kind, ls, s) = "garbled" /\ \A t \in Stops(kind, ls) : s <= t)
        <=> EventAt(kind, ls, m + 1) = "garbled"
    BY <1>1
  <1> QED  BY <1>3, <1>4 DEF ResultOf
-----------------------------------------------------------------------------
(***************************************************************************)
(* What a stream has come to while it is read: the events up to the last   *)
(* blank line, none of which stops it, and the data lines after that one.  *)
(***************************************************************************)
SoFar ==
  /\ pc = "reading" => caller \in Streams
  /\ caller \in Streams /\ pc # "done" =>
       /\ events = EventsAt(caller, lines, Past(caller, lines))
       /\ \A e \in Past(caller, lines) : EventAt(caller, lines, e) \notin Halts
       /\ data = IF caller = "sse" THEN At(lines, DataBefore(lines, Len(lines) + 1)) ELSE <<>>
       /\ pc # "reading" => lines = <<>>

(* The counts are those of the last event that has both. *)
LastCounted == counted \in {0} \cup Counts /\ \A i \in Counts : i <= counted

(* What was read to its end, and what was broken off. *)
Whole ==
  /\ caller \in Streams /\ pc = "done" /\ trouble = "none" /\ result \notin {"raised", "cancelled"} =>
       events = EventsOf(caller, lines) /\ result = ResultOf(caller, lines)
  /\ trouble = "broken" => pc = "done" /\ result # "reply"

StreamInv == SoFar /\ LastCounted /\ Whole

(* One more event, and whether the counts are now its. *)
LEMMA TakenCounts ==
  ASSUME NEW e \in WholeEvents, events \in Seq(WholeEvents), LastCounted, Taken(e)
  PROVE  LastCounted'
  <1> DEFINE n == Len(events)
  <1>1. n \in Nat /\ counted \in {0} \cup Counts
    BY DEF LastCounted
  <1>2. /\ Len(events') = n + 1 /\ events'[n + 1] = e
        /\ \A i \in 1 .. n : events'[i] = events[i]
    BY DEF Taken
  <1>3. Counts' = Counts \cup (IF e = "counts" THEN {n + 1} ELSE {})
    <2>1. 1 .. (n + 1) = 1 .. n \cup {n + 1}
      BY <1>1
    <2>2. Counts = {i \in 1 .. n : events[i] = "counts"}
      BY DEF Counts
    <2>3. Counts' = {i \in 1 .. (n + 1) : events'[i] = "counts"}
      BY <1>2 DEF Counts
    <2> HIDE DEF n
    <2> QED  BY <1>2, <2>1, <2>2, <2>3
  <1>4. counted' = IF e = "counts" THEN n + 1 ELSE counted
    BY DEF Taken, CountsFrom
  <1>5. \A i \in Counts : i \in 1 .. n
    BY DEF Counts
  <1>6. CASE e = "counts"
    BY <1>1, <1>3, <1>4, <1>5, <1>6 DEF LastCounted
  <1>7. CASE e # "counts"
    BY <1>3, <1>4, <1>7 DEF LastCounted
  <1> QED  BY <1>6, <1>7

(* An event is none that stops the stream, or is one that does. *)
LEMMA EventType ==
  ASSUME NEW payload \in Seq(DataLines)
  PROVE  /\ Event(payload) \in WholeEvents \cup Halts
         /\ Event(payload) \in WholeEvents <=> Event(payload) \notin Halts
         /\ ~IsDone(payload) => Event(payload) = Decoded(payload)
         /\ ~IsDone(payload) => Event(payload) \in WholeEvents \cup {"garbled"}
         /\ IsDone(payload) => Event(payload) = "DONE"
  <1>1. Decoded(payload) \in WholeEvents \cup {"garbled"}
    BY DecodedType
  <1>2. "DONE" \notin WholeEvents /\ "garbled" \notin WholeEvents
    BY DEF WholeEvents
  <1> QED  BY <1>1, <1>2 DEF Event, Halts

(* Whether line l, after the lines ls, ends an event. *)
EndsEvent(kind, ls, l) ==
  IF kind = "ndjson" THEN l # "blank" ELSE l = "blank" /\ DataBefore(ls, Len(ls) + 1) # {}

(* One more line ends the event that it ends, and no other. *)
LEMMA PastAfter ==
  ASSUME NEW kind \in Streams, NEW ls \in Seq(Lines), NEW l \in Lines
  PROVE  /\ Past(kind, Append(ls, l))
              = Past(kind, ls) \cup (IF EndsEvent(kind, ls, l) THEN {Len(ls) + 1} ELSE {})
         /\ kind = "ndjson" \/ l = "blank" => Ends(kind, Append(ls, l)) = Past(kind, Append(ls, l))
         /\ EventAt(kind, Append(ls, l), Len(ls) + 1)
              = Event(IF kind = "ndjson" THEN <<l>> ELSE At(ls, DataBefore(ls, Len(ls) + 1)))
  <1> DEFINE more == Append(ls, l)
             m == Len(ls)
  <1>1. LineAdded(ls, m, l, more)
    BY OneMoreLine
  <1> HIDE DEF more, m
  <1>2. /\ m \in Nat /\ Len(ls) = m /\ Len(more) = m + 1 /\ more[m + 1] = l
        /\ \A i \in 1 .. m : more[i] = ls[i]
        /\ \A e \in 1 .. (m + 1) : DataBefore(more, e) = DataBefore(ls, e)
        /\ l = "blank" => DataBefore(more, m + 2) = {}
        /\ 1 .. (m + 1) = 1 .. m \cup {m + 1}
    BY <1>1 DEF LineAdded
  <1>3. CASE kind = "ndjson"
    <2>1. Ends(kind, ls) = {i \in 1 .. m : ls[i] # "blank"} /\ Past(kind, ls) = Ends(kind, ls)
      BY <1>2, <1>3 DEF Ends, Past
    <2>2. /\ Ends(kind, more) = {i \in 1 .. (m + 1) : more[i] # "blank"}
          /\ Past(kind, more) = Ends(kind, more)
      BY <1>2, <1>3 DEF Ends, Past
    <2>3. Past(kind, more) = Past(kind, ls) \cup (IF l # "blank" THEN {m + 1} ELSE {})
      BY <1>2, <2>1, <2>2
    <2>4. EventAt(kind, more, m + 1) = Event(<<l>>)
      BY <1>2, <1>3 DEF EventAt, Payload
    <2> QED  BY <1>3, <2>2, <2>3, <2>4 DEF more, m, EndsEvent
  <1>4. CASE kind = "sse"
    <2>1. Past(kind, ls) = {e \in 1 .. m : ls[e] = "blank" /\ DataBefore(ls, e) # {}}
      BY <1>2, <1>4 DEF Ends, Past
    <2>2. Past(kind, more) = {e \in 1 .. (m + 1) : more[e] = "blank" /\ DataBefore(more, e) # {}}
      BY <1>2, <1>4 DEF Ends, Past
    <2>3. Past(kind, more) = Past(kind, ls) \cup
            (IF l = "blank" /\ DataBefore(ls, m + 1) # {} THEN {m + 1} ELSE {})
      BY <1>2, <2>1, <2>2
    <2>4. l = "blank" => Ends(kind, more) = Past(kind, more)
      <3>1. more \in Seq(Lines) /\ Len(more) + 1 = m + 2
        BY <1>1, <1>2 DEF LineAdded
      <3>2. Ends(kind, more) = Past(kind, more) \cup
              (IF kind = "sse" /\ DataBefore(more, Len(more) + 1) # {} THEN {Len(more) + 1} ELSE {})
        BY <3>1, EndsPast
      <3>3. l = "blank" => DataBefore(more, Len(more) + 1) = {}
        BY <1>2, <3>1
      <3> QED  BY <3>2, <3>3
    <2>5. EventAt(kind, more, m + 1) = EventAt(kind, ls, m + 1)
      <3>1. Len(ls) \in Nat /\ m + 1 \in 1 .. (Len(ls) + 1)
        BY <1>2
      <3> QED  BY <1>4, <3>1, EventsStay DEF more
    <2>6. EventAt(kind, ls, m + 1) = Event(At(ls, DataBefore(ls, m + 1)))
      BY <1>4 DEF EventAt, Payload
    <2> QED  BY <1>4, <2>3, <2>4, <2>5, <2>6 DEF more, m, EndsEvent
  <1> QED  BY <1>3, <1>4 DEF Streams

(* One more line leaves the events there are. *)
LEMMA EventsCarried ==
  ASSUME NEW kind \in Streams, NEW ls \in Seq(Lines), NEW l \in Lines,
         \A e \in Past(kind, ls) : EventAt(kind, ls, e) \notin Halts
  PROVE  /\ EventsAt(kind, Append(ls, l), Past(kind, ls)) = EventsAt(kind, ls, Past(kind, ls))
         /\ \A e \in Past(kind, ls) : EventAt(kind, Append(ls, l), e) \notin Halts
  <1>1. Past(kind, ls) \in SUBSET (1 .. Len(ls)) /\ Len(ls) \in Nat
    BY EndsPast
  <1>2. ASSUME NEW e \in Past(kind, ls)
        PROVE  EventAt(kind, Append(ls, l), e) = EventAt(kind, ls, e)
    <2>1. e \in 1 .. (Len(ls) + 1) /\ e <= Len(ls)
      BY <1>1
    <2> QED  BY <2>1, EventsStay
  <1> QED  BY <1>1, <1>2, EventsAtStay

(***************************************************************************)
(* A line that ends an event: the event is the next of those read, or it   *)
(* stops the stream and is none of them.                                   *)
(***************************************************************************)
LEMMA EventRead ==
  ASSUME TypeOK, SoFar, pc = "reading", NEW l \in Lines, lines' = Append(lines, l), caller' = caller,
         Past(caller, lines') = Past(caller, lines) \cup {Len(lines) + 1},
         Ends(caller, lines') = Past(caller, lines'),
         NEW x, EventAt(caller, lines', Len(lines) + 1) = x
  PROVE  /\ x \in WholeEvents /\ x \notin Halts /\ events' = Append(events, x) =>
              /\ events' = EventsAt(caller', lines', Past(caller', lines'))
              /\ \A e \in Past(caller', lines') : EventAt(caller', lines', e) \notin Halts
         /\ x \in Halts /\ events' = events =>
              /\ events' = EventsOf(caller', lines')
              /\ ResultOf(caller', lines') = IF x = "garbled" THEN "error" ELSE Concluded(events)
  <1> DEFINE S == Past(caller, lines)
             m == Len(lines)
  <1>1. caller \in Streams /\ lines \in Seq(Lines) /\ m \in Nat /\ events \in Seq(WholeEvents)
    BY DEF SoFar, TypeOK
  <1>2. events = EventsAt(caller, lines, S) /\ \A e \in S : EventAt(caller, lines, e) \notin Halts
    BY <1>1 DEF SoFar
  <1>3. S \in SUBSET (1 .. m)
    BY <1>1, EndsPast
  <1>4. EventsAt(caller, lines', S) = events /\ \A e \in S : EventAt(caller, lines', e) \notin Halts
    BY <1>1, <1>2, EventsCarried
  <1>5. Past(caller, lines') = S \cup {m + 1} /\ Ends(caller, lines') = S \cup {m + 1}
    OBVIOUS
  <1> HIDE DEF S, m
  <1>6. EventAt(caller, lines', m + 1) = x
    BY DEF m
  <1>7. ASSUME x \in WholeEvents, x \notin Halts, events' = Append(events, x)
        PROVE  /\ events' = EventsAt(caller', lines', Past(caller', lines'))
               /\ \A e \in Past(caller', lines') : EventAt(caller', lines', e) \notin Halts
    <2> DEFINE k == caller
               ls == lines'
    <2>1. m \in Nat /\ S \in SUBSET (1 .. m) /\ EventsAt(k, ls, S) = events
          /\ events \in Seq(WholeEvents) /\ EventAt(k, ls, m + 1) = x
      BY <1>1, <1>3, <1>4, <1>6
    <2> HIDE DEF k, ls
    <2>2. EventsAt(k, ls, S) \in Seq(WholeEvents) /\ EventAt(k, ls, m + 1) \in WholeEvents
      BY <1>7, <2>1
    <2>3. EventsAt(k, ls, S \cup {m + 1}) = Append(EventsAt(k, ls, S), EventAt(k, ls, m + 1))
      BY <2>1, <2>2, EventsAtAfter
    <2>4. EventsAt(caller, lines', S \cup {m + 1}) = Append(events, x)
      BY <2>1, <2>3 DEF k, ls
    <2> QED  BY <1>4, <1>5, <1>6, <1>7, <2>4
  <1>8. ASSUME x \in Halts, events' = events
        PROVE  /\ events' = EventsOf(caller', lines')
               /\ ResultOf(caller', lines') = IF x = "garbled" THEN "error" ELSE Concluded(events)
    <2>1. EventAt(caller, lines', m + 1) \in Halts
      BY <1>6, <1>8
    <2>2. /\ EventsOf(caller, lines') = EventsAt(caller, lines', S)
          /\ ResultOf(caller, lines') = IF EventAt(caller, lines', m + 1) = "garbled" THEN "error"
                                        ELSE Concluded(EventsAt(caller, lines', S))
      BY <1>1, <1>3, <1>4, <1>5, <2>1, ReadToStop
    <2> QED  BY <1>4, <1>6, <1>8, <2>2
  <1> QED  BY <1>7, <1>8

(* A line that ends no event adds none. *)
LEMMA LineRead ==
  ASSUME TypeOK, SoFar, pc = "reading", NEW l \in Lines, lines' = Append(lines, l),
         UNCHANGED <<caller, pc, events>>, ~EndsEvent(caller, lines, l),
         data' = IF caller = "sse" THEN At(lines', DataBefore(lines', Len(lines') + 1)) ELSE <<>>
  PROVE  SoFar'
  <1>1. caller \in Streams /\ lines \in Seq(Lines)
    BY DEF SoFar, TypeOK
  <1>2. /\ events = EventsAt(caller, lines, Past(caller, lines))
        /\ \A e \in Past(caller, lines) : EventAt(caller, lines, e) \notin Halts
    BY <1>1 DEF SoFar
  <1>3. Past(caller, lines') = Past(caller, lines)
    <2>1. Past(caller, Append(lines, l))
            = Past(caller, lines) \cup (IF EndsEvent(caller, lines, l) THEN {Len(lines) + 1} ELSE {})
      BY <1>1, PastAfter
    <2> QED  BY <2>1
  <1>4. /\ EventsAt(caller, lines', Past(caller, lines)) = events
        /\ \A e \in Past(caller, lines) : EventAt(caller, lines', e) \notin Halts
    BY <1>1, <1>2, EventsCarried
  <1> QED  BY <1>1, <1>3, <1>4 DEF SoFar

(* The data lines kept are those since the last blank line. *)
LEMMA DataKept ==
  ASSUME TypeOK, SoFar, pc = "reading", caller = "sse"
  PROVE  /\ data = At(lines, DataBefore(lines, Len(lines) + 1))
         /\ data = <<>> <=> DataBefore(lines, Len(lines) + 1) = {}
  <1> DEFINE m == Len(lines)
             S == DataBefore(lines, m + 1)
  <1>1. data = At(lines, S)
    BY DEF SoFar, Streams
  <1>2. m \in Nat
    BY DEF TypeOK
  <1>3. S \in SUBSET (1 .. m)
    BY <1>2, DataPlaces
  <1> HIDE DEF S, m
  <1>4. IsFiniteSet(S) /\ Cardinality(S) \in Nat
    BY <1>2, <1>3, RankedAfter
  <1>5. Cardinality(S) = 0 <=> S = {}
    BY <1>4, FS_EmptySet
  <1>6. data = [n \in 1 .. Cardinality(S) |-> lines[Nth(S, n)]]
    BY <1>1 DEF At
  <1>7. data = <<>> => Cardinality(S) = 0
    <2>1. SUFFICES ASSUME data = <<>> PROVE Cardinality(S) = 0
      OBVIOUS
    <2>2. DOMAIN data = 1 .. Cardinality(S) /\ DOMAIN data = {}
      BY <1>6, <2>1
    <2> QED  BY <1>4, <2>2
  <1>8. S = {} => data = <<>>
    BY <1>1, AtNone
  <1> QED  BY <1>1, <1>5, <1>7, <1>8 DEF S, m

(* The counts stay those of the last event that has both. *)
LEMMA CountedStays ==
  ASSUME LastCounted, UNCHANGED <<events, counted>>
  PROVE  LastCounted'
  BY DEF LastCounted, Counts

(* A stream that is read on. *)
LEMMA StreamGoesOn ==
  ASSUME IInv, SoFar', LastCounted', pc' = "reading", trouble' = trouble, pc = "reading"
  PROVE  StreamInv'
  BY DEF StreamInv, Whole, IInv, Tried

(* A stream that is read to its end. *)
LEMMA StreamEnds ==
  ASSUME IInv, LastCounted', NEW r, Closed(r), pc = "reading", trouble' = trouble,
         events' = EventsOf(caller', lines'), r = ResultOf(caller', lines')
  PROVE  StreamInv'
  BY DEF StreamInv, SoFar, Whole, IInv, Tried, Closed, Ended

(* What one more event comes to. *)
LEMMA EventTaken ==
  ASSUME IInv, StreamInv, pc = "reading", UNCHANGED <<caller, trouble>>,
         NEW l \in Lines, lines' = Append(lines, l), caller = "ndjson" \/ l = "blank",
         EndsEvent(caller, lines, l),
         NEW payload \in Seq(DataLines), ~IsDone(payload),
         payload = IF caller = "ndjson" THEN <<l>> ELSE data,
         Yielded(Decoded(payload)),
         data' = IF caller = "sse" THEN At(lines', DataBefore(lines', Len(lines') + 1)) ELSE <<>>
  PROVE  StreamInv'
  <1> DEFINE x == Decoded(payload)
  <1>1. caller \in Streams /\ lines \in Seq(Lines) /\ TypeOK /\ SoFar /\ LastCounted
    BY DEF StreamInv, SoFar, IInv, TypeOK
  <1>2. payload = IF caller = "ndjson" THEN <<l>> ELSE At(lines, DataBefore(lines, Len(lines) + 1))
    BY <1>1, DataKept DEF Streams
  <1>3. /\ Past(caller, lines') = Past(caller, lines) \cup {Len(lines) + 1}
        /\ Ends(caller, lines') = Past(caller, lines')
        /\ EventAt(caller, lines', Len(lines) + 1) = Event(payload)
    BY <1>1, <1>2, PastAfter
  <1>4. Event(payload) = x /\ x \in WholeEvents \cup {"garbled"} /\ (x \in WholeEvents <=> x \notin Halts)
    BY EventType
  <1> HIDE DEF x
  <1>5. EventAt(caller, lines', Len(lines) + 1) = x
    BY <1>3, <1>4
  <1>6. /\ x \in WholeEvents /\ x \notin Halts /\ events' = Append(events, x) =>
             /\ events' = EventsAt(caller', lines', Past(caller', lines'))
             /\ \A e \in Past(caller', lines') : EventAt(caller', lines', e) \notin Halts
        /\ x \in Halts /\ events' = events =>
             /\ events' = EventsOf(caller', lines')
             /\ ResultOf(caller', lines') = IF x = "garbled" THEN "error" ELSE Concluded(events)
    BY <1>1, <1>3, <1>5, EventRead
  <1>7. Yielded(x)
    BY DEF x
  <1>8. CASE x = "garbled"
    <2>1. Closed("error") /\ UNCHANGED <<events, counted>>
      BY <1>7, <1>8 DEF Yielded
    <2>2. events' = EventsOf(caller', lines') /\ "error" = ResultOf(caller', lines')
      BY <1>6, <1>8, <2>1 DEF Halts
    <2>3. LastCounted'
      BY <1>1, <2>1, CountedStays
    <2> QED  BY <2>1, <2>2, <2>3, StreamEnds
  <1>9. CASE x # "garbled"
    <2>1. Taken(x) /\ UNCHANGED <<pc, open, result>> /\ x \in WholeEvents /\ x \notin Halts
      BY <1>4, <1>7, <1>9 DEF Yielded
    <2>2. LastCounted'
      BY <1>1, <2>1, TakenCounts DEF TypeOK
    <2>3. /\ events' = EventsAt(caller', lines', Past(caller', lines'))
          /\ \A e \in Past(caller', lines') : EventAt(caller', lines', e) \notin Halts
      BY <1>6, <2>1 DEF Taken
    <2>4. SoFar'
      BY <1>1, <2>1, <2>3 DEF SoFar
    <2> QED  BY <2>1, <2>2, <2>4, StreamGoesOn
  <1> QED  BY <1>8, <1>9

(* A line of JSON is blank, or the next event of the stream. *)
LEMMA ReadObjectStream == IInv /\ StreamInv /\ ReadObject => StreamInv'
  <1> SUFFICES ASSUME IInv, StreamInv, ReadObject PROVE StreamInv'
    OBVIOUS
  <1>1. PICK l \in WholeEvents \cup {"head", "blank"} :
          /\ lines' = Append(lines, l)
          /\ IF l = "blank" THEN UNCHANGED <<pc, open, result, events, counted>>
                            ELSE Yielded(Decoded(<<l>>))
    BY DEF ReadObject
  <1>2. /\ pc = "reading" /\ caller = "ndjson" /\ UNCHANGED <<caller, trouble, data>>
        /\ TypeOK /\ SoFar /\ LastCounted /\ l \in Lines
    BY DEF ReadObject, Reading, requestVars, StreamInv, IInv, Lines, DataLines, WholeEvents
  <1>3. data' = IF caller = "sse" THEN At(lines', DataBefore(lines', Len(lines') + 1)) ELSE <<>>
    BY <1>2 DEF SoFar, Streams
  <1>4. CASE l = "blank"
    <2>1. UNCHANGED <<pc, events, counted>> /\ ~EndsEvent(caller, lines, l)
      BY <1>1, <1>2, <1>4 DEF EndsEvent
    <2>2. SoFar'
      BY <1>1, <1>2, <1>3, <2>1, LineRead
    <2>3. LastCounted'
      BY <1>2, <2>1, CountedStays
    <2> QED  BY <1>2, <2>1, <2>2, <2>3, StreamGoesOn
  <1>5. CASE l # "blank"
    <2>1. l \in DataLines /\ l # "DONE"
      BY <1>5 DEF DataLines, WholeEvents
    <2>2. <<l>> \in Seq(DataLines) /\ ~IsDone(<<l>>) /\ EndsEvent(caller, lines, l)
      BY <1>2, <1>5, <2>1 DEF IsDone, EndsEvent
    <2>3. Yielded(Decoded(<<l>>)) /\ <<l>> = IF caller = "ndjson" THEN <<l>> ELSE data
      BY <1>1, <1>2, <1>5
    <2> QED  BY <1>1, <1>2, <1>3, <2>2, <2>3, EventTaken
  <1> QED  BY <1>4, <1>5

(* A line of server-sent events that is not blank adds its data, if it has any. *)
LEMMA KeepsData ==
  ASSUME TypeOK, SoFar, pc = "reading", caller = "sse", NEW l \in Lines, lines' = Append(lines, l),
         data' = IF l = "blank" THEN <<>> ELSE IF l \in DataLines THEN Append(data, l) ELSE data
  PROVE  data' = At(lines', DataBefore(lines', Len(lines') + 1))
  <1> DEFINE n == Len(lines)
             more == lines'
             S == DataBefore(lines, n + 1)
  <1>1. lines \in Seq(Lines)
    BY DEF TypeOK
  <1>2. LineAdded(lines, n, l, more)
    BY <1>1, OneMoreLine
  <1>3. data = At(lines, S) /\ data \in Seq(DataLines)
    BY DataKept DEF TypeOK
  <1> HIDE DEF n, more
  <1>4. /\ n \in Nat /\ Len(more) + 1 = n + 2 /\ more[n + 1] = l /\ \A i \in 1 .. n : lines[i] = more[i]
        /\ l = "blank" => DataBefore(more, n + 2) = {}
        /\ l \in DataLines => DataBefore(more, n + 2) = S \cup {n + 1}
        /\ l = "comment" => DataBefore(more, n + 2) = S
    BY <1>2 DEF LineAdded
  <1>5. S \in SUBSET (1 .. n)
    BY <1>4, DataPlaces
  <1> HIDE DEF S
  <1>6. \A i \in S : lines[i] = more[i]
    BY <1>4, <1>5
  <1>7. data' = At(more, DataBefore(more, n + 2))
    <2>1. CASE l = "blank"
      <3>1. At(more, {}) = <<>>
        BY AtNone
      <3> QED  BY <1>4, <2>1, <3>1
    <2>2. CASE l \in DataLines
      <3> DEFINE A == DataLines
                 f == lines
      <3>1. At(f, S) \in Seq(A) /\ more[n + 1] \in A /\ \A i \in S : f[i] = more[i]
        BY <1>3, <1>4, <1>6, <2>2
      <3> HIDE DEF A, f
      <3>2. At(more, S \cup {n + 1}) = Append(At(f, S), more[n + 1])
        <4>1. n \in Nat
          BY <1>4
        <4> QED  BY <4>1, <1>5, <3>1, AtAfter
      <3>3. l # "blank"
        BY <2>2 DEF DataLines, WholeEvents
      <3> QED  BY <1>3, <1>4, <2>2, <3>2, <3>3 DEF f
    <2>3. CASE l = "comment"
      <3>1. At(lines, S) = At(more, S)
        BY <1>4, <1>5, <1>6, AtSame
      <3>2. l # "blank" /\ l \notin DataLines
        BY <2>3 DEF DataLines, WholeEvents
      <3> QED  BY <1>3, <1>4, <2>3, <3>1, <3>2
    <2> QED  BY <2>1, <2>2, <2>3 DEF Lines
  <1> QED  BY <1>4, <1>7 DEF more

(* A line that is not blank goes into the event that is being read. *)
LEMMA ReadFieldStream ==
  ASSUME IInv, StreamInv, Reading, caller = "sse", NEW l \in Lines, l # "blank",
         lines' = Append(lines, l), data' = IF l \in DataLines THEN Append(data, l) ELSE data,
         UNCHANGED <<caller, pc, requestVars, events, counted>>
  PROVE  StreamInv'
  <1>1. /\ pc = "reading" /\ TypeOK /\ SoFar /\ LastCounted /\ UNCHANGED <<caller, pc, events, trouble>>
        /\ ~EndsEvent(caller, lines, l)
    BY DEF Reading, StreamInv, IInv, requestVars, EndsEvent
  <1>2. data' = At(lines', DataBefore(lines', Len(lines') + 1))
    BY <1>1, KeepsData
  <1>3. SoFar'
    BY <1>1, <1>2, LineRead
  <1>4. LastCounted'
    BY <1>1, CountedStays
  <1> QED  BY <1>1, <1>3, <1>4, StreamGoesOn

(* A blank line ends the event being read, if there is one. *)
LEMMA ReadBlankStream == IInv /\ StreamInv /\ ReadBlank => StreamInv'
  <1> SUFFICES ASSUME IInv, StreamInv, ReadBlank PROVE StreamInv'
    OBVIOUS
  <1>1. /\ pc = "reading" /\ caller = "sse" /\ UNCHANGED <<caller, trouble>> /\ data' = <<>>
        /\ lines' = Append(lines, "blank") /\ "blank" \in Lines
        /\ TypeOK /\ SoFar /\ LastCounted
    BY DEF ReadBlank, Reading, requestVars, StreamInv, IInv, Lines
  <1>2. data' = At(lines', DataBefore(lines', Len(lines') + 1))
    BY <1>1, KeepsData
  <1>3. /\ data = At(lines, DataBefore(lines, Len(lines) + 1))
        /\ EndsEvent(caller, lines, "blank") <=> data # <<>>
    BY <1>1, DataKept DEF EndsEvent
  <1>4. data \in Seq(DataLines) /\ lines \in Seq(Lines) /\ caller \in Streams
    BY <1>1 DEF TypeOK, Streams
  <1>5. CASE data = <<>>
    <2>1. UNCHANGED <<pc, events, counted>>
      <3>1. UNCHANGED <<pc, open, result, events, counted>>
        BY <1>5 DEF ReadBlank, IsDone
      <3> QED  BY <3>1
    <2>2. SoFar'
      BY <1>1, <1>2, <1>3, <1>5, <2>1, LineRead
    <2>3. LastCounted'
      BY <1>1, <2>1, CountedStays
    <2> QED  BY <1>1, <2>1, <2>2, <2>3, StreamGoesOn
  <1>6. CASE IsDone(data)
    <2>1. Closed(Concluded(events)) /\ UNCHANGED <<events, counted>> /\ data # <<>>
      BY <1>6 DEF ReadBlank, IsDone
    <2>2. /\ Past(caller, lines') = Past(caller, lines) \cup {Len(lines) + 1}
          /\ Ends(caller, lines') = Past(caller, lines')
          /\ EventAt(caller, lines', Len(lines) + 1) = Event(data)
      BY <1>1, <1>3, <1>4, <2>1, PastAfter
    <2>3. Event(data) = "DONE"
      BY <1>6 DEF Event
    <2>4. EventAt(caller, lines', Len(lines) + 1) = "DONE" /\ "DONE" \in Halts
      BY <2>2, <2>3 DEF Halts
    <2>5. /\ events' = EventsOf(caller', lines')
          /\ ResultOf(caller', lines') = IF "DONE" = "garbled" THEN "error" ELSE Concluded(events)
      BY <1>1, <2>1, <2>2, <2>4, EventRead
    <2>6. LastCounted'
      BY <1>1, <2>1, CountedStays
    <2> QED  BY <1>1, <2>1, <2>5, <2>6, StreamEnds
  <1>7. CASE data # <<>> /\ ~IsDone(data)
    <2>1. Yielded(Decoded(data)) /\ EndsEvent(caller, lines, "blank")
      BY <1>3, <1>7 DEF ReadBlank
    <2>2. /\ data = IF caller = "ndjson" THEN <<"blank">> ELSE data
          /\ data' = IF caller = "sse" THEN At(lines', DataBefore(lines', Len(lines') + 1)) ELSE <<>>
      BY <1>1, <1>2
    <2> QED  BY <1>1, <1>4, <1>7, <2>1, <2>2, EventTaken
  <1> QED  BY <1>5, <1>6, <1>7

(* The end of the body ends the event being read, and the stream. *)
LEMMA EndOfStreamStream == IInv /\ StreamInv /\ EndOfStream => StreamInv'
  <1> SUFFICES ASSUME IInv, StreamInv, EndOfStream PROVE StreamInv'
    OBVIOUS
  <1> DEFINE k == caller
             ls == lines
             m == Len(ls)
             S == Past(k, ls)
             x == EventAt(k, ls, m + 1)
  <1>1. /\ pc = "reading" /\ UNCHANGED <<caller, trouble, lines>> /\ k \in Streams
        /\ TypeOK /\ SoFar /\ LastCounted
        /\ ls \in Seq(Lines) /\ m \in Nat /\ events \in Seq(WholeEvents) /\ data \in Seq(DataLines)
    BY DEF EndOfStream, requestVars, StreamInv, SoFar, IInv, TypeOK
  <1>2. events = EventsAt(k, ls, S) /\ \A e \in S : EventAt(k, ls, e) \notin Halts
    BY <1>1 DEF SoFar
  <1>3. /\ S \in SUBSET (1 .. m)
        /\ Ends(k, ls) = S \cup (IF k = "sse" /\ DataBefore(ls, m + 1) # {} THEN {m + 1} ELSE {})
    BY <1>1, EndsPast
  <1>4. CASE data = <<>>
    <2>1. Closed(Concluded(events)) /\ UNCHANGED <<events, counted>>
      BY <1>4 DEF EndOfStream, NothingPending
    <2>2. Ends(k, ls) = S
      BY <1>1, <1>3, <1>4, DataKept
    <2> HIDE DEF S, k, ls
    <2>3. events = EventsOf(k, ls) /\ Concluded(events) = ResultOf(k, ls)
      BY <1>2, <2>2, ReadToEnd
    <2>4. events' = EventsOf(caller', lines') /\ Concluded(events) = ResultOf(caller', lines')
      BY <1>1, <2>1, <2>3 DEF k, ls
    <2>5. LastCounted'
      BY <1>1, <2>1, CountedStays
    <2> QED  BY <1>1, <2>1, <2>4, <2>5, StreamEnds
  <1>5. CASE data # <<>>
    <2>1. caller = "sse"
      BY <1>1, <1>5 DEF SoFar, Streams
    <2>2. data = At(ls, DataBefore(ls, m + 1)) /\ DataBefore(ls, m + 1) # {}
      BY <1>1, <1>5, <2>1, DataKept
    <2>3. Ends(k, ls) = S \cup {m + 1} /\ x = Event(data)
      BY <1>3, <2>1, <2>2 DEF EventAt, Payload
    <2>4. /\ x \in WholeEvents \cup Halts /\ (x \in WholeEvents <=> x \notin Halts)
          /\ ~IsDone(data) => x = Decoded(data)
          /\ IsDone(data) => x = "DONE"
      BY <1>1, <2>3, EventType
    <2> HIDE DEF S, k, ls, m, x
    <2>5. x = EventAt(k, ls, m + 1)
      BY DEF x
    <2>6. CASE x \in Halts
      <3>1. /\ EventsOf(k, ls) = events
            /\ ResultOf(k, ls) = IF x = "garbled" THEN "error" ELSE Concluded(events)
        <4>1. EventAt(k, ls, m + 1) \in Halts
          BY <2>5, <2>6
        <4>2. /\ EventsOf(k, ls) = EventsAt(k, ls, S)
              /\ ResultOf(k, ls) = IF EventAt(k, ls, m + 1) = "garbled" THEN "error"
                                   ELSE Concluded(EventsAt(k, ls, S))
          BY <1>1, <1>2, <1>3, <2>3, <4>1, ReadToStop
        <4> QED  BY <1>2, <2>5, <4>2
      <3>2. UNCHANGED <<events, counted>> /\ Closed(ResultOf(k, ls))
        <4>1. CASE IsDone(data)
          <5>1. Closed(Concluded(events)) /\ UNCHANGED <<events, counted>>
            BY <4>1 DEF EndOfStream, NothingPending
          <5> QED  BY <2>4, <3>1, <4>1, <5>1
        <4>2. CASE ~IsDone(data)
          <5>1. Decoded(data) = "garbled" /\ ~NothingPending(data)
            <6>1. Decoded(data) = x
              BY <2>4, <4>2
            <6>2. Decoded(data) \in WholeEvents \cup {"garbled"} /\ "DONE" \notin WholeEvents
              BY <1>1, DecodedType DEF WholeEvents
            <6> QED  BY <1>5, <2>6, <4>2, <6>1, <6>2 DEF Halts, NothingPending
          <5>2. Closed("error") /\ UNCHANGED <<events, counted>>
            BY <5>1 DEF EndOfStream
          <5> QED  BY <2>4, <3>1, <4>2, <5>1, <5>2
        <4> QED  BY <4>1, <4>2
      <3>3. events' = EventsOf(caller', lines') /\ ResultOf(k, ls) = ResultOf(caller', lines')
        BY <1>1, <3>1, <3>2 DEF k, ls
      <3>4. LastCounted'
        BY <1>1, <3>2, CountedStays
      <3> QED  BY <1>1, <3>2, <3>3, <3>4, StreamEnds
    <2>7. CASE x \notin Halts
      <3>1. ~IsDone(data) /\ x = Decoded(data) /\ x \in WholeEvents /\ x # "garbled"
        BY <2>4, <2>7 DEF Halts
      <3>2. Taken(x) /\ Closed(Concluded(Append(events, x)))
        BY <1>5, <3>1 DEF EndOfStream, NothingPending
      <3>3. EventsAt(k, ls, S) \in Seq(WholeEvents) /\ EventAt(k, ls, m + 1) \in WholeEvents
        BY <1>1, <1>2, <2>5, <3>1
      <3>4. EventsAt(k, ls, S \cup {m + 1}) = Append(EventsAt(k, ls, S), EventAt(k, ls, m + 1))
        BY <1>1, <1>3, <3>3, EventsAtAfter
      <3>5. \A e \in Ends(k, ls) : EventAt(k, ls, e) \notin Halts
        BY <1>2, <2>3, <2>5, <2>7
      <3>6. EventsOf(k, ls) = Append(events, x) /\ ResultOf(k, ls) = Concluded(Append(events, x))
        BY <1>2, <2>3, <2>5, <3>4, <3>5, ReadToEnd
      <3>7. events' = EventsOf(caller', lines') /\ Concluded(Append(events, x)) = ResultOf(caller', lines')
        BY <1>1, <3>2, <3>6 DEF Taken, k, ls
      <3>8. LastCounted'
        BY <1>1, <3>1, <3>2, TakenCounts
      <3> QED  BY <1>1, <3>2, <3>7, <3>8, StreamEnds
    <2> QED  BY <2>6, <2>7
  <1> QED  BY <1>4, <1>5
-----------------------------------------------------------------------------
(* Nothing of a stream has been read at the start. *)
LEMMA InitStream == Init => StreamInv
  <1> SUFFICES ASSUME Init PROVE StreamInv
    OBVIOUS
  <1>1. SoFar
    <2> SUFFICES ASSUME caller \in Streams PROVE SoFar
      BY DEF Init, SoFar
    <2> DEFINE k == caller
               ls == lines
    <2>1. k \in Streams /\ ls = <<>> /\ ls \in Seq(Lines) /\ Len(ls) = 0
      BY DEF Init
    <2> HIDE DEF k, ls
    <2>2. Past(k, ls) = {}
      <3>1. Past(k, ls) \in SUBSET (1 .. Len(ls))
        BY <2>1, EndsPast
      <3> QED  BY <2>1, <3>1
    <2>3. DataBefore(ls, Len(ls) + 1) = {}
      BY <2>1 DEF DataBefore
    <2>4. EventsAt(k, ls, {}) = <<>> /\ At(ls, {}) = <<>>
      BY AtNone DEF EventsAt
    <2> QED  BY <2>1, <2>2, <2>3, <2>4 DEF Init, SoFar, k, ls
  <1>2. LastCounted
    BY DEF Init, LastCounted, Counts
  <1>3. Whole
    BY DEF Init, Whole
  <1> QED  BY <1>1, <1>2, <1>3 DEF StreamInv

(* A call whose stream is not read yet goes on. *)
LEMMA NotRead ==
  ASSUME StreamInv, pc \notin {"reading", "done"}, UNCHANGED <<caller, streamVars>>, pc' # "done",
         pc' = "reading" => caller \in Streams, trouble' # "broken"
  PROVE  StreamInv'
  BY DEF StreamInv, SoFar, LastCounted, Counts, Whole, streamVars

(* A call ends without a stream that was read to its end. *)
LEMMA NotWhole ==
  ASSUME StreamInv, UNCHANGED <<caller, streamVars>>, NEW r, Ended(r),
         caller \in Streams /\ trouble' = "none" => r \in {"raised", "cancelled"},
         trouble' = "broken" => r # "reply"
  PROVE  StreamInv'
  BY DEF StreamInv, SoFar, LastCounted, Counts, Whole, streamVars, Ended

(* Trouble leaves no stream. *)
LEMMA TroubledStream ==
  ASSUME IInv, StreamInv, NEW t \in Troubles, Troubled(t), pc \in {"sent", "served", "refusing"}
  PROVE  StreamInv'
  <1>1. trouble' = t /\ t \notin {"none", "broken"} /\ UNCHANGED <<caller, streamVars>>
    BY DEF Troubled, Troubles, RetryableTroubles, ErrorStatuses
  <1>2. CASE RetriesAfter(t)
    BY <1>1, <1>2, NotRead DEF Troubled
  <1>3. CASE ~RetriesAfter(t)
    <2>1. Ended("error")
      BY <1>3 DEF Troubled
    <2> QED  BY <1>1, <2>1, NotWhole
  <1> QED  BY <1>2, <1>3

(* Every step keeps what a stream has come to. *)
LEMMA StreamStep == IInv /\ StreamInv /\ [Next]_vars => StreamInv'
  <1> SUFFICES ASSUME IInv, StreamInv, [Next]_vars PROVE StreamInv'
    OBVIOUS
  <1> DEFINE NotBroken == pc # "done" => trouble # "broken"
  <1>0. NotBroken /\ (pc = "reading" => trouble = "none")
    BY DEF StreamInv, Whole, IInv, Tried
  <1>1. CASE NoKey
    BY <1>0, <1>1, NotWhole DEF NoKey, requestVars, Streams
  <1>2. CASE Send \/ Serve \/ Backoff
    <2>1. /\ pc \notin {"reading", "done"} /\ pc' \notin {"reading", "done"}
          /\ UNCHANGED <<caller, streamVars, trouble>>
      BY <1>2 DEF Send, Serve, Backoff, requestVars
    <2> QED  BY <1>0, <2>1, NotRead
  <1>3. CASE Unreachable \/ BadStatus \/ StatusRead
    <2>1. (pc = "refusing" => trouble \in Troubles) /\ ErrorStatuses \in SUBSET Troubles
      BY DEF IInv, Tried, Troubles
    <2>2. "unreachable" \in Troubles
      BY DEF Troubles, RetryableTroubles
    <2> QED  BY <1>3, <2>1, <2>2, TroubledStream DEF Unreachable, BadStatus, StatusRead
  <1>4. CASE UnreadableBody \/ UnreadableStatus
    <2>1. /\ Ended("raised") /\ UNCHANGED <<caller, streamVars>>
          /\ trouble' = "broken" => trouble = "broken" /\ pc # "done"
      BY <1>4 DEF UnreadableBody, UnreadableStatus, requestVars
    <2> QED  BY <1>0, <2>1, NotWhole
  <1>5. CASE Answered
    <2>1. PICK r : Ended(r)
      BY <1>5 DEF Answered
    <2> QED  BY <1>5, <2>1, NotWhole DEF Answered
  <1>6. CASE Opened \/ StatusOpened
    BY <1>6, NotRead DEF Opened, StatusOpened, ErrorStatuses
  <1>7. CASE ReadObject
    BY <1>7, ReadObjectStream
  <1>8. CASE ReadData
    <2>1. PICK l \in DataLines : lines' = Append(lines, l) /\ data' = Append(data, l)
      BY <1>8 DEF ReadData
    <2>2. l \in Lines /\ l # "blank"
      BY DEF Lines, DataLines, WholeEvents
    <2> QED  BY <1>8, <2>1, <2>2, ReadFieldStream DEF ReadData
  <1>9. CASE ReadComment
    <2>1. "comment" \in Lines /\ "comment" \notin DataLines
      BY DEF Lines, DataLines, WholeEvents
    <2> QED  BY <1>9, <2>1, ReadFieldStream DEF ReadComment
  <1>10. CASE ReadBlank
    BY <1>10, ReadBlankStream
  <1>11. CASE EndOfStream
    BY <1>11, EndOfStreamStream
  <1>12. CASE BreakOff
    BY <1>12, NotWhole DEF BreakOff, Closed
  <1>13. CASE Cancel
    <2>1. Ended("cancelled") /\ UNCHANGED <<caller, streamVars, trouble>> /\ pc # "done"
      BY <1>13 DEF Cancel, Closed, requestVars
    <2> QED  BY <1>0, <2>1, NotWhole
  <1>14. CASE UNCHANGED vars
    BY <1>14 DEF vars, requestVars, streamVars, StreamInv, SoFar, LastCounted, Counts, Whole
  <1> QED
    BY <1>1, <1>2, <1>3, <1>4, <1>5, <1>6, <1>7, <1>8, <1>9, <1>10, <1>11, <1>12, <1>13, <1>14
    DEF Next

(***************************************************************************)
(* The events of a streamed reply are those of the whole stream, up to     *)
(* [DONE] or its end, and its counts those of the last event with both; a  *)
(* stream that broke off is no reply (_send_stream over iter_events).      *)
(***************************************************************************)
THEOREM RepliesAreWhole == Spec => []ReplyIsWholeStream
  <1>1. StreamInv => ReplyIsWholeStream
    BY DEF StreamInv, LastCounted, Whole, ReplyIsWholeStream
  <1>2. Spec => []StreamInv
    BY InitStream, StreamStep, Invariance, PTL DEF Spec
  <1> QED  BY <1>1, <1>2, PTL
=============================================================================
