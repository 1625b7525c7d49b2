---------------------------- MODULE LabelsProofs ----------------------------
(***************************************************************************)
(* Proofs about Labels, for every number of runs, of sessions at the desk  *)
(* and of responses, and every size of the queue: that the queue has each  *)
(* response once, that a run queues what it flagged, that nothing is lost  *)
(* and nothing labelled twice unless commands overlap or one is killed.    *)
(*                                                                         *)
(* What a fold over a sequence computes is proved from its history: the    *)
(* values of the fold after each of its steps, which exist by induction,   *)
(* and about which an invariant is again proved by induction. As no        *)
(* theorem that takes an operator can be used, the induction is over a     *)
(* set of numbers (NatSet), and the fold goes over a set of indices, in    *)
(* the order of its maximum, as the definition of FoldLeft does.           *)
(***************************************************************************)
EXTENDS Labels, SequenceTheorems, WellFoundedInduction, Counting

(***************************************************************************)
(* The responses there may be, what is flagged of them, and the entries of *)
(* the queue.                                                              *)
(***************************************************************************)
Id == UNION {{o.runs[i].id : i \in DOMAIN o.runs} : o \in Outcomes}
Reason == {"split", "boundary", "check_disagreed", "low_confidence", "sampled"}
Flag == [id : Id, passed : BOOLEAN, reasons : SUBSET Reason]
Entry == [id : Id, passed : BOOLEAN, reasons : SUBSET Reason, run : Run]

-----------------------------------------------------------------------------
(* merge_queue makes entries of entries. *)
LEMMA UnseenType ==
  ASSUME NEW q \in Seq(Entry), NEW e \in Entry
  PROVE  AddUnseen(q, e) \in Seq(Entry)
BY DEF AddUnseen

(* merge_queue, entry by entry. *)
LEMMA MergedHistory ==
  ASSUME NEW f \in Seq(Entry), NEW s \in Seq(Entry)
  PROVE  \E h \in [0 .. Len(s) -> Seq(Entry)] :
           /\ h[0] = f /\ Merged(f, s) = h[Len(s)]
           /\ \A k \in 1 .. Len(s) : h[k] = AddUnseen(h[k - 1], s[k])
<1> DEFINE n == Len(s)
           step == [p \in Seq(Entry) \X (1 .. n) |-> AddUnseen(p[1], s[p[2]])]
           Fold(iter) == iter = [t \in SUBSET (1 .. n) |->
                                   IF t = {} THEN f ELSE AddUnseen(iter[t \ {Max(t)}], s[Max(t)])]
<1>1. n \in Nat /\ DOMAIN s = 1 .. n
  OBVIOUS
<1>2. step \in [Seq(Entry) \X (1 .. n) -> Seq(Entry)]
  <2>1. \A p \in Seq(Entry) \X (1 .. n) : p[1] \in Seq(Entry) /\ s[p[2]] \in Entry
    OBVIOUS
  <2>2. \A p \in Seq(Entry) \X (1 .. n) : AddUnseen(p[1], s[p[2]]) \in Seq(Entry)
    BY <2>1, UnseenType
  <2>3. QED
    BY <2>2
<1>3. PICK some \in [SUBSET (1 .. n) -> Seq(Entry)] : Iterates(some, step, f, n)
  <2> HIDE DEF step, n
  <2>1. QED
    BY <1>1, <1>2, FoldExists
<1>4. Fold(some)
  <2>1. ASSUME NEW t \in SUBSET (1 .. n), t # {}
        PROVE  some[t] = AddUnseen(some[t \ {Max(t)}], s[Max(t)])
    <3>1. Max(t) \in 1 .. n
      BY <1>1, <2>1, MaxIsOne
    <3>2. some[t] = step[<<some[t \ {Max(t)}], Max(t)>>] /\ some[t \ {Max(t)}] \in Seq(Entry)
      BY <1>3, <2>1 DEF Iterates
    <3>3. QED
      BY <3>1, <3>2
  <2>2. some[{}] = f
    BY <1>3 DEF Iterates
  <2>3. QED
    BY <1>3, <2>1, <2>2
<1> DEFINE iter == CHOOSE iter : Fold(iter)
           h == [k \in 0 .. n |-> iter[1 .. k]]
<1>5. Fold(iter)
  BY <1>4
<1>6. Merged(f, s) = iter[1 .. n]
  BY <1>1 DEF Merged, FoldLeft, MapThenFoldSet
<1> HIDE DEF iter
<1>7. h[0] = f
  BY <1>1, <1>5
<1>8. ASSUME NEW k \in 1 .. n
      PROVE  h[k] = AddUnseen(h[k - 1], s[k])
  <2>1. /\ 1 .. k \in SUBSET (1 .. n) /\ 1 .. k # {} /\ Max(1 .. k) = k
        /\ (1 .. k) \ {k} = 1 .. (k - 1)
    BY <1>1, FirstIndices
  <2>2. iter[1 .. k] = AddUnseen(iter[1 .. (k - 1)], s[k])
    BY <1>5, <2>1
  <2>3. h[k] = iter[1 .. k] /\ h[k - 1] = iter[1 .. (k - 1)]
    BY <1>1
  <2>4. QED
    BY <2>2, <2>3
<1>9. h = [k \in 0 .. n |-> h[k]] /\ h[n] = iter[1 .. n]
  BY <1>1
<1> HIDE DEF h
<1>10. \A k \in 0 .. n : h[k] \in Seq(Entry)
  <2>1. \A k \in 1 .. n : s[k] \in Entry
    BY <1>1
  <2>2. ASSUME NEW k \in 1 .. n, h[k - 1] \in Seq(Entry)
        PROVE  h[k] \in Seq(Entry)
    <3>1. h[k] = AddUnseen(h[k - 1], s[k])
      BY <1>8
    <3>2. QED
      BY <2>1, <2>2, <3>1, UnseenType
  <2>3. QED
    BY <1>1, <1>7, <2>2, AllAlong
<1>11. h \in [0 .. n -> Seq(Entry)]
  BY <1>9, <1>10
<1>12. QED
  BY <1>6, <1>7, <1>8, <1>9, <1>11

(* build_queue makes flags of flags. *)
LEMMA FlaggedType ==
  ASSUME NEW q \in Seq(Flag), NEW e \in Flag
  PROVE  AddFlagged(q, e) \in Seq(Flag)
<1>1. ASSUME NEW i \in 1 .. Len(q)
      PROVE  [q[i] EXCEPT !.reasons = @ \cup e.reasons] \in Flag
  <2>1. q[i] \in Flag
    OBVIOUS
  <2>2. QED
    BY <2>1 DEF Flag
<1>2. CASE e.id \in Ids(q)
  BY <1>1, <1>2 DEF AddFlagged
<1>3. CASE e.id \notin Ids(q)
  BY <1>3 DEF AddFlagged
<1>4. QED
  BY <1>2, <1>3

(* build_queue, response by response. *)
LEMMA QueuedHistory ==
  ASSUME NEW s \in Seq(Flag)
  PROVE  \E h \in [0 .. Len(s) -> Seq(Flag)] :
           /\ h[0] = <<>> /\ FoldLeft(AddFlagged, <<>>, s) = h[Len(s)]
           /\ \A k \in 1 .. Len(s) : h[k] = AddFlagged(h[k - 1], s[k])
<1> DEFINE n == Len(s)
           step == [p \in Seq(Flag) \X (1 .. n) |-> AddFlagged(p[1], s[p[2]])]
           Fold(iter) == iter = [t \in SUBSET (1 .. n) |->
                                   IF t = {} THEN <<>> ELSE AddFlagged(iter[t \ {Max(t)}], s[Max(t)])]
<1>1. n \in Nat /\ DOMAIN s = 1 .. n
  OBVIOUS
<1>2. step \in [Seq(Flag) \X (1 .. n) -> Seq(Flag)]
  <2>1. \A p \in Seq(Flag) \X (1 .. n) : p[1] \in Seq(Flag) /\ s[p[2]] \in Flag
    OBVIOUS
  <2>2. \A p \in Seq(Flag) \X (1 .. n) : AddFlagged(p[1], s[p[2]]) \in Seq(Flag)
    BY <2>1, FlaggedType
  <2>3. QED
    BY <2>2
<1>3. PICK some \in [SUBSET (1 .. n) -> Seq(Flag)] : Iterates(some, step, <<>>, n)
  <2>1. <<>> \in Seq(Flag)
    OBVIOUS
  <2> HIDE DEF step, n
  <2>2. QED
    BY <1>1, <1>2, <2>1, FoldExists
<1>4. Fold(some)
  <2>1. ASSUME NEW t \in SUBSET (1 .. n), t # {}
        PROVE  some[t] = AddFlagged(some[t \ {Max(t)}], s[Max(t)])
    <3>1. Max(t) \in 1 .. n
      BY <1>1, <2>1, MaxIsOne
    <3>2. some[t] = step[<<some[t \ {Max(t)}], Max(t)>>] /\ some[t \ {Max(t)}] \in Seq(Flag)
      BY <1>3, <2>1 DEF Iterates
    <3>3. QED
      BY <3>1, <3>2
  <2>2. some[{}] = <<>>
    BY <1>3 DEF Iterates
  <2>3. QED
    BY <1>3, <2>1, <2>2
<1> DEFINE iter == CHOOSE iter : Fold(iter)
           h == [k \in 0 .. n |-> iter[1 .. k]]
<1>5. Fold(iter)
  BY <1>4
<1>6. FoldLeft(AddFlagged, <<>>, s) = iter[1 .. n]
  BY <1>1 DEF FoldLeft, MapThenFoldSet
<1> HIDE DEF iter
<1>7. h[0] = <<>>
  BY <1>1, <1>5
<1>8. ASSUME NEW k \in 1 .. n
      PROVE  h[k] = AddFlagged(h[k - 1], s[k])
  <2>1. /\ 1 .. k \in SUBSET (1 .. n) /\ 1 .. k # {} /\ Max(1 .. k) = k
        /\ (1 .. k) \ {k} = 1 .. (k - 1)
    BY <1>1, FirstIndices
  <2>2. iter[1 .. k] = AddFlagged(iter[1 .. (k - 1)], s[k])
    BY <1>5, <2>1
  <2>3. h[k] = iter[1 .. k] /\ h[k - 1] = iter[1 .. (k - 1)]
    BY <1>1
  <2>4. QED
    BY <2>2, <2>3
<1>9. h = [k \in 0 .. n |-> h[k]] /\ h[n] = iter[1 .. n]
  BY <1>1
<1> HIDE DEF h
<1>10. \A k \in 0 .. n : h[k] \in Seq(Flag)
  <2>1. \A k \in 1 .. n : s[k] \in Flag
    BY <1>1
  <2>2. ASSUME NEW k \in 1 .. n, h[k - 1] \in Seq(Flag)
        PROVE  h[k] \in Seq(Flag)
    <3>1. h[k] = AddFlagged(h[k - 1], s[k])
      BY <1>8
    <3>2. QED
      BY <2>1, <2>2, <3>1, FlaggedType
  <2>3. h[0] \in Seq(Flag)
    BY <1>7
  <2>4. QED
    BY <1>1, <2>2, <2>3, AllAlong
<1>11. h \in [0 .. n -> Seq(Flag)]
  BY <1>9, <1>10
<1>12. QED
  BY <1>6, <1>7, <1>8, <1>9, <1>11

(* An attempt flags at most once. *)
LEMMA AttemptType ==
  ASSUME NEW o \in Outcomes, NEW drawn, NEW q \in Seq(Flag), NEW i \in 1 .. Len(o.runs)
  PROVE  AddAttempt(o, drawn, q, i) \in Seq(Flag)
<1>1. Len(o.runs) \in Nat /\ i \in DOMAIN o.runs
  BY ShapeAssumption
<1>2. o.runs[i].id \in Id /\ o.runs[i].passed \in BOOLEAN
  <2>1. o.runs[i].id \in {o.runs[j].id : j \in DOMAIN o.runs}
    BY <1>1
  <2>2. QED
    BY <1>1, <2>1, ShapeAssumption DEF Id
<1>3. Why(o, i, drawn) \in SUBSET Reason
  BY DEF Why, Reasons, Because, Reason
<1>4. [id |-> o.runs[i].id, passed |-> o.runs[i].passed, reasons |-> Why(o, i, drawn)] \in Flag
  BY <1>2, <1>3 DEF Flag
<1>5. QED
  BY <1>4 DEF AddAttempt

(* What build_queue sees of a scenario, attempt by attempt. *)
LEMMA FlaggedHistory ==
  ASSUME NEW o \in Outcomes, NEW drawn
  PROVE  Flagged(o, drawn) \in Seq(Flag)
<1> DEFINE n == Len(o.runs)
           s == [i \in DOMAIN o.runs |-> i]
           step == [p \in Seq(Flag) \X (1 .. n) |-> AddAttempt(o, drawn, p[1], s[p[2]])]
           Fold(iter) == iter = [t \in SUBSET (1 .. n) |->
                                   IF t = {} THEN <<>> ELSE AddAttempt(o, drawn, iter[t \ {Max(t)}], s[Max(t)])]
<1>1. n \in Nat /\ DOMAIN s = 1 .. n /\ \A i \in 1 .. n : s[i] = i
  BY ShapeAssumption
<1>2. step \in [Seq(Flag) \X (1 .. n) -> Seq(Flag)]
  <2>1. \A p \in Seq(Flag) \X (1 .. n) : p[1] \in Seq(Flag) /\ s[p[2]] \in 1 .. n
    BY <1>1
  <2>2. \A p \in Seq(Flag) \X (1 .. n) : AddAttempt(o, drawn, p[1], s[p[2]]) \in Seq(Flag)
    BY <2>1, AttemptType
  <2>3. QED
    BY <2>2
<1>3. PICK some \in [SUBSET (1 .. n) -> Seq(Flag)] : Iterates(some, step, <<>>, n)
  <2>1. <<>> \in Seq(Flag)
    OBVIOUS
  <2> HIDE DEF step, n
  <2>2. QED
    BY <1>1, <1>2, <2>1, FoldExists
<1>4. Fold(some)
  <2>1. ASSUME NEW t \in SUBSET (1 .. n), t # {}
        PROVE  some[t] = AddAttempt(o, drawn, some[t \ {Max(t)}], s[Max(t)])
    <3>1. Max(t) \in 1 .. n
      BY <1>1, <2>1, MaxIsOne
    <3>2. some[t] = step[<<some[t \ {Max(t)}], Max(t)>>] /\ some[t \ {Max(t)}] \in Seq(Flag)
      BY <1>3, <2>1 DEF Iterates
    <3>3. QED
      BY <3>1, <3>2
  <2>2. some[{}] = <<>>
    BY <1>3 DEF Iterates
  <2>3. QED
    BY <1>3, <2>1, <2>2
<1> DEFINE iter == CHOOSE iter : Fold(iter)
           h == [k \in 0 .. n |-> iter[1 .. k]]
<1>5. Fold(iter)
  BY <1>4
<1>6. Flagged(o, drawn) = iter[1 .. n]
  BY <1>1 DEF Flagged, FoldLeftDomain, FoldLeft, MapThenFoldSet
<1> HIDE DEF iter
<1>7. h[0] = <<>>
  BY <1>1, <1>5
<1>8. ASSUME NEW k \in 1 .. n
      PROVE  h[k] = AddAttempt(o, drawn, h[k - 1], s[k])
  <2>1. /\ 1 .. k \in SUBSET (1 .. n) /\ 1 .. k # {} /\ Max(1 .. k) = k
        /\ (1 .. k) \ {k} = 1 .. (k - 1)
    BY <1>1, FirstIndices
  <2>2. iter[1 .. k] = AddAttempt(o, drawn, iter[1 .. (k - 1)], s[k])
    BY <1>5, <2>1
  <2>3. h[k] = iter[1 .. k] /\ h[k - 1] = iter[1 .. (k - 1)]
    BY <1>1
  <2>4. QED
    BY <2>2, <2>3
<1>9. h = [k \in 0 .. n |-> h[k]] /\ h[n] = iter[1 .. n]
  BY <1>1
<1> HIDE DEF h
<1>10. \A k \in 0 .. n : h[k] \in Seq(Flag)
  <2>1. \A k \in 1 .. n : s[k] \in 1 .. n
    BY <1>1
  <2>2. ASSUME NEW k \in 1 .. n, h[k - 1] \in Seq(Flag)
        PROVE  h[k] \in Seq(Flag)
    <3>1. h[k] = AddAttempt(o, drawn, h[k - 1], s[k])
      BY <1>8
    <3>2. QED
      BY <2>1, <2>2, <3>1, AttemptType
  <2>3. h[0] \in Seq(Flag)
    BY <1>7
  <2>4. QED
    BY <1>1, <2>2, <2>3, AllAlong
<1>11. n \in 0 .. n
  BY <1>1
<1>12. QED
  BY <1>6, <1>9, <1>10, <1>11
-----------------------------------------------------------------------------
Distinct(q) == \A i, j \in 1 .. Len(q) : q[i].id = q[j].id => i = j

(* Appending an entry with a new id keeps the ids distinct. *)
LEMMA AppendIds ==
  ASSUME NEW E, NEW q \in Seq(E), NEW e \in E
  PROVE  /\ Ids(Append(q, e)) = Ids(q) \cup {e.id}
         /\ Distinct(q) /\ e.id \notin Ids(q) => Distinct(Append(q, e))
<1> DEFINE a == Append(q, e)
<1>1. /\ Len(q) \in Nat /\ Len(a) = Len(q) + 1 /\ a[Len(q) + 1] = e
      /\ \A i \in 1 .. Len(q) : a[i] = q[i]
  OBVIOUS
<1> HIDE DEF a
<1>2. Ids(a) = Ids(q) \cup {e.id}
  <2>1. 1 .. Len(a) = (1 .. Len(q)) \cup {Len(q) + 1}
    BY <1>1
  <2>2. QED
    BY <1>1, <2>1 DEF Ids
<1>3. ASSUME Distinct(q), e.id \notin Ids(q)
      PROVE  Distinct(a)
  <2> SUFFICES ASSUME NEW i \in 1 .. Len(a), NEW j \in 1 .. Len(a), a[i].id = a[j].id
               PROVE  i = j
    BY DEF Distinct
  <2>1. \A k \in 1 .. Len(q) : a[k].id # e.id
    BY <1>1, <1>3 DEF Ids
  <2>2. CASE i = Len(q) + 1
    BY <1>1, <2>1, <2>2
  <2>3. CASE j = Len(q) + 1
    BY <1>1, <2>1, <2>3
  <2>4. CASE i \in 1 .. Len(q) /\ j \in 1 .. Len(q)
    BY <1>1, <1>3, <2>4 DEF Distinct
  <2>5. QED
    BY <1>1, <2>2, <2>3, <2>4
<1>4. QED
  BY <1>2, <1>3 DEF a

(* AddUnseen adds the id unless it is there, and no id twice. *)
LEMMA UnseenIds ==
  ASSUME NEW q \in Seq(Entry), NEW e \in Entry, Distinct(q)
  PROVE  Distinct(AddUnseen(q, e)) /\ Ids(AddUnseen(q, e)) = Ids(q) \cup {e.id}
<1>1. CASE e.id \in Ids(q)
  BY <1>1 DEF AddUnseen
<1>2. CASE e.id \notin Ids(q)
  BY <1>2, AppendIds DEF AddUnseen
<1>3. QED
  BY <1>1, <1>2

(* Dropping the first entry drops its id only. *)
LEMMA TailIds ==
  ASSUME NEW q \in Seq(Entry), q # <<>>
  PROVE  /\ Head(q) \in Entry /\ Tail(q) \in Seq(Entry) /\ Len(Tail(q)) = Len(q) - 1
         /\ Ids(q) = {Head(q).id} \cup Ids(Tail(q))
         /\ Distinct(q) => Distinct(Tail(q)) /\ Head(q).id \notin Ids(Tail(q))
<1> DEFINE t == Tail(q)  n == Len(q) - 1
<1>1. /\ Head(q) \in Entry /\ t \in Seq(Entry) /\ Len(t) = n /\ n \in Nat /\ Len(q) = n + 1
      /\ q[1] = Head(q) /\ \A i \in 1 .. n : t[i] = q[i + 1]
  OBVIOUS
<1> HIDE DEF t, n
<1>2. Ids(q) = {Head(q).id} \cup Ids(t)
  <2>1. \A i \in 1 .. n : i + 1 \in 1 .. Len(q)
    BY <1>1
  <2>2. Ids(t) \subseteq Ids(q) /\ Head(q).id \in Ids(q)
    BY <1>1, <2>1 DEF Ids
  <2>3. ASSUME NEW j \in 1 .. Len(q)
        PROVE  q[j].id \in {Head(q).id} \cup Ids(t)
    <3>1. CASE j = 1
      BY <1>1, <3>1
    <3>2. CASE j # 1
      <4>1. j - 1 \in 1 .. n /\ (j - 1) + 1 = j
        BY <1>1, <3>2
      <4>2. QED
        BY <1>1, <4>1 DEF Ids
    <3>3. QED
      BY <3>1, <3>2
  <2>4. QED
    BY <2>2, <2>3 DEF Ids
<1>3. ASSUME Distinct(q)
      PROVE  Distinct(t) /\ Head(q).id \notin Ids(t)
  <2>1. \A i \in 1 .. n : i + 1 \in 1 .. Len(q) /\ i + 1 # 1 /\ 1 \in 1 .. Len(q)
    BY <1>1
  <2>2. \A i, j \in 1 .. n : i + 1 = j + 1 => i = j
    BY <1>1
  <2>3. QED
    BY <1>1, <1>3, <2>1, <2>2 DEF Distinct, Ids
<1>4. QED
  BY <1>1, <1>2, <1>3 DEF t, n

(* The queue that is kept has at most QueueSize of the entries, each once. *)
LEMMA CappedIds ==
  ASSUME NEW q \in Seq(Entry), Distinct(q)
  PROVE  /\ Capped(q) \in Seq(Entry) /\ Len(Capped(q)) <= QueueSize
         /\ Distinct(Capped(q)) /\ Ids(Capped(q)) \subseteq Ids(q)
<1> DEFINE m == IF Len(q) < QueueSize THEN Len(q) ELSE QueueSize
           c == SubSeq(q, 1, m)
<1>1. Len(q) \in Nat /\ m \in 0 .. Len(q) /\ m <= QueueSize
  BY LabelsAssumption
<1> HIDE DEF m
<1>2. c \in Seq(Entry) /\ Len(c) = m /\ \A i \in 1 .. m : c[i] = q[i] /\ i \in 1 .. Len(q)
  BY <1>1
<1> HIDE DEF c
<1>3. Distinct(c) /\ Ids(c) \subseteq Ids(q)
  BY <1>2 DEF Distinct, Ids
<1>4. QED
  BY <1>1, <1>2, <1>3 DEF Capped, m, c

(***************************************************************************)
(* merge_queue keeps all entries of the run, and of the queue those which  *)
(* are none of them, each once.                                            *)
(***************************************************************************)
LEMMA MergedIds ==
  ASSUME NEW f \in Seq(Entry), NEW s \in Seq(Entry), Distinct(f)
  PROVE  /\ Merged(f, s) \in Seq(Entry) /\ Distinct(Merged(f, s))
         /\ Ids(Merged(f, s)) = Ids(f) \cup Ids(s)
<1>1. PICK h \in [0 .. Len(s) -> Seq(Entry)] :
        /\ h[0] = f /\ Merged(f, s) = h[Len(s)]
        /\ \A k \in 1 .. Len(s) : h[k] = AddUnseen(h[k - 1], s[k])
  BY MergedHistory
<1> DEFINE Good(k) == Distinct(h[k]) /\ Ids(h[k]) = Ids(f) \cup {s[i].id : i \in 1 .. k}
           T == {k \in Nat : k <= Len(s) => Good(k)}
<1>2. Len(s) \in Nat
  OBVIOUS
<1>3. Good(0)
  <2>1. {s[i].id : i \in 1 .. 0} = {}
    OBVIOUS
  <2>2. QED
    BY <1>1, <2>1
<1>4. ASSUME NEW k \in Nat, Good(k), k + 1 <= Len(s)
      PROVE  Good(k + 1)
  <2>1. k + 1 \in 1 .. Len(s) /\ (k + 1) - 1 = k /\ k \in 0 .. Len(s)
    BY <1>2, <1>4
  <2>2. h[k + 1] = AddUnseen(h[k], s[k + 1]) /\ h[k] \in Seq(Entry) /\ s[k + 1] \in Entry
    <3>1. h[k + 1] = AddUnseen(h[(k + 1) - 1], s[k + 1])
      BY <1>1, <2>1
    <3>2. h[k] \in Seq(Entry)
      BY <1>1, <2>1
    <3>3. s[k + 1] \in Entry
      BY <2>1
    <3>4. QED
      BY <2>1, <3>1, <3>2, <3>3
  <2>3. {s[i].id : i \in 1 .. (k + 1)} = {s[i].id : i \in 1 .. k} \cup {s[k + 1].id}
    <3>1. 1 .. (k + 1) = (1 .. k) \cup {k + 1}
      OBVIOUS
    <3>2. QED
      BY <3>1
  <2>4. Distinct(h[k + 1]) /\ Ids(h[k + 1]) = Ids(h[k]) \cup {s[k + 1].id}
    BY <1>4, <2>2, UnseenIds
  <2>5. QED
    BY <1>4, <2>3, <2>4
<1> HIDE DEF Good
<1>5. 0 \in T /\ \A k \in Nat : k \in T => k + 1 \in T
  BY <1>3, <1>4
<1> HIDE DEF T
<1>6. Len(s) \in T
  BY <1>2, <1>5, NatSet
<1>7. Good(Len(s))
  BY <1>2, <1>6 DEF T
<1>8. h[Len(s)] \in Seq(Entry)
  BY <1>1, <1>2
<1>9. QED
  BY <1>1, <1>7, <1>8 DEF Good, Ids
-----------------------------------------------------------------------------
(* The first k responses of fs, in the order they were first seen in. *)
At(fs, id, k) == {j \in 1 .. k : fs[j].id = id}

IsFirst(fs, i) == \A j \in 1 .. (i - 1) : fs[j].id # fs[i].id

Summary(b, fs, k) ==
  /\ Ids(b) = {fs[j].id : j \in 1 .. k}
  /\ \A i \in 1 .. Len(b) :
       /\ b[i].reasons = UNION {fs[j].reasons : j \in At(fs, b[i].id, k)}
       /\ FirstAt(fs, b[i].id) \in 1 .. k /\ b[i].passed = fs[FirstAt(fs, b[i].id)].passed
       /\ \A j \in 1 .. (i - 1) : FirstAt(fs, b[j].id) < FirstAt(fs, b[i].id)

(* FirstAt finds the first flag of an id. *)
LEMMA FirstIsAt ==
  ASSUME NEW fs \in Seq(Flag), NEW i \in 1 .. Len(fs), IsFirst(fs, i)
  PROVE  FirstAt(fs, fs[i].id) = i
<1> DEFINE id == fs[i].id
           P(x) == fs[x].id = id /\ \A j \in 1 .. (x - 1) : fs[j].id # id
<1>1. P(i)
  BY DEF IsFirst
<1>2. ASSUME NEW x \in 1 .. Len(fs), P(x)
      PROVE  x = i
  <2>1. CASE x < i
    BY <1>1, <1>2, <2>1
  <2>2. CASE i < x
    BY <1>1, <1>2, <2>2
  <2>3. QED
    BY <2>1, <2>2
<1>3. (CHOOSE x \in 1 .. Len(fs) : P(x)) = i
  BY <1>1, <1>2
<1>4. QED
  BY <1>3 DEF FirstAt

(* One more response is either one of those queued or a new one. *)
LEMMA SummaryStep ==
  ASSUME NEW fs \in Seq(Flag), NEW k \in Nat, k + 1 <= Len(fs),
         NEW b \in Seq(Flag), Summary(b, fs, k)
  PROVE  Summary(AddFlagged(b, fs[k + 1]), fs, k + 1)
<1> DEFINE e == fs[k + 1]
           a == AddFlagged(b, e)
<1>1. e \in Flag /\ k + 1 \in 1 .. Len(fs) /\ Len(b) \in Nat
  OBVIOUS
<1>2. 1 .. (k + 1) = (1 .. k) \cup {k + 1}
  OBVIOUS
<1>3. {fs[j].id : j \in 1 .. (k + 1)} = Ids(b) \cup {e.id}
  BY <1>2 DEF Summary
<1>4. \A id : At(fs, id, k + 1) = IF id = e.id THEN At(fs, id, k) \cup {k + 1} ELSE At(fs, id, k)
  BY <1>2 DEF At
<1>5. CASE e.id \in Ids(b)
  <2>1. a = [i \in 1 .. Len(b) |->
               IF b[i].id = e.id THEN [b[i] EXCEPT !.reasons = @ \cup e.reasons] ELSE b[i]]
    BY <1>5 DEF AddFlagged
  <2>2. Len(a) = Len(b)
    BY <1>1, <2>1
  <2>3. ASSUME NEW i \in 1 .. Len(b)
        PROVE  /\ a[i].id = b[i].id /\ a[i].passed = b[i].passed
               /\ a[i].reasons = IF b[i].id = e.id THEN b[i].reasons \cup e.reasons ELSE b[i].reasons
    <3>1. b[i] \in Flag
      OBVIOUS
    <3>2. a[i] = IF b[i].id = e.id THEN [b[i] EXCEPT !.reasons = @ \cup e.reasons] ELSE b[i]
      BY <2>1
    <3> HIDE DEF a
    <3>3. QED
      BY <3>1, <3>2 DEF Flag
  <2> HIDE DEF a
  <2>4. Ids(a) = Ids(b)
    <3>1. Ids(a) = {a[i].id : i \in 1 .. Len(b)}
      BY <2>2 DEF Ids
    <3>2. {a[i].id : i \in 1 .. Len(b)} = {b[i].id : i \in 1 .. Len(b)}
      <4>1. \A i \in 1 .. Len(b) : a[i].id = b[i].id
        BY <2>3
      <4>2. QED
        BY ONLY <4>1
    <3>3. QED
      BY <3>1, <3>2 DEF Ids
  <2>5. ASSUME NEW i \in 1 .. Len(b)
        PROVE  a[i].reasons = UNION {fs[j].reasons : j \in At(fs, a[i].id, k + 1)}
    <3>1. b[i].reasons = UNION {fs[j].reasons : j \in At(fs, b[i].id, k)}
      BY DEF Summary
    <3>2. CASE b[i].id = e.id
      <4>1. At(fs, a[i].id, k + 1) = At(fs, b[i].id, k) \cup {k + 1}
        BY <1>4, <2>3, <3>2
      <4>2. UNION {fs[j].reasons : j \in At(fs, b[i].id, k) \cup {k + 1}}
              = (UNION {fs[j].reasons : j \in At(fs, b[i].id, k)}) \cup e.reasons
        OBVIOUS
      <4>3. QED
        BY <2>3, <3>1, <3>2, <4>1, <4>2
    <3>3. CASE b[i].id # e.id
      BY <1>4, <2>3, <3>1, <3>3
    <3>4. QED
      BY <3>2, <3>3
  <2>6. ASSUME NEW i \in 1 .. Len(b)
        PROVE  /\ FirstAt(fs, a[i].id) \in 1 .. (k + 1)
               /\ a[i].passed = fs[FirstAt(fs, a[i].id)].passed
               /\ \A j \in 1 .. (i - 1) : FirstAt(fs, a[j].id) < FirstAt(fs, a[i].id)
    <3>1. \A j \in 1 .. (i - 1) : j \in 1 .. Len(b)
      BY <1>1
    <3>2. QED
      BY <1>2, <2>3, <3>1 DEF Summary
  <2>7. Summary(a, fs, k + 1)
    BY <1>3, <1>5, <2>2, <2>4, <2>5, <2>6 DEF Summary
  <2>8. QED
    BY <2>7 DEF a
<1>6. CASE e.id \notin Ids(b)
  <2>1. a = Append(b, e)
    BY <1>6 DEF AddFlagged
  <2>2. /\ Len(a) = Len(b) + 1 /\ a[Len(b) + 1] = e /\ \A i \in 1 .. Len(b) : a[i] = b[i]
        /\ Ids(a) = Ids(b) \cup {e.id}
    BY <1>1, <2>1, AppendIds
  <2> HIDE DEF a
  <2>3. \A j \in 1 .. k : fs[j].id # e.id
    BY <1>6 DEF Summary
  <2>4. FirstAt(fs, e.id) = k + 1
    BY <1>1, <2>3, FirstIsAt DEF IsFirst
  <2>5. At(fs, e.id, k + 1) = {k + 1}
    BY <1>2, <2>3 DEF At
  <2>6. ASSUME NEW i \in 1 .. Len(a)
        PROVE  /\ a[i].reasons = UNION {fs[j].reasons : j \in At(fs, a[i].id, k + 1)}
               /\ FirstAt(fs, a[i].id) \in 1 .. (k + 1)
               /\ a[i].passed = fs[FirstAt(fs, a[i].id)].passed
               /\ \A j \in 1 .. (i - 1) : FirstAt(fs, a[j].id) < FirstAt(fs, a[i].id)
    <3>1. CASE i = Len(b) + 1
      <4>1. \A j \in 1 .. (i - 1) : j \in 1 .. Len(b) /\ FirstAt(fs, a[j].id) \in 1 .. k
        BY <1>1, <2>2, <3>1 DEF Summary
      <4>2. UNION {fs[j].reasons : j \in {k + 1}} = e.reasons
        OBVIOUS
      <4>3. QED
        BY <2>2, <2>4, <2>5, <3>1, <4>1, <4>2
    <3>2. CASE i \in 1 .. Len(b)
      <4>1. a[i] = b[i] /\ a[i].id # e.id
        BY <1>6, <2>2, <3>2 DEF Ids
      <4>2. \A j \in 1 .. (i - 1) : j \in 1 .. Len(b) /\ a[j] = b[j]
        BY <1>1, <2>2, <3>2
      <4>3. FirstAt(fs, b[i].id) \in 1 .. (k + 1)
        BY <1>2, <3>2 DEF Summary
      <4>4. a[i].reasons = UNION {fs[j].reasons : j \in At(fs, a[i].id, k + 1)}
        <5>1. b[i].reasons = UNION {fs[j].reasons : j \in At(fs, b[i].id, k)}
          BY <3>2 DEF Summary
        <5>2. At(fs, b[i].id, k + 1) = At(fs, b[i].id, k)
          BY <1>4, <4>1
        <5>3. QED
          BY <4>1, <5>1, <5>2
      <4>5. QED
        BY <3>2, <4>1, <4>2, <4>3, <4>4 DEF Summary
    <3>3. QED
      BY <1>1, <2>2, <3>1, <3>2
  <2>7. Summary(a, fs, k + 1)
    BY <1>3, <2>2, <2>6 DEF Summary
  <2>8. QED
    BY <2>7 DEF a
<1>7. QED
  BY <1>5, <1>6

(* What build_queue folds the flags into sums them up. *)
LEMMA QueueSummary ==
  ASSUME NEW fs \in Seq(Flag)
  PROVE  LET b == FoldLeft(AddFlagged, <<>>, fs)
         IN  b \in Seq(Flag) /\ Summary(b, fs, Len(fs))
<1>1. PICK h \in [0 .. Len(fs) -> Seq(Flag)] :
        /\ h[0] = <<>> /\ FoldLeft(AddFlagged, <<>>, fs) = h[Len(fs)]
        /\ \A k \in 1 .. Len(fs) : h[k] = AddFlagged(h[k - 1], fs[k])
  BY QueuedHistory
<1> DEFINE Good(k) == Summary(h[k], fs, k)
           T == {k \in Nat : k <= Len(fs) => Good(k)}
<1>2. Len(fs) \in Nat
  OBVIOUS
<1>3. Good(0)
  <2>1. Len(h[0]) = 0 /\ 1 .. 0 = {}
    BY <1>1
  <2>2. QED
    BY <2>1 DEF Summary, Ids
<1>4. ASSUME NEW k \in Nat, Good(k), k + 1 <= Len(fs)
      PROVE  Good(k + 1)
  <2>1. k + 1 \in 1 .. Len(fs) /\ (k + 1) - 1 = k /\ k \in 0 .. Len(fs)
    BY <1>2, <1>4
  <2>2. h[k + 1] = AddFlagged(h[(k + 1) - 1], fs[k + 1])
    BY <1>1, <2>1
  <2>3. h[k] \in Seq(Flag)
    BY <1>1, <2>1
  <2>4. QED
    BY <1>4, <2>1, <2>2, <2>3, SummaryStep
<1> HIDE DEF Good
<1>5. 0 \in T /\ \A k \in Nat : k \in T => k + 1 \in T
  BY <1>3, <1>4
<1> HIDE DEF T
<1>6. Len(fs) \in T
  BY <1>2, <1>5, NatSet
<1>7. Good(Len(fs))
  BY <1>2, <1>6 DEF T
<1>8. h[Len(fs)] \in Seq(Flag)
  BY <1>1, <1>2
<1>9. QED
  BY <1>1, <1>7, <1>8 DEF Good

(* A list whose entries were first seen one after the other has each once. *)
LEMMA SummaryIsDistinct ==
  ASSUME NEW fs \in Seq(Flag), NEW b \in Seq(Flag), Summary(b, fs, Len(fs))
  PROVE  /\ \A i, j \in 1 .. Len(b) : b[i].id = b[j].id => i = j
         /\ Ids(b) = Ids(fs) /\ Len(b) = Cardinality(Ids(fs))
<1>1. Len(b) \in Nat /\ Len(fs) \in Nat
  OBVIOUS
<1>2. ASSUME NEW i \in 1 .. Len(b), NEW j \in 1 .. Len(b), b[i].id = b[j].id
      PROVE  i = j
  <2>1. FirstAt(fs, b[i].id) \in 1 .. Len(fs)
    BY DEF Summary
  <2>2. CASE i < j
    <3>1. i \in 1 .. (j - 1)
      BY <2>2
    <3>2. FirstAt(fs, b[i].id) < FirstAt(fs, b[j].id)
      BY <3>1 DEF Summary
    <3>3. QED
      BY <1>1, <1>2, <2>1, <3>2
  <2>3. CASE j < i
    <3>1. j \in 1 .. (i - 1)
      BY <2>3
    <3>2. FirstAt(fs, b[j].id) < FirstAt(fs, b[i].id)
      BY <3>1 DEF Summary
    <3>3. QED
      BY <1>1, <1>2, <2>1, <3>2
  <2>4. QED
    BY <2>2, <2>3
<1>3. Ids(b) = Ids(fs)
  BY DEF Summary, Ids
<1>4. Len(b) = Cardinality(Ids(b))
  <2> DEFINE g == [i \in 1 .. Len(b) |-> b[i].id]
  <2>1. g \in Bijection(1 .. Len(b), Ids(b))
    <3>1. g \in [1 .. Len(b) -> Ids(b)] /\ \A t \in Ids(b) : \E i \in 1 .. Len(b) : g[i] = t
      BY DEF Ids
    <3>2. \A i, j \in 1 .. Len(b) : g[i] = g[j] => i = j
      BY <1>2
    <3> HIDE DEF g
    <3>3. QED
      BY <3>1, <3>2 DEF Bijection, Injection, Surjection, IsInjective
  <2> HIDE DEF g
  <2>2. ExistsBijection(1 .. Len(b), Ids(b))
    BY <2>1 DEF ExistsBijection
  <2>3. QED
    BY <1>1, <2>2, FS_CountingElements
<1>5. QED
  BY <1>2, <1>3, <1>4

(* Naming the run of an entry changes nothing else of it. *)
LEMMA OfRunType ==
  ASSUME NEW e \in Flag, NEW r \in Run
  PROVE  /\ OfRun(e, r) \in Entry /\ OfRun(e, r).id = e.id
         /\ OfRun(e, r).passed = e.passed /\ OfRun(e, r).reasons = e.reasons
BY DEF Flag, Entry, OfRun

(* What a run queues: the latest first, all of its own. *)
SumsUp(q, fs) ==
  /\ Ids(q) = Ids(fs) /\ Len(q) = Cardinality(Ids(fs))
  /\ \A i \in 1 .. Len(q) :
       /\ q[i].reasons = UNION {fs[j].reasons : j \in {k \in 1 .. Len(fs) : fs[k].id = q[i].id}}
       /\ q[i].passed = fs[FirstAt(fs, q[i].id)].passed
       /\ \A j \in 1 .. (i - 1) : FirstAt(fs, q[j].id) > FirstAt(fs, q[i].id)

(* FreshIsWhatWasFlagged in terms of SumsUp. *)
LEMMA FreshSumsUp == FreshIsWhatWasFlagged <=> \A r \in Run : SumsUp(fresh[r], flagged[r])
BY DEF FreshIsWhatWasFlagged, SumsUp

(* Of no flags, no entries. *)
LEMMA NothingSumsUp == SumsUp(<<>>, <<>>)
<1>1. Cardinality({}) = 0
  BY FS_EmptySet
<1>2. Ids(<<>>) = {} /\ Len(<<>>) = 0
  BY DEF Ids
<1>3. QED
  BY <1>1, <1>2 DEF SumsUp

(* What EndRun queues is a summary of what the run flagged. *)
LEMMA FreshSummary ==
  ASSUME NEW fs \in Seq(Flag), NEW r \in Run,
         NEW q, q = [i \in 1 .. Len(BuildQueue(fs)) |-> OfRun(BuildQueue(fs)[i], r)]
  PROVE  q \in Seq(Entry) /\ Distinct(q) /\ SumsUp(q, fs)
<1> DEFINE b == FoldLeft(AddFlagged, <<>>, fs)
           n == Len(b)
<1>1. b \in Seq(Flag) /\ Summary(b, fs, Len(fs))
  BY QueueSummary
<1>2. BuildQueue(fs) = [i \in 1 .. n |-> b[(n - i) + 1]]
  BY DEF BuildQueue, Reverse
<1> HIDE DEF b
<1>3. n \in Nat /\ \A i \in 1 .. n : (n - i) + 1 \in 1 .. n
  BY <1>1
<1>4. Len(BuildQueue(fs)) = n
  BY <1>2, <1>3
<1> HIDE DEF n
<1>5. q = [i \in 1 .. n |-> OfRun(b[(n - i) + 1], r)]
  BY <1>2, <1>4
<1>6. ASSUME NEW i \in 1 .. n
      PROVE  /\ q[i] \in Entry /\ q[i].id = b[(n - i) + 1].id
             /\ q[i].passed = b[(n - i) + 1].passed /\ q[i].reasons = b[(n - i) + 1].reasons
  <2>1. PICK e \in Flag : e = b[(n - i) + 1]
    BY <1>1, <1>3 DEF n
  <2>2. q[i] = OfRun(e, r)
    BY <1>5, <2>1
  <2>3. q[i] \in Entry /\ q[i].id = e.id /\ q[i].passed = e.passed /\ q[i].reasons = e.reasons
    BY <2>2, OfRunType
  <2>4. QED
    BY <2>1, <2>3
<1>7. q \in Seq(Entry) /\ Len(q) = n
  <2>1. q \in [1 .. n -> Entry]
    BY <1>5, <1>6
  <2>2. QED
    BY <1>3, <2>1
<1>8. /\ \A i, j \in 1 .. n : b[i].id = b[j].id => i = j
      /\ Ids(b) = Ids(fs) /\ n = Cardinality(Ids(fs))
  BY <1>1, SummaryIsDistinct DEF n
<1>9. Distinct(q)
  <2>0. SUFFICES ASSUME NEW i \in 1 .. n, NEW j \in 1 .. n, q[i].id = q[j].id
                 PROVE  i = j
    BY <1>7 DEF Distinct
  <2>1. (n - i) + 1 = (n - j) + 1
    <3>1. /\ (n - i) + 1 \in 1 .. n /\ (n - j) + 1 \in 1 .. n
          /\ b[(n - i) + 1].id = b[(n - j) + 1].id
      BY <1>3, <1>6, <2>0
    <3>2. QED
      BY <1>8, <3>1
  <2>2. QED
    BY <1>3, <2>1
<1>10. Ids(q) = Ids(fs)
  <2>1. \A i \in 1 .. n : q[i].id \in Ids(b)
    BY <1>3, <1>6 DEF Ids, n
  <2>2. ASSUME NEW i \in 1 .. n
        PROVE  b[i].id \in Ids(q)
    <3>1. (n - i) + 1 \in 1 .. n /\ (n - ((n - i) + 1)) + 1 = i
      BY <1>3
    <3>2. q[(n - i) + 1].id = b[i].id
      BY <1>6, <3>1
    <3>3. QED
      BY <1>7, <3>1, <3>2 DEF Ids
  <2>3. Ids(q) = Ids(b)
    <3>1. Ids(q) \subseteq Ids(b)
      BY <1>7, <2>1 DEF Ids
    <3>2. Ids(b) \subseteq Ids(q)
      BY <2>2 DEF Ids, n
    <3>3. QED
      BY <3>1, <3>2
  <2>4. QED
    BY <1>8, <2>3
<1>11. ASSUME NEW i \in 1 .. n
       PROVE  /\ q[i].reasons
                   = UNION {fs[j].reasons : j \in {k \in 1 .. Len(fs) : fs[k].id = q[i].id}}
              /\ q[i].passed = fs[FirstAt(fs, q[i].id)].passed
              /\ \A j \in 1 .. (i - 1) : FirstAt(fs, q[j].id) > FirstAt(fs, q[i].id)
  <2> DEFINE m == (n - i) + 1
  <2>1. m \in 1 .. Len(b)
    BY <1>3 DEF n
  <2>2. /\ b[m].reasons = UNION {fs[j].reasons : j \in At(fs, b[m].id, Len(fs))}
        /\ b[m].passed = fs[FirstAt(fs, b[m].id)].passed
    BY <1>1, <2>1 DEF Summary
  <2>3. ASSUME NEW j \in 1 .. (i - 1)
        PROVE  FirstAt(fs, q[j].id) > FirstAt(fs, q[i].id)
    <3> DEFINE l == (n - j) + 1
    <3>1. j \in 1 .. n /\ m \in 1 .. (l - 1)
      BY <1>3
    <3>2. l \in 1 .. Len(b)
      BY <1>3, <3>1 DEF n
    <3>3. /\ FirstAt(fs, b[m].id) < FirstAt(fs, b[l].id)
          /\ FirstAt(fs, b[m].id) \in 1 .. Len(fs) /\ FirstAt(fs, b[l].id) \in 1 .. Len(fs)
      BY <1>1, <2>1, <3>1, <3>2 DEF Summary
    <3>4. q[j].id = b[l].id /\ q[i].id = b[m].id
      BY <1>6, <3>1
    <3> HIDE DEF m, l
    <3>5. QED
      BY <3>3, <3>4
  <2>4. /\ q[i].id = b[m].id /\ q[i].passed = b[m].passed /\ q[i].reasons = b[m].reasons
        /\ At(fs, b[m].id, Len(fs)) = {k \in 1 .. Len(fs) : fs[k].id = b[m].id}
    BY <1>6 DEF At
  <2> HIDE DEF m
  <2>5. QED
    BY <2>2, <2>3, <2>4
<1>12. SumsUp(q, fs)
  BY <1>7, <1>8, <1>10, <1>11 DEF SumsUp
<1>13. QED
  BY <1>7, <1>9, <1>12
-----------------------------------------------------------------------------
Case == [id : Id, run : Run]

TypeOK ==
  /\ queue \in Seq(Entry) /\ torn \in BOOLEAN /\ cases \in Seq(Case)
  /\ run \in [Run -> {"running", "merging", "writing", "ended"}]
  /\ fresh \in [Run -> Seq(Entry)] /\ old \in [Run -> Seq(Entry)]
  /\ flagged \in [Run -> Seq(Flag)]
  /\ desk \in {"free", "terminal", "import"} /\ saving \in BOOLEAN
  /\ pending \in Seq(Entry) /\ kept \in Seq(Entry)
  /\ sessions \in 0 .. MaxSessions
  /\ overlapped \in BOOLEAN /\ collided \in BOOLEAN /\ cut \in BOOLEAN /\ killed \in BOOLEAN

(* What a run flagged it has once; a session writes back what is left at its end. *)
Steps ==
  /\ \A r \in Run : Distinct(fresh[r])
  /\ desk = "free" => kept = <<>> /\ pending = <<>> /\ ~saving
  /\ desk = "terminal" /\ pending # <<>> => kept = <<>>
  /\ saving => pending = <<>>
  /\ collided => overlapped

(***************************************************************************)
(* While no two commands write at once, every list of entries has an entry *)
(* once; what a session has gone through and has still to go through are   *)
(* parts of one list; and what is in the file while it is written is the   *)
(* beginning of what is written.                                           *)
(***************************************************************************)
Lists ==
  ~collided =>
    /\ Len(queue) <= QueueSize /\ Distinct(queue)
    /\ Distinct(kept) /\ Distinct(pending) /\ Ids(kept) \cap Ids(pending) = {}
    /\ Len(kept) + Len(pending) <= QueueSize
    /\ saving => IsPrefix(queue, kept)
    /\ \A r \in Run : run[r] = "writing" =>
         /\ IsPrefix(queue, MergedQueue(r))
         /\ ~saving /\ \A w \in Run \ {r} : run[w] # "writing"

(* Without overlap, who writes is alone, and what a command holds is in the queue. *)
Alone ==
  ~overlapped =>
    /\ \A r \in Run : run[r] = "merging" => old[r] = queue
    /\ \A r \in Run : run[r] = "writing" =>
         desk = "free" /\ \A w \in Run \ {r} : run[w] \notin {"merging", "writing"}
    /\ saving => \A w \in Run : run[w] \notin {"merging", "writing"}
    /\ desk # "free" /\ ~saving => Ids(kept) \cup Ids(pending) \subseteq Ids(queue)

(* And if no write is cut off, an entry that is due is in the queue or with its writer. *)
Held ==
  ~overlapped /\ ~cut =>
    /\ desk = "free" /\ (\A r \in Run : run[r] # "writing") => ~torn /\ due \subseteq Ids(queue)
    /\ desk # "free" => due \subseteq Ids(kept) \cup Ids(pending)
    /\ desk # "free" /\ ~saving => ~torn
    /\ \A r \in Run : run[r] = "writing" => due \subseteq Ids(MergedQueue(r))

(* What is in front of a human has not been labelled, or it came again. *)
Weighed ==
  ~overlapped /\ ~killed =>
    /\ \A i, j \in 1 .. Len(cases) : i # j /\ cases[i].id = cases[j].id => cases[i].id \in again
    /\ desk = "free" => Ids(queue) \cap Ids(cases) \subseteq again
    /\ desk # "free" => (Ids(kept) \cup Ids(pending)) \cap Ids(cases) \subseteq again
    /\ \A r \in Run : run[r] = "writing" => Ids(MergedQueue(r)) \cap Ids(cases) \subseteq again

Summed == \A r \in Run : SumsUp(fresh[r], flagged[r])

IInv == TypeOK /\ Steps /\ Lists /\ Alone /\ Held /\ Weighed /\ Summed

(* An empty queue has no ids. *)
LEMMA NoIds == Ids(<<>>) = {} /\ Distinct(<<>>)
BY DEF Ids, Distinct

(* What is there of a text that is being written is the beginning of it. *)
LEMMA BegunIds ==
  ASSUME NEW text \in Seq(Entry), BeginsToWrite(text)
  PROVE  /\ queue' \in Seq(Entry) /\ torn' \in BOOLEAN /\ Len(queue') <= Len(text)
         /\ IsPrefix(queue', text) /\ Ids(queue') \subseteq Ids(text)
         /\ Distinct(text) => Distinct(queue')
<1>1. PICK n \in 0 .. Len(text) : queue' = SubSeq(text, 1, n)
  BY DEF BeginsToWrite
<1>2. torn' \in BOOLEAN
  BY DEF BeginsToWrite
<1> DEFINE c == SubSeq(text, 1, n)
<1>3. /\ c \in Seq(Entry) /\ Len(c) = n /\ n \in Nat /\ Len(text) \in Nat
      /\ \A i \in 1 .. n : c[i] = text[i] /\ i \in 1 .. Len(text)
  OBVIOUS
<1>4. SubSeq(c, 1, Len(c)) = SubSeq(text, 1, Len(c))
  BY <1>3
<1>5. queue' = c
  BY <1>1
<1> HIDE DEF c
<1>6. Ids(c) \subseteq Ids(text) /\ (Distinct(text) => Distinct(c))
  BY <1>3 DEF Ids, Distinct
<1>7. IsPrefix(c, text)
  BY <1>3, <1>4 DEF IsPrefix
<1>8. QED
  BY <1>2, <1>3, <1>5, <1>6, <1>7

(* Who writes alone writes what it means to. *)
LEMMA WrittenText ==
  ASSUME queue \in Seq(Entry), NEW text \in Seq(Entry), NEW others, Writes(text, others)
  PROVE  /\ queue' \in Seq(Entry) /\ torn' \in BOOLEAN
         /\ ~others /\ IsPrefix(queue, text) => queue' = text /\ torn' = FALSE
<1>1. CASE queue' = text /\ torn' = FALSE
  BY <1>1
<1>2. CASE ~(queue' = text /\ torn' = FALSE)
  <2>1. /\ others \/ ~IsPrefix(queue, text)
        /\ torn' \in BOOLEAN
        /\ \E n \in 0 .. Len(queue) : queue' = text \o SubSeq(queue, n + 1, Len(queue))
    BY <1>2 DEF Writes
  <2>2. PICK n \in 0 .. Len(queue) : queue' = text \o SubSeq(queue, n + 1, Len(queue))
    BY <2>1
  <2>3. SubSeq(queue, n + 1, Len(queue)) \in Seq(Entry)
    OBVIOUS
  <2>4. QED
    BY <2>1, <2>2, <2>3
<1>3. QED
  BY <1>1, <1>2

(* What a run writes is what it flagged and what it read, up to the cap. *)
LEMMA MergedQueueIds ==
  ASSUME IInv, NEW r \in Run
  PROVE  /\ Merged(fresh[r], old[r]) \in Seq(Entry)
         /\ Ids(Merged(fresh[r], old[r])) = Ids(fresh[r]) \cup Ids(old[r])
         /\ MergedQueue(r) \in Seq(Entry) /\ Len(MergedQueue(r)) <= QueueSize
         /\ Distinct(MergedQueue(r)) /\ Ids(MergedQueue(r)) \subseteq Ids(Merged(fresh[r], old[r]))
<1>1. fresh[r] \in Seq(Entry) /\ old[r] \in Seq(Entry) /\ Distinct(fresh[r])
  BY DEF IInv, TypeOK, Steps
<1>2. QED
  BY <1>1, MergedIds, CappedIds DEF MergedQueue

(* The invariant holds at the start. *)
LEMMA InitIInv == Init => IInv
<1> SUFFICES ASSUME Init PROVE IInv
  OBVIOUS
<1> USE NoIds DEF Init
<1>1. TypeOK
  <2>1. <<>> \in Seq(Entry) /\ <<>> \in Seq(Case) /\ <<>> \in Seq(Flag)
    OBVIOUS
  <2>2. /\ run \in [Run -> {"running", "merging", "writing", "ended"}]
        /\ fresh \in [Run -> Seq(Entry)] /\ old \in [Run -> Seq(Entry)]
        /\ flagged \in [Run -> Seq(Flag)]
    BY <2>1
  <2>3. sessions \in 0 .. MaxSessions
    BY LabelsAssumption
  <2>4. QED
    BY <2>1, <2>2, <2>3 DEF TypeOK
<1>2. Steps /\ Lists
  BY LabelsAssumption DEF Steps, Lists
<1>3. Alone /\ Held /\ Weighed
  BY DEF Alone, Held, Weighed
<1>4. Summed
  BY NothingSumsUp DEF Summed
<1>5. QED
  BY <1>1, <1>2, <1>3, <1>4 DEF IInv

(* A run that ends queues what it flagged, and holds the queue there was. *)
LEMMA EndRunIInv ==
  ASSUME IInv, NEW r \in Run, EndRun(r)
  PROVE  IInv'
<1>1. PICK o \in Outcomes : \E drawn \in SUBSET (1 .. Len(o.runs)) :
        /\ flagged' = [flagged EXCEPT ![r] = Flagged(o, drawn)]
        /\ fresh' = [fresh EXCEPT ![r] =
             [i \in 1 .. Len(BuildQueue(Flagged(o, drawn))) |->
                OfRun(BuildQueue(Flagged(o, drawn))[i], r)]]
  BY DEF EndRun
<1>0. PICK drawn \in SUBSET (1 .. Len(o.runs)) :
        /\ flagged' = [flagged EXCEPT ![r] = Flagged(o, drawn)]
        /\ fresh' = [fresh EXCEPT ![r] =
             [i \in 1 .. Len(BuildQueue(Flagged(o, drawn))) |->
                OfRun(BuildQueue(Flagged(o, drawn))[i], r)]]
  BY <1>1
<1> DEFINE fs == Flagged(o, drawn)
           q == [i \in 1 .. Len(BuildQueue(fs)) |-> OfRun(BuildQueue(fs)[i], r)]
<1>2. fs \in Seq(Flag)
  BY FlaggedHistory
<1> HIDE DEF fs
<1>3. q \in Seq(Entry) /\ Distinct(q) /\ SumsUp(q, fs)
  BY <1>2, FreshSummary
<1>4. flagged' = [flagged EXCEPT ![r] = fs] /\ fresh' = [fresh EXCEPT ![r] = q]
  BY <1>0 DEF fs
<1> HIDE DEF q
<1>5. /\ run[r] = "running" /\ run' = [run EXCEPT ![r] = "merging"]
      /\ old' = [old EXCEPT ![r] = queue]
      /\ overlapped' = (overlapped \/ saving \/ Writers(Run) # {})
      /\ UNCHANGED <<queue, torn, cases, desk, pending, kept, saving, sheet, sessions,
                     due, collided, cut, killed, again>>
  BY DEF EndRun, fileVars, deskVars
<1>6. \A w \in Run \ {r} : fresh'[w] = fresh[w] /\ old'[w] = old[w] /\ run'[w] = run[w]
  BY <1>4, <1>5 DEF IInv, TypeOK
<1>7. run'[r] = "merging" /\ fresh'[r] = q /\ old'[r] = queue
  BY <1>4, <1>5 DEF IInv, TypeOK
<1>8. \A w \in Run : run'[w] = "writing" =>
        w # r /\ run[w] = "writing" /\ MergedQueue(w)' = MergedQueue(w)
  BY <1>6, <1>7 DEF MergedQueue
<1>9. TypeOK'
  <2>1. overlapped' \in BOOLEAN
    BY <1>5
  <2>2. QED
    BY <1>2, <1>3, <1>4, <1>5, <2>1 DEF IInv, TypeOK
<1>10. Steps'
  BY <1>3, <1>5, <1>6, <1>7 DEF IInv, Steps
<1>11. Lists'
  BY <1>5, <1>6, <1>7, <1>8 DEF IInv, Lists
<1>12. ~overlapped' => ~overlapped /\ ~saving /\ \A w \in Run : run'[w] # "writing" /\ run[w] # "writing"
  BY <1>5, <1>8 DEF Writers
<1>13. Alone'
  BY <1>5, <1>6, <1>7, <1>12 DEF IInv, Alone
<1>14. Held' /\ Weighed'
  BY <1>5, <1>12 DEF IInv, Held, Weighed
<1>15. Summed'
  <2>1. fresh'[r] = q /\ flagged'[r] = fs
    BY <1>4 DEF IInv, TypeOK
  <2>2. \A w \in Run \ {r} : fresh'[w] = fresh[w] /\ flagged'[w] = flagged[w]
    BY <1>4 DEF IInv, TypeOK
  <2>3. QED
    BY <1>3, <2>1, <2>2 DEF IInv, Summed
<1>16. QED
  BY <1>9, <1>10, <1>11, <1>13, <1>14, <1>15 DEF IInv

(***************************************************************************)
(* Nothing is lost in a merge but what the cap pushes out, unless the run  *)
(* held an older queue or a session holds the one that is written over.    *)
(***************************************************************************)
LEMMA MergeRunIInv ==
  ASSUME IInv, NEW r \in Run, MergeRun(r)
  PROVE  IInv'
<1> DEFINE merged == Merged(fresh[r], old[r])
           text == MergedQueue(r)
<1>1. /\ Ids(merged) = Ids(fresh[r]) \cup Ids(old[r])
      /\ text \in Seq(Entry) /\ Len(text) <= QueueSize /\ Distinct(text)
      /\ Ids(text) \subseteq Ids(merged)
  BY MergedQueueIds
<1>2. /\ run[r] = "merging" /\ run' = [run EXCEPT ![r] = "writing"]
      /\ BeginsToWrite(text)
      /\ due' = (due \cup Ids(fresh[r])) \ (Ids(merged) \ Ids(text))
      /\ overlapped' = (overlapped \/ desk # "free" \/ Holders(Run \ {r}) # {})
      /\ collided' = (collided \/ saving \/ Writers(Run \ {r}) # {})
      /\ again' = again \cup (Ids(fresh[r]) \cap Ids(cases))
      /\ UNCHANGED <<cases, fresh, old, flagged, desk, pending, kept, saving, sheet, sessions,
                     cut, killed>>
  BY DEF MergeRun, deskVars
<1>3. \A w \in Run : MergedQueue(w)' = MergedQueue(w)
  BY <1>2 DEF MergedQueue
<1>4. \A w \in Run : run'[w] = IF w = r THEN "writing" ELSE run[w]
  BY <1>2 DEF IInv, TypeOK
<1> HIDE DEF merged, text
<1>5. /\ queue' \in Seq(Entry) /\ torn' \in BOOLEAN /\ Len(queue') <= Len(text)
      /\ IsPrefix(queue', text) /\ Ids(queue') \subseteq Ids(text) /\ Distinct(queue')
  BY <1>1, <1>2, BegunIds
<1>6. Len(queue') <= QueueSize
  BY <1>1, <1>5, LabelsAssumption
<1>7. ~overlapped' => /\ ~overlapped /\ desk = "free" /\ old[r] = queue
                      /\ \A w \in Run \ {r} : run[w] \notin {"merging", "writing"}
  BY <1>2 DEF IInv, Alone, Holders
<1>8. ~collided' => ~collided /\ ~saving /\ \A w \in Run \ {r} : run[w] # "writing"
  BY <1>2 DEF Writers
<1>9. TypeOK'
  <2>1. overlapped' \in BOOLEAN /\ collided' \in BOOLEAN
    BY <1>2
  <2>2. QED
    BY <1>2, <1>5, <2>1 DEF IInv, TypeOK
<1>10. Steps'
  <2>1. collided' => overlapped'
    <3>1. saving => desk # "free"
      BY DEF IInv, Steps
    <3>2. Writers(Run \ {r}) \subseteq Holders(Run \ {r})
      BY DEF Writers, Holders
    <3>3. QED
      BY <1>2, <3>1, <3>2 DEF IInv, Steps
  <2>2. QED
    BY <1>2, <2>1 DEF IInv, Steps
<1>11. Lists'
  BY <1>2, <1>3, <1>4, <1>5, <1>6, <1>8 DEF IInv, Lists, text
<1>12. Alone'
  BY <1>2, <1>4, <1>7 DEF IInv, Alone, Steps
<1>13. Held'
  <2>1. ~overlapped' /\ ~cut => due \subseteq Ids(queue)
    BY <1>2, <1>7 DEF IInv, Held
  <2>2. ~overlapped' /\ ~cut => due' \subseteq Ids(text)
    BY <1>1, <1>2, <1>7, <2>1
  <2>3. QED
    BY <1>2, <1>3, <1>4, <1>7, <2>2 DEF Held, text
<1>14. Weighed'
  <2>1. ~overlapped' /\ ~killed =>
          Ids(text) \cap Ids(cases) \subseteq again' /\ Ids(queue') \cap Ids(cases) \subseteq again'
    BY <1>1, <1>2, <1>5, <1>7 DEF IInv, Weighed
  <2>2. QED
    BY <1>2, <1>3, <1>4, <1>7, <2>1 DEF IInv, Weighed, text
<1>15. Summed'
  BY <1>2 DEF IInv, Summed
<1>16. QED
  BY <1>9, <1>10, <1>11, <1>12, <1>13, <1>14, <1>15 DEF IInv

(* What a run wrote alone is what it merged; what it was killed over may not be. *)
LEMMA RunOverIInv ==
  ASSUME IInv, NEW r \in Run, WriteMerged(r) \/ KillRun(r)
  PROVE  IInv'
<1> DEFINE text == MergedQueue(r)
<1>1. /\ run[r] \in {"merging", "writing"} /\ run' = [run EXCEPT ![r] = "ended"]
      /\ fresh' = [fresh EXCEPT ![r] = <<>>] /\ old' = [old EXCEPT ![r] = <<>>]
      /\ flagged' = [flagged EXCEPT ![r] = <<>>]
      /\ UNCHANGED <<cases, desk, pending, kept, saving, sheet, sessions, due, overlapped,
                     collided, killed, again>>
  BY DEF WriteMerged, KillRun, RunIsOver, deskVars, histVars
<1>2. /\ \A w \in Run \ {r} : run'[w] = run[w] /\ old'[w] = old[w] /\ fresh'[w] = fresh[w]
      /\ run'[r] = "ended" /\ fresh'[r] = <<>>
      /\ \A w \in Run \ {r} : MergedQueue(w)' = MergedQueue(w)
  BY <1>1 DEF IInv, TypeOK, MergedQueue
<1>3. text \in Seq(Entry) /\ Len(text) <= QueueSize /\ Distinct(text)
  BY MergedQueueIds
<1> HIDE DEF text
<1>4. /\ queue' \in Seq(Entry) /\ torn' \in BOOLEAN /\ cut' \in BOOLEAN
      /\ ~collided => Len(queue') <= QueueSize /\ Distinct(queue')
      /\ ~collided /\ queue' # queue => run[r] = "writing" /\ queue' = text
      /\ ~cut' => ~cut /\ (run[r] = "writing" => WriteMerged(r))
      /\ WriteMerged(r) /\ ~collided => run[r] = "writing" /\ queue' = text /\ torn' = FALSE
      /\ KillRun(r) => queue' = queue /\ torn' = torn
  <2>1. CASE WriteMerged(r)
    <3>1. /\ run[r] = "writing" /\ cut' = cut
          /\ Writes(text, saving \/ Writers(Run \ {r}) # {})
      BY <2>1 DEF WriteMerged, text, histVars
    <3>2. /\ queue' \in Seq(Entry) /\ torn' \in BOOLEAN
          /\ ~(saving \/ Writers(Run \ {r}) # {}) /\ IsPrefix(queue, text) =>
               queue' = text /\ torn' = FALSE
      BY <1>3, <3>1, WrittenText DEF IInv, TypeOK
    <3>3. ~collided => IsPrefix(queue, text) /\ ~saving /\ Writers(Run \ {r}) = {}
      BY <3>1 DEF IInv, Lists, Writers, text
    <3>4. KillRun(r) => queue' = queue /\ torn' = torn
      BY DEF KillRun, fileVars
    <3>5. QED
      BY <1>3, <2>1, <3>1, <3>2, <3>3, <3>4 DEF IInv, TypeOK
  <2>2. CASE ~WriteMerged(r)
    <3>1. queue' = queue /\ torn' = torn /\ cut' = (cut \/ run[r] = "writing")
      BY <2>2 DEF KillRun, fileVars
    <3>2. QED
      BY <2>2, <3>1 DEF IInv, TypeOK, Lists
  <2>3. QED
    BY <2>1, <2>2
<1>5. TypeOK'
  BY <1>1, <1>4 DEF IInv, TypeOK
<1>6. Steps'
  BY <1>1, <1>2, NoIds DEF IInv, Steps
<1>7. ~overlapped => ~collided
  BY DEF IInv, Steps
<1>8. Lists'
  <2>1. ASSUME ~collided, queue' # queue
        PROVE  ~saving /\ \A w \in Run : run'[w] # "writing"
    BY <1>2, <1>4, <2>1 DEF IInv, Lists
  <2>2. CASE queue' = queue
    BY <1>1, <1>2, <1>4, <2>2 DEF IInv, Lists
  <2>3. CASE queue' # queue
    BY <1>1, <1>2, <1>4, <2>1, <2>3 DEF IInv, Lists
  <2>4. QED
    BY <2>2, <2>3
<1>9. ASSUME ~overlapped, run[r] = "writing"
      PROVE  desk = "free" /\ ~saving /\ \A w \in Run : run'[w] \notin {"merging", "writing"}
  BY <1>2, <1>9 DEF IInv, Alone, Steps
<1>10. Alone'
  <2>1. CASE queue' = queue
    BY <1>1, <1>2, <2>1 DEF IInv, Alone
  <2>2. CASE queue' # queue
    BY <1>1, <1>4, <1>7, <1>9, <2>2 DEF IInv, Alone
  <2>3. QED
    BY <2>1, <2>2
<1>11. Held'
  <2> SUFFICES ASSUME ~overlapped, ~cut' PROVE Held'
    BY <1>1 DEF Held
  <2>1. CASE run[r] = "writing"
    BY <1>1, <1>4, <1>7, <1>9, <2>1 DEF IInv, Held, text
  <2>2. CASE run[r] = "merging"
    <3>1. queue' = queue /\ torn' = torn /\ ~cut
      BY <1>4, <1>7, <2>2
    <3>2. \A w \in Run : run'[w] = "writing" <=> run[w] = "writing"
      BY <1>2, <2>2
    <3>3. QED
      BY <1>1, <1>2, <3>1, <3>2 DEF IInv, Held
  <2>3. QED
    BY <1>1, <2>1, <2>2
<1>12. Weighed'
  <2>1. CASE queue' = queue
    BY <1>1, <1>2, <2>1 DEF IInv, Weighed
  <2>2. CASE queue' # queue
    BY <1>1, <1>2, <1>4, <1>7, <1>9, <2>2 DEF IInv, Weighed, text
  <2>3. QED
    BY <2>1, <2>2
<1>13. Summed'
  <2>1. fresh'[r] = <<>> /\ flagged'[r] = <<>>
    BY <1>1 DEF IInv, TypeOK
  <2>2. \A w \in Run \ {r} : fresh'[w] = fresh[w] /\ flagged'[w] = flagged[w]
    BY <1>1 DEF IInv, TypeOK
  <2>3. QED
    BY <2>1, <2>2, NothingSumsUp DEF IInv, Summed
<1>14. QED
  BY <1>5, <1>6, <1>8, <1>10, <1>11, <1>12, <1>13 DEF IInv

(* A run that cannot read the queue leaves everything as it is. *)
LEMMA FailToReadIInv ==
  ASSUME IInv, NEW r \in Run, FailToRead(r)
  PROVE  IInv'
<1>1. /\ run[r] = "running" /\ run' = [run EXCEPT ![r] = "ended"]
      /\ UNCHANGED <<queue, torn, cases, fresh, old, flagged, desk, pending, kept, saving, sheet,
                     sessions, due, overlapped, collided, cut, killed, again>>
  BY DEF FailToRead, fileVars, deskVars, histVars
<1>2. /\ \A w \in Run \ {r} : run'[w] = run[w]
      /\ run'[r] = "ended" /\ \A w \in Run : MergedQueue(w)' = MergedQueue(w)
  BY <1>1 DEF IInv, TypeOK, MergedQueue
<1>3. TypeOK' /\ Steps' /\ Summed'
  BY <1>1 DEF IInv, TypeOK, Steps, Summed
<1>4. Lists' /\ Alone'
  BY <1>1, <1>2 DEF IInv, Lists, Alone
<1>5. Held' /\ Weighed'
  BY <1>1, <1>2 DEF IInv, Held, Weighed
<1>6. QED
  BY <1>3, <1>4, <1>5 DEF IInv

(* A step of the desk leaves the runs and what they write. *)
LEMMA RunsStay ==
  ASSUME UNCHANGED runVars
  PROVE  /\ UNCHANGED <<run, fresh, old, flagged>>
         /\ \A w \in Run : MergedQueue(w)' = MergedQueue(w)
BY DEF runVars, MergedQueue

(* The session at the desk goes through the queue it read. *)
LEMMA SitsIInv ==
  ASSUME IInv, SitDown \/ Export \/ Import
  PROVE  IInv'
<1>0. /\ UNCHANGED <<run, fresh, old, flagged>>
      /\ \A w \in Run : MergedQueue(w)' = MergedQueue(w)
  BY RunsStay DEF SitDown, Export, Import, ReadsQueue
<1>1. CASE SitDown \/ Import
  <2>1. /\ desk = "free" /\ desk' \in {"terminal", "import"} /\ ~torn
        /\ pending' = queue /\ kept' = <<>>
        /\ sessions < MaxSessions /\ sessions' = sessions + 1
        /\ overlapped' = (overlapped \/ Writers(Run) # {})
        /\ UNCHANGED <<queue, torn, cases, saving, sheet, due, collided, cut, killed, again>>
    BY <1>1 DEF SitDown, Import, ReadsQueue, fileVars
  <2>2. TypeOK'
    <3>1. overlapped' \in BOOLEAN /\ sessions' \in 0 .. MaxSessions
      BY <2>1, LabelsAssumption DEF IInv, TypeOK
    <3>2. QED
      BY <1>0, <2>1, <3>1 DEF IInv, TypeOK
  <2>3. ~saving
    BY <2>1 DEF IInv, Steps
  <2>4. Steps'
    BY <1>0, <2>1, <2>3 DEF IInv, Steps
  <2>5. Lists'
    BY <1>0, <2>1, <2>3, NoIds, LabelsAssumption DEF IInv, Lists, TypeOK
  <2>6. ~overlapped' => ~overlapped /\ \A w \in Run : run[w] # "writing"
    BY <2>1 DEF Writers
  <2>7. Alone'
    BY <1>0, <2>1, <2>3, <2>6, NoIds DEF IInv, Alone
  <2>8. Held' /\ Weighed' /\ Summed'
    BY <1>0, <2>1, <2>3, <2>6, NoIds DEF IInv, Held, Weighed, Summed
  <2>9. QED
    BY <2>2, <2>4, <2>5, <2>7, <2>8 DEF IInv
<1>2. CASE Export
  <2>1. UNCHANGED <<queue, torn, cases, desk, pending, kept, saving, sessions,
                    due, overlapped, collided, cut, killed, again>>
    BY <1>2 DEF Export, fileVars, histVars
  <2>2. TypeOK' /\ Steps' /\ Lists'
    BY <1>0, <2>1 DEF IInv, TypeOK, Steps, Lists
  <2>3. Alone' /\ Held' /\ Weighed' /\ Summed'
    BY <1>0, <2>1 DEF IInv, Alone, Held, Weighed, Summed
  <2>4. QED
    BY <2>2, <2>3 DEF IInv
<1>3. QED
  BY <1>1, <1>2

(***************************************************************************)
(* A response that is labelled is no longer among those the session holds, *)
(* and was labelled before only if it was flagged again since.             *)
(***************************************************************************)
LEMMA LabelledIInv ==
  ASSUME IInv, desk # "free", pending # <<>>, Labelled
  PROVE  IInv'
<1> DEFINE e == Head(pending)
           c == [id |-> e.id, run |-> e.run]
<1>0. /\ UNCHANGED <<run, fresh, old, flagged>>
      /\ \A w \in Run : MergedQueue(w)' = MergedQueue(w)
  BY RunsStay DEF Labelled
<1>1. /\ cases' = Append(cases, c) /\ pending' = Tail(pending) /\ due' = due \ {e.id}
      /\ UNCHANGED <<queue, torn, desk, kept, saving, sheet, sessions,
                     overlapped, collided, cut, killed, again>>
  BY DEF Labelled, AppendCase, fileVars
<1>2. /\ e \in Entry /\ Tail(pending) \in Seq(Entry) /\ Len(Tail(pending)) = Len(pending) - 1
      /\ Ids(pending) = {e.id} \cup Ids(Tail(pending))
      /\ Distinct(pending) => Distinct(Tail(pending)) /\ e.id \notin Ids(Tail(pending))
  BY TailIds DEF IInv, TypeOK
<1>3. c \in Case /\ c.id = e.id
  BY <1>2 DEF Entry, Case
<1> HIDE DEF e, c
<1>4. cases' \in Seq(Case) /\ Ids(cases') = Ids(cases) \cup {e.id}
  BY <1>1, <1>3, AppendIds DEF IInv, TypeOK
<1>5. ~saving /\ (~overlapped => \A w \in Run : run[w] # "writing")
  BY DEF IInv, Steps, Alone
<1>6. TypeOK'
  BY <1>0, <1>1, <1>2, <1>4 DEF IInv, TypeOK
<1>7. Steps'
  BY <1>0, <1>1, <1>5 DEF IInv, Steps
<1>8. Lists'
  <2>1. ~collided => Len(kept) + Len(Tail(pending)) <= QueueSize
    BY <1>2, LabelsAssumption DEF IInv, Lists, TypeOK
  <2>2. QED
    BY <1>0, <1>1, <1>2, <1>5, <2>1 DEF IInv, Lists
<1>9. ASSUME ~overlapped
      PROVE  Distinct(pending) /\ e.id \notin Ids(Tail(pending)) /\ e.id \notin Ids(kept)
  BY <1>2, <1>9 DEF IInv, Steps, Lists
<1>10. Alone'
  BY <1>0, <1>1, <1>2, <1>5 DEF IInv, Alone
<1>11. Held'
  BY <1>0, <1>1, <1>2, <1>5 DEF IInv, Held
<1>12. Weighed'
  <2> SUFFICES ASSUME ~ overlapped, ~ killed
               PROVE  /\ \A i, j \in 1 .. Len(cases') :
                           i # j /\ cases'[i].id = cases'[j].id => cases'[i].id \in again
                      /\ (Ids(kept) \cup Ids(Tail(pending))) \cap Ids(cases') \subseteq again
    BY <1>0, <1>1, <1>5 DEF Weighed
  <2>1. (Ids(kept) \cup Ids(pending)) \cap Ids(cases) \subseteq again
    BY DEF IInv, Weighed
  <2>2. (Ids(kept) \cup Ids(Tail(pending))) \cap Ids(cases') \subseteq again
    BY <1>2, <1>4, <1>9, <2>1
  <2>3. e.id \in Ids(cases) => e.id \in again
    BY <1>2, <2>1
  <2>4. ASSUME NEW i \in 1 .. Len(cases'), NEW j \in 1 .. Len(cases'), i # j,
               cases'[i].id = cases'[j].id
        PROVE  cases'[i].id \in again
    <3>1. /\ Len(cases) \in Nat /\ Len(cases') = Len(cases) + 1 /\ cases'[Len(cases) + 1] = c
          /\ \A k \in 1 .. Len(cases) : cases'[k] = cases[k] /\ cases[k].id \in Ids(cases)
      BY <1>1, <1>3 DEF IInv, TypeOK, Ids
    <3>2. CASE i = Len(cases) + 1 \/ j = Len(cases) + 1
      BY <1>3, <2>3, <2>4, <3>1, <3>2
    <3>3. CASE i \in 1 .. Len(cases) /\ j \in 1 .. Len(cases)
      BY <2>4, <3>1, <3>3 DEF IInv, Weighed
    <3>4. QED
      BY <3>1, <3>2, <3>3
  <2>5. QED
    BY <2>2, <2>4
<1>13. Summed'
  BY <1>0 DEF IInv, Summed
<1>14. QED
  BY <1>6, <1>7, <1>8, <1>10, <1>11, <1>12, <1>13 DEF IInv

(* Skipped, not marked, or left with all after it. *)
LEMMA PassedOverIInv ==
  ASSUME IInv, Skip \/ ImportUnmarked \/ Quit
  PROVE  IInv'
<1> DEFINE e == Head(pending)
<1>0. /\ UNCHANGED <<run, fresh, old, flagged>>
      /\ \A w \in Run : MergedQueue(w)' = MergedQueue(w)
  BY RunsStay DEF Skip, ImportUnmarked, Quit
<1>1. /\ desk # "free" /\ pending # <<>>
      /\ UNCHANGED <<queue, torn, cases, desk, saving, sheet, sessions,
                     overlapped, collided, cut, killed, again>>
  BY DEF Skip, ImportUnmarked, Quit, fileVars, histVars
<1>2. /\ e \in Entry /\ Tail(pending) \in Seq(Entry) /\ Len(Tail(pending)) = Len(pending) - 1
      /\ Ids(pending) = {e.id} \cup Ids(Tail(pending))
      /\ Distinct(pending) => Distinct(Tail(pending)) /\ e.id \notin Ids(Tail(pending))
  BY <1>1, TailIds DEF IInv, TypeOK
<1>3. ~saving /\ (~overlapped => \A w \in Run : run[w] # "writing")
  BY <1>1 DEF IInv, Steps, Alone
<1>4. Summed'
  BY <1>0 DEF IInv, Summed
<1>5. CASE Skip
  <2>1. desk = "terminal" /\ pending' = Tail(pending) /\ due' = due \ {e.id} /\ kept' = kept
    BY <1>5 DEF Skip
  <2> HIDE DEF e
  <2>2. ~collided => Len(kept) + Len(Tail(pending)) <= QueueSize
    BY <1>2, LabelsAssumption DEF IInv, Lists, TypeOK
  <2>3. TypeOK' /\ Steps'
    BY <1>0, <1>1, <1>2, <1>3, <2>1 DEF IInv, TypeOK, Steps
  <2>4. Lists'
    BY <1>0, <1>1, <1>2, <1>3, <2>1, <2>2 DEF IInv, Lists
  <2>5. Alone' /\ Held' /\ Weighed'
    BY <1>0, <1>1, <1>2, <1>3, <2>1 DEF IInv, Alone, Held, Weighed
  <2>6. QED
    BY <1>4, <2>3, <2>4, <2>5 DEF IInv
<1>6. CASE ImportUnmarked
  <2>1. /\ desk = "import" /\ kept' = Append(kept, e) /\ pending' = Tail(pending)
        /\ UNCHANGED due
    BY <1>6 DEF ImportUnmarked, histVars
  <2> HIDE DEF e
  <2>2. /\ kept' \in Seq(Entry) /\ Len(kept') = Len(kept) + 1
        /\ Ids(kept') = Ids(kept) \cup {e.id}
        /\ Distinct(kept) /\ e.id \notin Ids(kept) => Distinct(kept')
    BY <1>2, <2>1, AppendIds DEF IInv, TypeOK
  <2>3. TypeOK' /\ Steps'
    BY <1>0, <1>1, <1>2, <1>3, <2>1, <2>2 DEF IInv, TypeOK, Steps
  <2>4. Lists'
    <3>1. ~collided => Len(kept') + Len(Tail(pending)) <= QueueSize
      BY <1>2, <2>2, LabelsAssumption DEF IInv, Lists, TypeOK
    <3>2. QED
      BY <1>0, <1>1, <1>2, <1>3, <2>1, <2>2, <3>1 DEF IInv, Lists
  <2>5. Alone' /\ Held' /\ Weighed'
    BY <1>0, <1>1, <1>2, <1>3, <2>1, <2>2 DEF IInv, Alone, Held, Weighed
  <2>6. QED
    BY <1>4, <2>3, <2>4, <2>5 DEF IInv
<1>7. CASE Quit
  <2>1. desk = "terminal" /\ kept' = pending /\ pending' = <<>> /\ UNCHANGED due /\ kept = <<>>
    BY <1>7 DEF Quit, Rest, histVars, IInv, Steps
  <2>2. TypeOK' /\ Steps' /\ Lists'
    BY <1>0, <1>1, <1>3, <2>1, NoIds DEF IInv, TypeOK, Steps, Lists
  <2>3. Alone' /\ Held' /\ Weighed'
    BY <1>0, <1>1, <1>3, <2>1, NoIds DEF IInv, Alone, Held, Weighed
  <2>4. QED
    BY <1>4, <2>2, <2>3 DEF IInv
<1>8. QED
  BY <1>5, <1>6, <1>7

(* What remains is written over the queue. *)
LEMMA WriteBackIInv ==
  ASSUME IInv, WriteBack \/ WrittenBack
  PROVE  IInv'
<1>0. /\ UNCHANGED <<run, fresh, old, flagged>>
      /\ \A w \in Run : MergedQueue(w)' = MergedQueue(w)
  BY RunsStay DEF WriteBack, WrittenBack
<1>1. Summed'
  BY <1>0 DEF IInv, Summed
<1>2. CASE WriteBack
  <2>1. /\ desk # "free" /\ pending = <<>> /\ ~saving /\ saving' = TRUE
        /\ BeginsToWrite(kept)
        /\ overlapped' = (overlapped \/ Holders(Run) # {})
        /\ collided' = (collided \/ Writers(Run) # {})
        /\ UNCHANGED <<cases, desk, pending, kept, sheet, sessions, due, cut, killed, again>>
    BY <1>2 DEF WriteBack
  <2>2. /\ queue' \in Seq(Entry) /\ torn' \in BOOLEAN /\ Len(queue') <= Len(kept)
        /\ IsPrefix(queue', kept) /\ (Distinct(kept) => Distinct(queue'))
    BY <2>1, BegunIds DEF IInv, TypeOK
  <2>3. TypeOK'
    <3>1. overlapped' \in BOOLEAN /\ collided' \in BOOLEAN
      BY <2>1
    <3>2. QED
      BY <1>0, <2>1, <2>2, <3>1 DEF IInv, TypeOK
  <2>4. Steps'
    <3>1. Writers(Run) \subseteq Holders(Run)
      BY DEF Writers, Holders
    <3>2. QED
      BY <1>0, <2>1, <3>1 DEF IInv, Steps
  <2>5. Lists'
    <3>1. ~collided' => ~collided /\ \A w \in Run : run[w] # "writing"
      BY <2>1 DEF Writers
    <3>2. ~collided => Len(queue') <= QueueSize
      BY <2>1, <2>2, LabelsAssumption DEF IInv, TypeOK, Lists
    <3>3. QED
      BY <1>0, <2>1, <2>2, <3>1, <3>2 DEF IInv, Lists
  <2>6. ~overlapped' => ~overlapped /\ \A w \in Run : run[w] \notin {"merging", "writing"}
    BY <2>1 DEF Holders
  <2>7. Alone' /\ Held' /\ Weighed'
    BY <1>0, <2>1, <2>6 DEF IInv, Alone, Held, Weighed
  <2>8. QED
    BY <1>1, <2>3, <2>4, <2>5, <2>7 DEF IInv
<1>3. CASE WrittenBack
  <2>1. /\ saving /\ Writes(kept, Writers(Run) # {})
        /\ desk' = "free" /\ pending' = <<>> /\ kept' = <<>> /\ saving' = FALSE
        /\ UNCHANGED <<cases, sessions, due, overlapped, collided, cut, killed, again>>
    BY <1>3 DEF WrittenBack, DeskIsFree, histVars
  <2>2. desk # "free" /\ pending = <<>> /\ (~overlapped => ~collided)
    BY <2>1 DEF IInv, Steps
  <2>3. /\ queue' \in Seq(Entry) /\ torn' \in BOOLEAN
        /\ Writers(Run) = {} /\ IsPrefix(queue, kept) => queue' = kept /\ torn' = FALSE
    BY <2>1, WrittenText DEF IInv, TypeOK
  <2>4. ~collided => /\ Writers(Run) = {} /\ IsPrefix(queue, kept)
                     /\ \A w \in Run : run[w] # "writing"
    BY <2>1 DEF IInv, Lists, Writers
  <2>5. ~collided => queue' = kept /\ torn' = FALSE
    BY <2>3, <2>4
  <2>6. TypeOK' /\ Steps'
    BY <1>0, <2>1, <2>3 DEF IInv, TypeOK, Steps
  <2>7. Lists'
    BY <1>0, <2>1, <2>2, <2>4, <2>5, NoIds, LabelsAssumption DEF IInv, TypeOK, Lists
  <2>8. ~overlapped => \A w \in Run : run[w] \notin {"merging", "writing"}
    BY <2>1 DEF IInv, Alone
  <2>9. Alone' /\ Held' /\ Weighed'
    BY <1>0, <2>1, <2>2, <2>5, <2>8, NoIds DEF IInv, Alone, Held, Weighed
  <2>10. QED
    BY <1>1, <2>6, <2>7, <2>9 DEF IInv
<1>4. QED
  BY <1>2, <1>3

(* A session that is killed leaves the queue as it was, or as it was writing it. *)
LEMMA KillIInv ==
  ASSUME IInv, Kill \/ KillInAppend
  PROVE  IInv'
<1>0. /\ UNCHANGED <<run, fresh, old, flagged>>
      /\ \A w \in Run : MergedQueue(w)' = MergedQueue(w)
  BY RunsStay DEF Kill, KillInAppend
<1>1. /\ desk # "free" /\ desk' = "free" /\ pending' = <<>> /\ kept' = <<>> /\ saving' = FALSE
      /\ (cases' = cases \/ cases' = <<>>) /\ killed' = TRUE
      /\ UNCHANGED <<queue, torn, sessions, due, overlapped, collided, again>>
      /\ cut' = (cut \/ saving)
  <2>1. CASE Kill
    BY <2>1 DEF Kill, DeskIsFree, fileVars
  <2>2. CASE KillInAppend
    <3>1. ~saving /\ cut' = cut
      BY <2>2 DEF KillInAppend, IInv, Steps
    <3>2. cut' = (cut \/ saving)
      BY <3>1 DEF IInv, TypeOK
    <3>3. QED
      BY <2>2, <3>2 DEF KillInAppend, DeskIsFree, fileVars
  <2>3. QED
    BY <2>1, <2>2
<1>2. TypeOK'
  <2>1. <<>> \in Seq(Case) /\ <<>> \in Seq(Entry) /\ cut' \in BOOLEAN
    BY <1>1
  <2>2. cases' \in Seq(Case)
    BY <1>1, <2>1 DEF IInv, TypeOK
  <2>3. QED
    BY <1>0, <1>1, <2>1, <2>2 DEF IInv, TypeOK
<1>3. Steps'
  BY <1>0, <1>1 DEF IInv, Steps
<1>4. Lists'
  BY <1>0, <1>1, NoIds, LabelsAssumption DEF IInv, TypeOK, Lists
<1>5. Alone'
  BY <1>0, <1>1 DEF IInv, Alone
<1>6. Held'
  BY <1>0, <1>1 DEF IInv, Alone, Held
<1>7. Weighed' /\ Summed'
  BY <1>0, <1>1 DEF IInv, Weighed, Summed
<1>8. QED
  BY <1>2, <1>3, <1>4, <1>5, <1>6, <1>7 DEF IInv

(* Every run that ends and every step of a desk keeps the invariant. *)
LEMMA NextIInv == IInv /\ [Next]_vars => IInv'
<1> SUFFICES ASSUME IInv, [Next]_vars PROVE IInv'
  OBVIOUS
<1>1. ASSUME NEW r \in Run,
             EndRun(r) \/ FailToRead(r) \/ MergeRun(r) \/ WriteMerged(r) \/ KillRun(r)
      PROVE  IInv'
  BY <1>1, EndRunIInv, FailToReadIInv, MergeRunIInv, RunOverIInv
<1>2. CASE SitDown \/ Export \/ Import
  BY <1>2, SitsIInv
<1>3. CASE Label
  BY <1>3, LabelledIInv DEF Label
<1>4. CASE ImportMarked
  BY <1>4, LabelledIInv DEF ImportMarked
<1>5. CASE Skip \/ ImportUnmarked \/ Quit
  BY <1>5, PassedOverIInv
<1>6. CASE WriteBack \/ WrittenBack
  BY <1>6, WriteBackIInv
<1>7. CASE Kill \/ KillInAppend
  BY <1>7, KillIInv
<1>8. CASE UNCHANGED vars
  <2>1. UNCHANGED <<queue, torn, cases, run, fresh, old, flagged, desk, pending, kept, saving,
                    sheet, sessions, due, overlapped, collided, cut, killed, again>>
    BY <1>8 DEF vars, fileVars, runVars, deskVars, histVars
  <2>2. \A w \in Run : MergedQueue(w)' = MergedQueue(w)
    BY <2>1 DEF MergedQueue
  <2>3. QED
    BY <2>1, <2>2 DEF IInv, TypeOK, Steps, Lists, Alone, Held, Weighed, Summed
<1>9. QED
  BY <1>1, <1>2, <1>3, <1>4, <1>5, <1>6, <1>7, <1>8 DEF Next

(***************************************************************************)
(* What the lists of the queue, of the commands and of the cases have to   *)
(* do with each other, for every number of runs, sessions and responses.   *)
(***************************************************************************)
THEOREM LabelsInvariant == Spec => []IInv
<1>1. QED
  BY InitIInv, NextIInv, PTL DEF Spec

(* The queue stays within its size, and has a response once, unless two write it at once. *)
THEOREM QueueHasEachOnce == Spec => []QueueIsDistinct
<1>1. IInv => QueueIsDistinct
  BY DEF IInv, Lists, Distinct, QueueIsDistinct
<1>2. QED
  BY <1>1, LabelsInvariant, PTL

(***************************************************************************)
(* A run queues all it flagged, once each, with all the reasons and the    *)
(* verdict of the first time, the latest first: for every list of          *)
(* responses.                                                              *)
(***************************************************************************)
THEOREM RunsQueueWhatTheyFlag == Spec => []FreshIsWhatWasFlagged
<1>1. IInv => FreshIsWhatWasFlagged
  BY FreshSumsUp DEF IInv, Summed
<1>2. QED
  BY <1>1, LabelsInvariant, PTL

(***************************************************************************)
(* Nothing is lost, whoever quits or imports, unless commands overlap or   *)
(* one is killed while it writes the queue.                                *)
(***************************************************************************)
THEOREM NothingIsLost == Spec => []QueuedUntilHandled
<1>1. IInv => QueuedUntilHandled
  BY DEF IInv, Held, Writers, QueuedUntilHandled
<1>2. QED
  BY <1>1, LabelsInvariant, PTL

(* Nothing is labelled twice without overlap, a kill or a new flag. *)
THEOREM NothingIsWeighedTwice == Spec => []LabelledOnce
<1>1. IInv => LabelledOnce
  BY DEF IInv, TypeOK, Weighed, LabelledOnce
<1>2. QED
  BY <1>1, LabelsInvariant, PTL
=============================================================================
