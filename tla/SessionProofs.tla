---------------------------- MODULE SessionProofs ----------------------------
(***************************************************************************)
(* Proofs about Session, for every number of workers and of items: its     *)
(* types, that no scenario outlives the clients, that every process        *)
(* reports, in order, exactly what its items asked for, and that the       *)
(* workers together keep to the cap.                                       *)
(***************************************************************************)
EXTENDS Session, SequenceTheorems, Counting

(* Items are handed out, awaited and reported in their order. *)
Ordered ==
  /\ InOrder(todo)
  /\ \A w \in Worker :
       /\ InOrder(results[w])
       /\ \A j \in 1 .. Len(results[w]) : \A k \in 1 .. Len(todo) : results[w][j] < todo[k]
       /\ waiting[w] # 0 =>
            /\ \A k \in 1 .. Len(todo) : waiting[w] < todo[k]
            /\ \A j \in 1 .. Len(results[w]) : results[w][j] < waiting[w]

(* An item that was reported is that of a scenario which ended by itself. *)
Reported ==
  \A w \in Worker : \A i \in Item :
    /\ (\E j \in 1 .. Len(results[w]) : results[w][j] = i) <=> outcome[w][i] \in Verdicts
    /\ outcome[w][i] # "none" =>
         outcome[w][i] = scen[w][i] /\ scen[w][i] \in Ends \ {"cancelled"}

(* How far the scenarios of a process can be, from its phase. *)
Lives(w) ==
  /\ \A i \in Item :
       /\ phase[w] = "configured" <=> scen[w][i] = "unsubmitted"
       /\ phase[w] \in {"cancelling", "closed", "finished"} => scen[w][i] # "submitted"
       /\ phase[w] \in {"closed", "finished"} => scen[w][i] # "running"
       /\ phase[w] \in {"configured", "looping", "left"} => scen[w][i] # "cancelled"
  /\ \A i \in sending[w] : scen[w][i] = "running"

Lived == \A w \in Worker : Lives(w)

IInv == TypeOK /\ Ordered /\ Reported /\ Lived

(* What holds of the results so far holds of a later item after them. *)
LEMMA OrderedAppend ==
  ASSUME NEW s \in Seq(Item), NEW i \in Item, InOrder(s),
         \A j \in 1 .. Len(s) : s[j] < i
  PROVE  /\ Append(s, i) \in Seq(Item) /\ InOrder(Append(s, i))
         /\ \A j \in 1 .. Len(Append(s, i)) : Append(s, i)[j] = IF j = Len(s) + 1 THEN i ELSE s[j]
         /\ Len(Append(s, i)) = Len(s) + 1
  <1>1. /\ Append(s, i) \in Seq(Item) /\ Len(s) \in Nat
        /\ \A j \in 1 .. Len(Append(s, i)) : Append(s, i)[j] = IF j = Len(s) + 1 THEN i ELSE s[j]
        /\ Len(Append(s, i)) = Len(s) + 1
    OBVIOUS
  <1>2. InOrder(Append(s, i))
    BY <1>1 DEF InOrder
  <1> QED  BY <1>1, <1>2

(* Steps that change only scenarios and requests keep order and reports. *)
LEMMA KeepsOrder ==
  ASSUME Ordered, UNCHANGED <<todo, waiting, results>>
  PROVE  Ordered'
  BY DEF Ordered, InOrder

(* Whatever leaves results and ends alone keeps Reported. *)
LEMMA KeepsReports ==
  ASSUME TypeOK, Reported, UNCHANGED <<results, outcome>>,
         \A w \in Worker : \A i \in Item : scen[w][i] \in Ends => scen'[w][i] = scen[w][i]
  PROVE  Reported'
  BY DEF Reported, TypeOK

(* A scenario goes on, or comes to an end, and no other one changes. *)
LEMMA OneScenario ==
  ASSUME TypeOK, NEW w \in Worker, NEW i \in Item, scen[w][i] \in {"submitted", "running"},
         NEW e \in {"running"} \cup Ends, scen' = [scen EXCEPT ![w][i] = e]
  PROVE  /\ scen' \in [Worker -> [Item -> {"unsubmitted", "submitted", "running"} \cup Ends]]
         /\ \A v \in Worker : \A k \in Item : scen[v][k] \in Ends => scen'[v][k] = scen[v][k]
  <1>1. "submitted" \notin Ends /\ "running" \notin Ends
    BY DEF Ends, Verdicts
  <1>2. scen \in [Worker -> [Item -> {"unsubmitted", "submitted", "running"} \cup Ends]]
    BY DEF TypeOK
  <1> QED  BY <1>1, <1>2
-----------------------------------------------------------------------------
(* The invariant holds at the start, and each group of actions keeps it. *)
LEMMA InitInv == Init => IInv
  <1> SUFFICES ASSUME Init PROVE IInv
    OBVIOUS
  <1>1. Len(Items) \in Nat
    BY SessionAssumption
  <1>2. todo \in Seq(Item) /\ Len(todo) = Len(Items)
    BY <1>1 DEF Init, Item
  <1>3. TypeOK
    BY <1>1, <1>2 DEF Init, TypeOK, Phases, Item
  <1>4. Ordered
    <2>1. InOrder(todo)
      BY <1>1, <1>2 DEF Init, InOrder, Item
    <2>2. \A w \in Worker : results[w] = <<>> /\ waiting[w] = 0
      BY DEF Init
    <2> QED  BY <2>1, <2>2 DEF Ordered, InOrder
  <1>5. Reported
    BY DEF Init, Reported, Verdicts
  <1>6. Lived
    BY DEF Init, Lived, Lives
  <1> QED  BY <1>3, <1>4, <1>5, <1>6 DEF IInv

(* Submitting every item keeps the invariant. *)
LEMMA OpenInv ==
  ASSUME IInv, NEW w \in Worker, Open(w)
  PROVE  IInv'
  <1> USE DEF IInv, Open
  <1>1. TypeOK'
    BY DEF TypeOK, Phases
  <1>2. Ordered'
    BY KeepsOrder
  <1>3. Reported'
    <2>1. \A v \in Worker : \A i \in Item : scen[v][i] \in Ends => scen'[v][i] = scen[v][i]
      BY DEF TypeOK, Lived, Lives, Ends, Verdicts
    <2> QED  BY <2>1, KeepsReports
  <1>4. Lived'
    BY DEF TypeOK, Lived, Lives
  <1> QED  BY <1>1, <1>2, <1>3, <1>4

(* Waiting for the next item keeps the invariant. *)
LEMMA TakeItemInv ==
  ASSUME IInv, NEW w \in Worker, TakeItem(w)
  PROVE  IInv'
  <1> USE DEF IInv, TakeItem, Handed
  <1>1. /\ Head(todo) \in Item /\ Tail(todo) \in Seq(Item)
        /\ Head(todo) = todo[1] /\ Len(Tail(todo)) = Len(todo) - 1 /\ Len(todo) \in Nat \ {0}
        /\ \A k \in 1 .. Len(Tail(todo)) : Tail(todo)[k] = todo[k + 1]
    BY HeadTailProperties DEF TypeOK
  <1>2. TypeOK'
    BY <1>1 DEF TypeOK
  <1>3. Ordered'
    <2>1. InOrder(todo')
      BY <1>1 DEF Ordered, InOrder
    <2>2. \A k \in 1 .. Len(todo') : Head(todo) < todo'[k]
      BY <1>1 DEF Ordered, InOrder
    <2>3. \A v \in Worker : \A j \in 1 .. Len(results[v]) :
            results[v][j] < Head(todo) /\ \A k \in 1 .. Len(todo') : results[v][j] < todo'[k]
      BY <1>1 DEF Ordered
    <2>4. \A v \in Worker : waiting[v] # 0 => \A k \in 1 .. Len(todo') : waiting[v] < todo'[k]
      BY <1>1 DEF Ordered
    <2> QED  BY <2>1, <2>2, <2>3, <2>4 DEF Ordered, TypeOK, InOrder
  <1>4. Reported'
    BY KeepsReports
  <1>5. Lived'
    BY DEF Lived, Lives
  <1> QED  BY <1>2, <1>3, <1>4, <1>5

(* Reporting an item keeps the invariant. *)
LEMMA FinishItemInv ==
  ASSUME IInv, NEW w \in Worker, FinishItem(w)
  PROVE  IInv'
  <1> USE DEF IInv
  <1>1. PICK i \in Item :
          /\ phase[w] = "looping" /\ waiting[w] = i /\ scen[w][i] \in Ends
          /\ Answers(w, i)
          /\ outcome' = [outcome EXCEPT ![w][i] = scen[w][i]]
          /\ waiting' = [waiting EXCEPT ![w] = 0]
          /\ IF ExitFirst /\ scen[w][i] # "upheld"
               THEN phase' = [phase EXCEPT ![w] = "left"] /\ todo' = <<>>
               ELSE UNCHANGED <<phase, todo>>
          /\ UNCHANGED <<scen, sending, report>>
    BY DEF FinishItem
  <1>2. i # 0 /\ i \in Nat /\ results[w] \in Seq(Item)
    BY SessionAssumption DEF Item, TypeOK
  <1>3. \A j \in 1 .. Len(results[w]) : results[w][j] < i
    BY <1>1, <1>2 DEF Ordered
  <1>4. \A k \in 1 .. Len(todo) : i < todo[k]
    BY <1>1, <1>2 DEF Ordered
  <1>5. todo' \in {todo, <<>>} /\ todo' \in Seq(Item)
    <2>1. todo' = todo \/ todo' = <<>>
      BY <1>1
    <2>2. <<>> \in Seq(Item)
      OBVIOUS
    <2> QED  BY <2>1, <2>2 DEF TypeOK
  <1>6. results' \in {results, [results EXCEPT ![w] = Append(@, i)]}
    BY <1>1 DEF Answers
  <1>7. /\ Append(results[w], i) \in Seq(Item) /\ InOrder(Append(results[w], i))
        /\ Len(Append(results[w], i)) = Len(results[w]) + 1
        /\ \A j \in 1 .. Len(Append(results[w], i)) :
             Append(results[w], i)[j] = IF j = Len(results[w]) + 1 THEN i ELSE results[w][j]
    BY <1>2, <1>3, OrderedAppend DEF Ordered
  <1>8. TypeOK'
    <2>1. results' \in [Worker -> Seq(Item)]
      BY <1>6, <1>7 DEF TypeOK
    <2>2. outcome' \in [Worker -> [Item -> {"none"} \cup Ends]]
      BY <1>1 DEF TypeOK
    <2>3. phase' \in [Worker -> Phases] /\ waiting' \in [Worker -> Item \cup {0}]
      BY <1>1 DEF TypeOK, Phases
    <2> QED  BY <1>1, <1>5, <2>1, <2>2, <2>3 DEF TypeOK
  <1>9. Ordered'
    <2>1. InOrder(todo')
      BY <1>5 DEF Ordered, InOrder
    <2>2. \A v \in Worker \ {w} : results'[v] = results[v] /\ waiting'[v] = waiting[v]
      BY <1>1, <1>6 DEF TypeOK
    <2>3. results'[w] \in {results[w], Append(results[w], i)} /\ waiting'[w] = 0
      BY <1>1, <1>6 DEF TypeOK
    <2>4. InOrder(results'[w])
      BY <1>7, <2>3 DEF Ordered
    <2>5. \A j \in 1 .. Len(results'[w]) : \A k \in 1 .. Len(todo') : results'[w][j] < todo'[k]
      BY <1>4, <1>5, <1>7, <2>3 DEF Ordered
    <2>6. \A v \in Worker \ {w} :
            /\ InOrder(results'[v])
            /\ \A j \in 1 .. Len(results'[v]) : \A k \in 1 .. Len(todo') : results'[v][j] < todo'[k]
            /\ waiting'[v] # 0 =>
                 /\ \A k \in 1 .. Len(todo') : waiting'[v] < todo'[k]
                 /\ \A j \in 1 .. Len(results'[v]) : results'[v][j] < waiting'[v]
      BY <1>5, <2>2 DEF Ordered
    <2> QED  BY <2>1, <2>3, <2>4, <2>5, <2>6 DEF Ordered, InOrder
  <1>10. Reported'
    <2>1. outcome'[w][i] = scen[w][i] /\ scen[w][i] # "cancelled"
      BY <1>1 DEF TypeOK, Lived, Lives
    <2>2. \A v \in Worker : \A k \in Item :
            v # w \/ k # i => outcome'[v][k] = outcome[v][k]
      BY <1>1 DEF TypeOK
    <2>3. ASSUME NEW v \in Worker, NEW k \in Item, v # w \/ k # i
          PROVE  (\E j \in 1 .. Len(results'[v]) : results'[v][j] = k)
                   <=> \E j \in 1 .. Len(results[v]) : results[v][j] = k
      <3>1. CASE results'[v] = results[v]
        BY <3>1
      <3>2. CASE v = w /\ results'[w] = Append(results[w], i)
        <4>1. Len(results[w]) \in Nat
          BY <1>2
        <4> QED  BY <1>7, <2>3, <3>2, <4>1
      <3> QED  BY <1>6, <3>1, <3>2 DEF TypeOK
    <2>4. (\E j \in 1 .. Len(results'[w]) : results'[w][j] = i) <=> scen[w][i] \in Verdicts
      <3>1. CASE scen[w][i] \in Verdicts
        <4>1. results'[w] = Append(results[w], i)
          BY <1>1, <3>1 DEF Answers, TypeOK
        <4> QED  BY <1>2, <1>7, <3>1, <4>1
      <3>2. CASE scen[w][i] \notin Verdicts
        <4>1. results'[w] = results[w]
          BY <1>1, <3>2 DEF Answers
        <4> QED  BY <1>2, <1>3, <3>2, <4>1
      <3> QED  BY <3>1, <3>2
    <2> QED  BY <1>1, <2>1, <2>2, <2>3, <2>4 DEF Reported
  <1>11. Lived'
    BY <1>1 DEF TypeOK, Lived, Lives
  <1> QED  BY <1>8, <1>9, <1>10, <1>11

(* Leaving the test loop keeps the invariant. *)
LEMMA LeaveInv ==
  ASSUME IInv, NEW w \in Worker, LeaveLoop(w) \/ Interrupt(w)
  PROVE  IInv'
  <1> USE DEF IInv, LeaveLoop, Interrupt
  <1>1. todo' \in Seq(Item) /\ Len(todo') = 0
    <2>1. todo' = <<>>
      OBVIOUS
    <2> QED  BY <2>1
  <1>2. TypeOK'
    BY <1>1 DEF TypeOK, Phases
  <1>3. Ordered'
    <2>1. \A v \in Worker : results'[v] = results[v] /\ waiting'[v] \in {waiting[v], 0}
      BY DEF TypeOK
    <2>2. \A k \in 1 .. Len(todo') : FALSE
      BY <1>1
    <2> QED  BY <2>1, <2>2 DEF Ordered, InOrder
  <1>4. Reported'
    BY KeepsReports
  <1>5. Lived'
    BY DEF TypeOK, Lived, Lives
  <1> QED  BY <1>2, <1>3, <1>4, <1>5

(* Closing the session keeps the invariant. *)
LEMMA PhaseInv ==
  ASSUME IInv, NEW w \in Worker, Shutdown(w) \/ CloseClients(w) \/ WriteReport(w)
  PROVE  IInv'
  <1> USE DEF IInv, Shutdown, CloseClients, WriteReport
  <1>1. TypeOK'
    <2>1. phase' \in [Worker -> Phases]
      BY DEF TypeOK, Phases
    <2>2. report' \in Seq(Item)
      BY DEF TypeOK
    <2> QED  BY <2>1, <2>2 DEF TypeOK
  <1>2. Ordered'
    BY KeepsOrder
  <1>3. Reported'
    BY KeepsReports
  <1>4. Lived'
    BY DEF TypeOK, Lived, Lives, AllEnded
  <1> QED  BY <1>1, <1>2, <1>3, <1>4

(* A scenario of the event loop keeps the invariant. *)
LEMMA TaskInv ==
  ASSUME IInv, NEW w \in Worker, NEW i \in Item, Task(w, i) \/ SendRequest(w, i)
  PROVE  IInv'
  <1> USE DEF IInv, Task, Begin, SendRequest, RequestEnds, ScenarioEnds, CancelEnds, Running
  <1>1. UNCHANGED <<todo, waiting, results, outcome, phase, report>>
    OBVIOUS
  <1>2. \/ scen' = scen
        \/ /\ scen[w][i] \in {"submitted", "running"}
           /\ \E e \in {"running"} \cup Ends : scen' = [scen EXCEPT ![w][i] = e]
    BY DEF Ends
  <1>3. \E S \in SUBSET Item : sending' = [sending EXCEPT ![w] = S]
    BY DEF TypeOK
  <1>4. TypeOK'
    <2>1. scen' \in [Worker -> [Item -> {"unsubmitted", "submitted", "running"} \cup Ends]]
      <3>1. CASE scen' = scen
        BY <3>1 DEF TypeOK
      <3>2. ASSUME NEW e \in {"running"} \cup Ends, scen' = [scen EXCEPT ![w][i] = e],
                   scen[w][i] \in {"submitted", "running"}
            PROVE  scen' \in [Worker -> [Item -> {"unsubmitted", "submitted", "running"} \cup Ends]]
        BY <3>2, OneScenario
      <3> QED  BY <1>2, <3>1, <3>2
    <2>2. sending' \in [Worker -> SUBSET Item]
      BY <1>3 DEF TypeOK
    <2> QED  BY <1>1, <2>1, <2>2 DEF TypeOK
  <1>5. Ordered'
    BY <1>1, KeepsOrder
  <1>6. Reported'
    <2>1. \A v \in Worker : \A k \in Item : scen[v][k] \in Ends => scen'[v][k] = scen[v][k]
      <3>1. ASSUME NEW e \in {"running"} \cup Ends, scen' = [scen EXCEPT ![w][i] = e],
                   scen[w][i] \in {"submitted", "running"}
            PROVE  \A v \in Worker : \A k \in Item : scen[v][k] \in Ends => scen'[v][k] = scen[v][k]
        BY <3>1, OneScenario
      <3> QED  BY <1>2, <3>1
    <2> QED  BY <1>1, <2>1, KeepsReports
  <1>7. Lived'
    <2>1. CASE Begin(w, i)
      BY <1>1, <2>1 DEF TypeOK, Lived, Lives
    <2>2. CASE SendRequest(w, i) \/ RequestEnds(w, i)
      <3>1. \A v \in Worker : \A k \in sending'[v] : k \in sending[v] \/ (v = w /\ k = i)
        BY <2>2 DEF TypeOK
      <3> QED  BY <1>1, <2>2, <3>1 DEF Lived, Lives
    <2>3. CASE ScenarioEnds(w, i)
      BY <1>1, <2>3 DEF TypeOK, Lived, Lives, Verdicts
    <2>4. CASE CancelEnds(w, i)
      BY <1>1, <2>4 DEF TypeOK, Lived, Lives
    <2> QED  BY <2>1, <2>2, <2>3, <2>4
  <1> QED  BY <1>4, <1>5, <1>6, <1>7

(* Every step keeps the invariant. *)
LEMMA NextInv == IInv /\ [Next]_vars => IInv'
  <1> SUFFICES ASSUME IInv, [Next]_vars PROVE IInv'
    OBVIOUS
  <1>1. CASE UNCHANGED vars
    BY <1>1 DEF vars, IInv, TypeOK, Ordered, InOrder, Reported, Lived, Lives
  <1>2. ASSUME NEW w \in Worker, Pytest(w) \/ Loop(w) \/ Interrupt(w)
        PROVE  IInv'
    BY <1>2, OpenInv, TakeItemInv, FinishItemInv, LeaveInv, PhaseInv DEF Pytest, Loop
  <1>3. ASSUME NEW w \in Worker, NEW i \in Item, Task(w, i) \/ SendRequest(w, i)
        PROVE  IInv'
    BY <1>3, TaskInv
  <1> QED  BY <1>1, <1>2, <1>3 DEF Next

(* The invariant holds in every state of the session (Session and runtest). *)
THEOREM Invariance == Spec => []IInv
  BY InitInv, NextInv, PTL DEF Spec
-----------------------------------------------------------------------------
(***************************************************************************)
(* Every state of a session is of its types (JuriedState, Session and      *)
(* pytest's loop over the items).                                          *)
(***************************************************************************)
THEOREM SessionTypeCorrect == Spec => []TypeOK
  BY Invariance, PTL DEF IInv

(***************************************************************************)
(* When the clients close, every scenario has ended and no request is in   *)
(* flight (Session._shutdown).                                             *)
(***************************************************************************)
THEOREM ScenariosEndFirst == Spec => []NoneOutlivesClients
  <1>1. IInv => NoneOutlivesClients
    <2> SUFFICES ASSUME IInv, NEW w \in Worker, phase[w] \in {"closed", "finished"}
                 PROVE  sending[w] = {} /\ \A i \in Item : scen[w][i] \in Ends
      BY DEF NoneOutlivesClients
    <2>1. \A i \in Item : scen[w][i] \in Ends
      BY DEF IInv, TypeOK, Lived, Lives
    <2>2. sending[w] = {}
      BY <2>1 DEF IInv, TypeOK, Lived, Lives, Ends, Verdicts
    <2> QED  BY <2>1, <2>2
  <1> QED  BY <1>1, Invariance, PTL

(***************************************************************************)
(* A process reports, in order, exactly the verdicts its items waited for, *)
(* whatever order the scenarios end in (ScenarioItem.runtest and           *)
(* JuriedState.results).                                                   *)
(***************************************************************************)
THEOREM ResultsAreTheItems == Spec => []ReportsWhatItAskedFor
  <1>1. IInv => ReportsWhatItAskedFor
    BY DEF IInv, TypeOK, Ordered, Reported, ReportsWhatItAskedFor, Ends, Verdicts
  <1> QED  BY <1>1, Invariance, PTL
-----------------------------------------------------------------------------
(***************************************************************************)
(* The cap.  No process exceeds its share, and the shares of all processes *)
(* together exceed the cap only when there are more processes than that.   *)
(***************************************************************************)
Shared ==
  \A w \in Worker : IsFiniteSet(sending[w]) /\ Cardinality(sending[w]) <= PerWorker(Cap)

(* Every worker has a cap of at least one (per_worker). *)
LEMMA PerWorkerType == PerWorker(Cap) \in Nat \ {0}
  <1> DEFINE n == Cardinality(Worker)
  <1>1. n \in Nat \ {0}
    BY FS_CardinalityType, FS_EmptySet, SessionAssumption
  <1> HIDE DEF n
  <1>2. Cap \div n \in Nat
    BY <1>1, SessionAssumption
  <1> QED  BY <1>2, SessionAssumption DEF PerWorker, n

(* The caps of all workers: at most the configured one, or one each. *)
LEMMA SharesAddUp ==
  Scope = "global" =>
    Cardinality(Worker) * PerWorker(Cap) <= IF Cap < Cardinality(Worker) THEN Cardinality(Worker) ELSE Cap
  <1> DEFINE n == Cardinality(Worker)
             share == Cap \div n
  <1>1. n \in Nat \ {0} /\ Cap \in Nat \ {0}
    BY FS_CardinalityType, FS_EmptySet, SessionAssumption
  <1> HIDE DEF n
  <1>2. share \in Nat
    BY <1>1
  <1>3. n * share <= Cap /\ Cap < n * share + n
    BY <1>1
  <1> HIDE DEF share
  <1>4. CASE share = 0
    <2>1. Cap < n
      BY <1>1, <1>3, <1>4
    <2>2. n * 1 = n
      BY <1>1
    <2> QED  BY <1>1, <1>4, <2>1, <2>2 DEF PerWorker, n, share
  <1>5. CASE share # 0
    <2>1. ~(Cap < n)
      <3>1. n * share >= n
        BY <1>1, <1>2, <1>5
      <3> QED  BY <1>1, <1>2, <1>3, <3>1
    <2> QED  BY <1>3, <1>5, <2>1 DEF PerWorker, n, share
  <1> QED  BY <1>4, <1>5

(* No step sends more than the cap of a worker. *)
LEMMA SharedStep == TypeOK /\ Shared /\ [Next]_vars => Shared'
  <1> SUFFICES ASSUME TypeOK, Shared, [Next]_vars, NEW w \in Worker
               PROVE  IsFiniteSet(sending'[w]) /\ Cardinality(sending'[w]) <= PerWorker(Cap)
    BY DEF Shared, PerWorker
  <1>1. IsFiniteSet(sending[w]) /\ Cardinality(sending[w]) \in Nat /\ PerWorker(Cap) \in Nat
    BY FS_CardinalityType, PerWorkerType DEF Shared
  <1>2. \/ sending'[w] = sending[w]
        \/ \E i \in Item : sending'[w] = sending[w] \ {i}
        \/ Cardinality(sending[w]) < PerWorker(Cap) /\ \E i \in Item : sending'[w] = sending[w] \cup {i}
    <2>1. ASSUME NEW v \in Worker, NEW i \in Item, Task(v, i) \/ SendRequest(v, i)
          PROVE  <1>2!1 \/ <1>2!2 \/ <1>2!3
      BY <2>1 DEF Task, Begin, RequestEnds, ScenarioEnds, CancelEnds, SendRequest, TypeOK
    <2>2. ASSUME NEW v \in Worker, Pytest(v) \/ Loop(v) \/ Interrupt(v)
          PROVE  UNCHANGED sending
      BY <2>2 DEF Pytest, Open, TakeItem, FinishItem, LeaveLoop, WriteReport, Loop, Shutdown,
                  CloseClients, Interrupt
    <2> QED  BY <2>1, <2>2 DEF Next, vars
  <1>3. CASE sending'[w] = sending[w]
    BY <1>3 DEF Shared
  <1>4. ASSUME NEW i \in Item, sending'[w] = sending[w] \ {i}
        PROVE  IsFiniteSet(sending'[w]) /\ Cardinality(sending'[w]) <= PerWorker(Cap)
    <2>1. sending'[w] \in SUBSET sending[w]
      BY <1>4
    <2>2. IsFiniteSet(sending'[w]) /\ Cardinality(sending'[w]) <= Cardinality(sending[w])
      BY <1>1, <2>1, FS_Subset
    <2> QED  BY <1>1, <2>2, FS_CardinalityType DEF Shared
  <1>5. ASSUME NEW i \in Item, Cardinality(sending[w]) < PerWorker(Cap),
               sending'[w] = sending[w] \cup {i}
        PROVE  IsFiniteSet(sending'[w]) /\ Cardinality(sending'[w]) <= PerWorker(Cap)
    <2>1. /\ IsFiniteSet(sending[w] \cup {i})
          /\ Cardinality(sending[w] \cup {i}) \in {Cardinality(sending[w]), Cardinality(sending[w]) + 1}
      BY <1>1, FS_AddElement
    <2> QED  BY ONLY <1>1, <1>5, <2>1
  <1> QED  BY <1>2, <1>3, <1>4, <1>5

(***************************************************************************)
(* Under the global scope all processes together have at most              *)
(* run.concurrency requests in flight, or one each if they are more than   *)
(* that (Concurrency.per_worker).                                          *)
(***************************************************************************)
THEOREM CapNeverExceeded == Spec => []CapIsShared
  <1>1. Init => Shared
    <2> SUFFICES ASSUME Init, NEW w \in Worker
                 PROVE  IsFiniteSet(sending[w]) /\ Cardinality(sending[w]) <= PerWorker(Cap)
      BY DEF Shared
    <2>1. sending[w] = {}
      BY DEF Init
    <2> QED  BY <2>1, FS_EmptySet, PerWorkerType
  <1>2. Shared => CapIsShared
    <2> SUFFICES ASSUME Shared, Scope = "global"
                 PROVE  Cardinality(InFlight)
                          <= IF Cap < Cardinality(Worker) THEN Cardinality(Worker) ELSE Cap
      BY DEF CapIsShared
    <2>1. /\ Cardinality(InFlight) \in Nat
          /\ Cardinality(InFlight) <= Cardinality(Worker) * PerWorker(Cap)
      BY PairsBounded, PerWorkerType, SessionAssumption DEF Shared, InFlight
    <2>2. /\ Cardinality(Worker) * PerWorker(Cap) \in Nat
          /\ Cardinality(Worker) \in Nat /\ Cap \in Nat
      BY FS_CardinalityType, PerWorkerType, SessionAssumption
    <2> QED  BY <2>1, <2>2, SharesAddUp
  <1> QED  BY <1>1, <1>2, SharedStep, Invariance, PTL DEF Spec, IInv
=============================================================================
