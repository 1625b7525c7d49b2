------------------------------ MODULE Session -------------------------------
(***************************************************************************)
(* juried under pytest: in every process that runs scenario items, pytest  *)
(* submits all of them to a Session, whose event loop runs them in a       *)
(* thread of its own, and then waits for each item's result in turn.  What *)
(* was not waited for is cancelled when the test loop is left, before the  *)
(* clients close.                                                          *)
(*                                                                         *)
(* There is one process, or, under pytest-xdist, one per worker.  Every    *)
(* worker collects every item, and the controller hands out to each the    *)
(* items it is to run.  A scenario's attempts are module Runner: here a    *)
(* scenario sends requests one at a time and comes to some end.            *)
(***************************************************************************)
EXTENDS Integers, FiniteSets, Sequences

CONSTANTS
  Worker,       (* the processes                                            *)
  Items,        (* the scenario items, in the order pytest collected them   *)
  Cap,          (* run.concurrency                                          *)
  Scope,        (* run.concurrency_scope: "global" or "worker"              *)
  ExitFirst     (* pytest -x                                                *)

VARIABLES
  todo,         (* the items not handed out yet                             *)
  phase,        (* phase[w]: how far the test loop of w is                  *)
  waiting,      (* waiting[w]: the item w waits for, 0 if none              *)
  scen,         (* scen[w][i]: the scenario of item i in the loop of w      *)
  sending,      (* sending[w]: the items with a request in flight from w    *)
  results,      (* results[w]: JuriedState.results                          *)
  outcome,      (* outcome[w][i]: what pytest reported of item i            *)
  report        (* the results in the report file                           *)

vars == <<todo, phase, waiting, scen, sending, results, outcome, report>>

Item == 1 .. Len(Items)

ASSUME SessionAssumption ==
  /\ IsFiniteSet(Worker) /\ Worker # {}
  /\ Len(Items) \in Nat
  /\ Cap \in Nat \ {0}
  /\ Scope \in {"global", "worker"}
  /\ ExitFirst \in BOOLEAN

(* Whether the gate was met, by Runner.run_with, or the scenario raised. *)
Verdicts == {"upheld", "failed"}
Ends == Verdicts \cup {"raised", "cancelled"}

Phases == {"configured", "looping", "left", "cancelling", "closed", "finished"}

(***************************************************************************)
(* Concurrency.per_worker: the caps divided by the workers, at least one.  *)
(***************************************************************************)
RoundedUp(cap) ==  (* Mutant: rounded up. *)
  IF Scope = "worker" THEN cap ELSE (cap + Cardinality(Worker) - 1) \div Cardinality(Worker)

PerWorker(cap) ==
  IF Scope = "worker" THEN cap
  ELSE IF cap \div Cardinality(Worker) = 0 THEN 1 ELSE cap \div Cardinality(Worker)

Init ==
  /\ todo = [i \in Item |-> i]
  /\ phase = [w \in Worker |-> "configured"]
  /\ waiting = [w \in Worker |-> 0]
  /\ scen = [w \in Worker |-> [i \in Item |-> "unsubmitted"]]
  /\ sending = [w \in Worker |-> {}]
  /\ results = [w \in Worker |-> <<>>]
  /\ outcome = [w \in Worker |-> [i \in Item |-> "none"]]
  /\ report = <<>>
-----------------------------------------------------------------------------
(***************************************************************************)
(* The thread of pytest.                                                   *)
(***************************************************************************)

(* pytest_runtestloop: the Session opens and gets every item of the process. *)
Open(w) ==
  /\ phase[w] = "configured"
  /\ phase' = [phase EXCEPT ![w] = "looping"]
  /\ scen' = [scen EXCEPT ![w] = [i \in Item |-> "submitted"]]
  /\ UNCHANGED <<todo, waiting, sending, results, outcome, report>>

TookNext(w, i) ==  (* Mutant: the item after it. *)
  waiting' = [waiting EXCEPT ![w] = i + 1] /\ todo' = Tail(todo)

Handed(w, i) == waiting' = [waiting EXCEPT ![w] = i] /\ todo' = Tail(todo)

(* pytest, or the controller of the workers, has w run the next item. *)
TakeItem(w) ==
  /\ phase[w] = "looping" /\ waiting[w] = 0
  /\ todo # <<>>
  /\ Handed(w, Head(todo))
  /\ UNCHANGED <<phase, scen, sending, results, outcome, report>>

(***************************************************************************)
(* ScenarioItem.runtest, once the future has a result or an exception.  A  *)
(* scenario that raised has no result to report.  With -x the first item   *)
(* that fails ends the test loop, and no further item is handed out.       *)
(***************************************************************************)
FirstEnded(w, i) ==  (* Mutant: the result is of any scenario that has ended. *)
  \E j \in Item : scen[w][j] \in Ends /\ results' = [results EXCEPT ![w] = Append(@, j)]

Answers(w, i) ==
  IF scen[w][i] \in Verdicts THEN results' = [results EXCEPT ![w] = Append(@, i)]
  ELSE UNCHANGED results

FinishItem(w) ==
  \E i \in Item :
    /\ phase[w] = "looping" /\ waiting[w] = i
    /\ scen[w][i] \in Ends
    /\ Answers(w, i)
    /\ outcome' = [outcome EXCEPT ![w][i] = scen[w][i]]
    /\ waiting' = [waiting EXCEPT ![w] = 0]
    /\ IF ExitFirst /\ scen[w][i] # "upheld"
         THEN phase' = [phase EXCEPT ![w] = "left"] /\ todo' = <<>>
         ELSE UNCHANGED <<phase, todo>>
    /\ UNCHANGED <<scen, sending, report>>

(* The items are used up. *)
LeaveLoop(w) ==
  /\ phase[w] = "looping" /\ waiting[w] = 0
  /\ todo = <<>>
  /\ phase' = [phase EXCEPT ![w] = "left"]
  /\ UNCHANGED <<todo, waiting, scen, sending, results, outcome, report>>

(* An interrupt, also while an item waits for its result. *)
Interrupt(w) ==
  /\ phase[w] = "looping"
  /\ phase' = [phase EXCEPT ![w] = "left"]
  /\ waiting' = [waiting EXCEPT ![w] = 0]
  /\ todo' = <<>>
  /\ UNCHANGED <<scen, sending, results, outcome, report>>

(***************************************************************************)
(* pytest_sessionfinish: a process that has results writes the report of   *)
(* its own results over what is there.                                     *)
(***************************************************************************)
WriteReport(w) ==
  /\ phase[w] = "closed"
  /\ phase' = [phase EXCEPT ![w] = "finished"]
  /\ report' = IF results[w] = <<>> THEN report ELSE results[w]
  /\ UNCHANGED <<todo, waiting, scen, sending, results, outcome>>
-----------------------------------------------------------------------------
(***************************************************************************)
(* The event loop.  Coroutines handed to it start in the order they were   *)
(* handed over, _shutdown after all the scenarios.                         *)
(***************************************************************************)
Begin(w, i) ==
  /\ scen[w][i] = "submitted"
  /\ \A j \in 1 .. (i - 1) : scen[w][j] # "submitted"
  /\ scen' = [scen EXCEPT ![w][i] = "running"]
  /\ UNCHANGED <<todo, phase, waiting, sending, results, outcome, report>>

Running(w, i) == scen[w][i] = "running" /\ phase[w] \in {"looping", "left"}

SendRequest(w, i) ==
  /\ Running(w, i)
  /\ i \notin sending[w]
  /\ Cardinality(sending[w]) < PerWorker(Cap)
  /\ sending' = [sending EXCEPT ![w] = @ \cup {i}]
  /\ UNCHANGED <<todo, phase, waiting, scen, results, outcome, report>>

RequestEnds(w, i) ==
  /\ Running(w, i)
  /\ i \in sending[w]
  /\ sending' = [sending EXCEPT ![w] = @ \ {i}]
  /\ UNCHANGED <<todo, phase, waiting, scen, results, outcome, report>>

(* run_with returns, or raises. *)
ScenarioEnds(w, i) ==
  /\ Running(w, i)
  /\ i \notin sending[w]
  /\ \E e \in Verdicts \cup {"raised"} : scen' = [scen EXCEPT ![w][i] = e]
  /\ UNCHANGED <<todo, phase, waiting, sending, results, outcome, report>>

(* Session.__exit__ hands over _shutdown, which cancels what has not ended. *)
Shutdown(w) ==
  /\ phase[w] = "left"
  /\ \A i \in Item : scen[w][i] # "submitted"
  /\ phase' = [phase EXCEPT ![w] = "cancelling"]
  /\ UNCHANGED <<todo, waiting, scen, sending, results, outcome, report>>

(* A cancelled scenario ends, or raises what an attempt of it had raised. *)
CancelEnds(w, i) ==
  /\ phase[w] = "cancelling" /\ scen[w][i] = "running"
  /\ \E e \in {"cancelled", "raised"} : scen' = [scen EXCEPT ![w][i] = e]
  /\ sending' = [sending EXCEPT ![w] = @ \ {i}]
  /\ UNCHANGED <<todo, phase, waiting, results, outcome, report>>

(* gather has every scenario; the clients close, and the loop and its thread end. *)
AnyTime(w) == TRUE  (* Mutant: not waited for. *)
NoneCancelled(w) == \A i \in Item : scen[w][i] \in Verdicts  (* Mutant: results are waited for. *)

AllEnded(w) == \A i \in Item : scen[w][i] # "running"

CloseClients(w) ==
  /\ phase[w] = "cancelling"
  /\ AllEnded(w)
  /\ phase' = [phase EXCEPT ![w] = "closed"]
  /\ UNCHANGED <<todo, waiting, scen, sending, results, outcome, report>>
-----------------------------------------------------------------------------
Pytest(w) == Open(w) \/ TakeItem(w) \/ FinishItem(w) \/ LeaveLoop(w) \/ WriteReport(w)

Loop(w) == Shutdown(w) \/ CloseClients(w)

Task(w, i) ==
  \/ Begin(w, i) \/ RequestEnds(w, i) \/ ScenarioEnds(w, i) \/ CancelEnds(w, i)

Next ==
  \E w \in Worker :
    \/ Pytest(w) \/ Loop(w) \/ Interrupt(w)
    \/ \E i \in Item : Task(w, i) \/ SendRequest(w, i)

Spec == Init /\ [][Next]_vars

(***************************************************************************)
(* Both threads run on.  A scenario ends, by Runner's EveryScenarioEnds,   *)
(* whatever its requests do: it has finitely many, each with a timeout.    *)
(***************************************************************************)
Fairness ==
  \A w \in Worker :
    /\ WF_vars(Pytest(w)) /\ WF_vars(Loop(w))
    /\ \A i \in Item :
         /\ WF_vars(Begin(w, i)) /\ WF_vars(RequestEnds(w, i)) /\ WF_vars(CancelEnds(w, i))
         /\ SF_vars(ScenarioEnds(w, i))

FairSpec == Spec /\ Fairness
-----------------------------------------------------------------------------
TypeOK ==
  /\ todo \in Seq(Item)
  /\ phase \in [Worker -> Phases]
  /\ waiting \in [Worker -> Item \cup {0}]
  /\ scen \in [Worker -> [Item -> {"unsubmitted", "submitted", "running"} \cup Ends]]
  /\ sending \in [Worker -> SUBSET Item]
  /\ results \in [Worker -> Seq(Item)]
  /\ outcome \in [Worker -> [Item -> {"none"} \cup Ends]]
  /\ report \in Seq(Item)

(***************************************************************************)
(* Scenarios end in any order, and are awaited in that of the items: an    *)
(* item reports its own scenario, the report of a process lists exactly    *)
(* the scenarios with a verdict that its items asked for, in item order,   *)
(* and none cancelled because nobody asked.                                *)
(***************************************************************************)
InOrder(s) == \A j, k \in 1 .. Len(s) : j < k => s[j] < s[k]

ReportsWhatItAskedFor ==
  \A w \in Worker :
    /\ InOrder(results[w])
    /\ \A i \in Item :
         /\ (\E j \in 1 .. Len(results[w]) : results[w][j] = i) <=> outcome[w][i] \in Verdicts
         /\ outcome[w][i] \in {"none", scen[w][i]} \ {"cancelled"}

(***************************************************************************)
(* "Cancel whatever pytest never asked for before the client and provider  *)
(* close" (Session._shutdown): no scenario outlives the clients.           *)
(***************************************************************************)
NoneOutlivesClients ==
  \A w \in Worker : phase[w] \in {"closed", "finished"} =>
    sending[w] = {} /\ \A i \in Item : scen[w][i] \in Ends

(***************************************************************************)
(* "The total in flight stays as configured" (the comment on               *)
(* RunConfig.concurrency_scope) while there are no more workers than the   *)
(* cap, and is one each when there are more.                               *)
(***************************************************************************)
InFlight == UNION {{<<w, i>> : i \in sending[w]} : w \in Worker}

CapIsShared ==
  Scope = "global" =>
    Cardinality(InFlight) <= IF Cap < Cardinality(Worker) THEN Cardinality(Worker) ELSE Cap

(***************************************************************************)
(* Every process comes to write its report: no item waits for ever for a   *)
(* scenario, nor the end of the session for those nobody waits for.        *)
(***************************************************************************)
EverySessionEnds == \A w \in Worker : <>(phase[w] = "finished")

(***************************************************************************)
(* "Scenarios are only split across workers" (docs/runs.md): no scenario   *)
(* is run by two of them.                                                  *)
(***************************************************************************)
Begun(w, i) == scen[w][i] \notin {"unsubmitted", "submitted"}

SplitAcrossWorkers ==
  \A i \in Item : \A v, w \in Worker : Begun(v, i) /\ Begun(w, i) => v = w
=============================================================================
