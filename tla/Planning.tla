------------------------------ MODULE Planning ------------------------------
(***************************************************************************)
(* A run, beside what the dry run says of it beforehand.  Module Runner    *)
(* has only the requests that end up in a record.  Here every one that is  *)
(* made is counted: the calls of the target, those of attempts that are    *)
(* cancelled or raise included, and how often the transport sends one of   *)
(* them again while the attempt waits for it (module Transport is that     *)
(* call in full); and the votes the judge is asked for.                    *)
(***************************************************************************)
EXTENDS Runner, Estimate

CONSTANTS
  Retries,         (* target.retries                                         *)
  Votes            (* judge.votes                                            *)

ASSUME PlanningAssumption == Retries \in Nat /\ Votes \in Nat \ {0}

VARIABLES
  calls,           (* calls[a]: the steps a has asked the target for         *)
  tries,           (* tries[a]: how often the last of them was sent again    *)
  resent,          (* resent[a]: how often any of them was                   *)
  gathered         (* gathered[a]: how often a asked for its votes           *)

planVars == <<calls, tries, resent, gathered>>

PlanInit ==
  /\ Init
  /\ calls = [a \in Attempt |-> 0]
  /\ tries = [a \in Attempt |-> 0]
  /\ resent = [a \in Attempt |-> 0]
  /\ gathered = [a \in Attempt |-> 0]

(***************************************************************************)
(* In this step of the runner an attempt sends its next message: for the   *)
(* first time, or with the answer to the last one.                         *)
(***************************************************************************)
Calls(a) == pc'[a] = "sending" /\ (pc[a] # "sending" \/ requests'[a] # requests[a])

(* In this step its response goes to the judge, once per vote. *)
Gathers(a) == pc'[a] = "judging" /\ pc[a] # "judging"

Counted ==
  /\ calls' = [a \in Attempt |-> IF Calls(a) THEN calls[a] + 1 ELSE calls[a]]
  /\ tries' = [a \in Attempt |-> IF Calls(a) THEN 0 ELSE tries[a]]
  /\ gathered' = [a \in Attempt |-> IF Gathers(a) THEN gathered[a] + 1 ELSE gathered[a]]
  /\ UNCHANGED resent

(***************************************************************************)
(* The request in flight timed out, broke off or had a retryable status,   *)
(* and is sent again after the backoff, the slot still held.               *)
(***************************************************************************)
Resend(s, a) ==
  /\ At(s, a, "sending")
  /\ tries[a] < Retries
  /\ tries' = [tries EXCEPT ![a] = @ + 1]
  /\ resent' = [resent EXCEPT ![a] = @ + 1]
  /\ UNCHANGED <<vars, calls, gathered>>

PlanNext ==
  \/ Next /\ Counted
  \/ \E s \in Scenario : \E a \in AttemptsOf(s) : Resend(s, a)

PlanSpec == PlanInit /\ [][PlanNext]_<<vars, planVars>>
-----------------------------------------------------------------------------
InRecords == SumFunction([a \in Attempt |-> Len(requests[a])])
Called == SumFunction(calls)
Resent == SumFunction(resent)
VotesAsked == Votes * SumFunction(gathered)

Planned == PlannedRequests(Scenario, Runs, Script)

(* An attempt with nothing skipped, replayed or failed at the target. *)
Uneventful(a) == pc[a] = "recorded" /\ replayed[a] = {} /\ out[a] # "transport_error"

(* An attempt whose response went to the judge. *)
WentToJudge(a) == pc[a] = "recorded" /\ out[a] \in {"pass", "fail", "judge_error"}

(***************************************************************************)
(* What the dry run plans bounds the run.  The target is called, and the   *)
(* judge asked for votes, no more often than planned, whatever is skipped, *)
(* replayed, cancelled or goes wrong, and as often if every attempt is     *)
(* made and answered afresh, or judged; the records have no request that   *)
(* was not planned.  The requests themselves can be more than planned,     *)
(* for each call may be sent Retries times more, but not more than that.   *)
(***************************************************************************)
PlanCoversRun ==
  /\ InRecords <= Called /\ Called <= Planned
  /\ Resent <= Called * Retries
  /\ (\A a \in Attempt : Uneventful(a)) => Called = Planned
  /\ VotesAsked <= PlannedCalls(Scenario, Runs, Votes)
  /\ (\A a \in Attempt : WentToJudge(a)) => VotesAsked = PlannedCalls(Scenario, Runs, Votes)
=============================================================================
