------------------------------ MODULE Estimate ------------------------------
(***************************************************************************)
(* The dry run: the attempts, requests and judge calls a run would make,   *)
(* and how many attempts early stopping is expected to leave.  Pure        *)
(* operators over exact fractions, translated from juried.estimate.  What  *)
(* the calls cost is left out: prices are data.                            *)
(***************************************************************************)
EXTENDS Gate, FiniteSets, Functions, Sequences

(***************************************************************************)
(* expected_attempts, for a pass rate of a / (a + b).  Mass[k] is the mass *)
(* in each undecided state, of passes and fails, after k attempts, times   *)
(* (a + b)^k: each passes on a parts of its mass and fails on b.           *)
(***************************************************************************)
Undecided(runs, misses) == (0 .. PassesNeeded(runs, misses) - 1) \X (0 .. misses)

FromStart(mass, a, b, p, f) ==  (* Mutant: a fail leads nowhere. *)
  IF p > 0 THEN a * mass[<<p - 1, f>>] ELSE 0

MassInto(mass, a, b, p, f) ==
  (IF p > 0 THEN a * mass[<<p - 1, f>>] ELSE 0) + (IF f > 0 THEN b * mass[<<p, f - 1>>] ELSE 0)

MassAfter(runs, misses, a, b) ==
  LET Mass[k \in 0 .. runs] ==
        IF k = 0 THEN [s \in Undecided(runs, misses) |-> IF s = <<0, 0>> THEN 1 ELSE 0]
        ELSE [s \in Undecided(runs, misses) |-> MassInto(Mass[k - 1], a, b, s[1], s[2])]
  IN  Mass

(* The expected attempts, times (a + b)^(runs - 1). *)
ExpectedAttempts(runs, misses, a, b) ==
  LET mass == MassAfter(runs, misses, a, b)
  IN  SumFunction([k \in 0 .. runs - 1 |-> SumFunction(mass[k]) * (a + b)^(runs - 1 - k)])

(* previous_pass_rates: of the scenarios with a judged attempt. *)
HasRate(judged) == judged > 0

(***************************************************************************)
(* plan_run: every attempt drives each turn and the final message once,    *)
(* and its response goes to the judge once per vote.                       *)
(***************************************************************************)
PlannedAttempts(scenarios, runs) == SumFunctionOnSet(runs, scenarios)

(* Mutant: the final message is not counted beside the turns. *)
RequestsForTurns(scenarios, runs, messages) ==
  SumFunction([s \in scenarios |-> runs[s] * (Len(messages[s]) - 1)])

PlannedRequests(scenarios, runs, messages) ==
  SumFunction([s \in scenarios |-> runs[s] * Len(messages[s])])

PlannedCalls(scenarios, runs, votes) == PlannedAttempts(scenarios, runs) * votes
=============================================================================
