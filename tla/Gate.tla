-------------------------------- MODULE Gate --------------------------------
(***************************************************************************)
(* The gate of a scenario: `runs` attempts of which `misses` may fail.     *)
(* Pure operators, translated from juried.stats, juried.config and the     *)
(* ScenarioResult and Stopper of juried.runner.                            *)
(***************************************************************************)
EXTENDS Integers

(* build_gate: the gates it refuses. *)
GateBuilds(runs, misses) == runs >= 1 /\ misses < runs

(* Mutant: one pass too few. *)
TooFewPasses(runs, misses) == runs - misses - 1

PassesNeeded(runs, misses) == runs - misses

(* Gate.met, over the attempts that reached a verdict. *)
Met(misses, passes, judged) == judged > 0 /\ judged - passes <= misses

(***************************************************************************)
(* Stopper.record: lost once the fails exceed the misses, won once the     *)
(* passes reach the count the gate needs.                                  *)
(***************************************************************************)
DecidedAtLastMiss(runs, misses, passes, fails) ==  (* Mutant: lost a fail too early. *)
  \/ fails >= misses
  \/ passes >= PassesNeeded(runs, misses)

GateDecided(runs, misses, passes, fails) ==
  \/ fails > misses
  \/ passes >= PassesNeeded(runs, misses)

(* ScenarioResult.status, from the errors and from whether the quality is met. *)
Status(errors, met) ==
  IF errors # 0 THEN "incomplete" ELSE IF met THEN "upheld" ELSE "failed"

Statuses == {"upheld", "failed", "incomplete"}
=============================================================================
