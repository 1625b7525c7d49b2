----------------------------- MODULE Comparison -----------------------------
(***************************************************************************)
(* `juried compare`: what became of every scenario between two reports,    *)
(* and whether anything regressed.  Pure operators over exact fractions,   *)
(* translated from juried.compare and juried.stats.                        *)
(*                                                                         *)
(* An entry is what a report says of a scenario: its passes and judged     *)
(* attempts, its status, and whether it stopped early.                     *)
(***************************************************************************)
EXTENDS Integers, FiniteSets, FiniteSetsExt, Combinatorics

CONSTANTS
  Alpha,        (* --alpha, as [num, den]                                   *)
  MinEffect     (* --min-effect, as [num, den]                              *)

ASSUME ComparisonAssumption ==
  /\ Alpha.num \in Nat \ {0} /\ Alpha.den \in Nat /\ Alpha.num < Alpha.den
  /\ MinEffect.num \in Nat /\ MinEffect.den \in Nat \ {0} /\ MinEffect.num <= MinEffect.den

(* A scenario that is not in a report. *)
Absent == [status |-> "absent"]

Comb(n, k) == IF k > n THEN 0 ELSE choose(n, k)

(***************************************************************************)
(* fisher_decrease_p: of the ways to share out the passes between the two  *)
(* samples, those that give the new one as few as it has, or fewer.        *)
(***************************************************************************)
FewerWays(old, new) ==
  LET all == old.judged + new.judged
      successes == old.passes + new.passes
      lowest == IF successes > old.judged THEN successes - old.judged ELSE 0
  IN  MapThenSumSet(LAMBDA x : Comb(successes, x) * Comb(all - successes, new.judged - x),
                    lowest .. new.passes)

Unlikely(old, new) ==
  /\ old.judged > 0 /\ new.judged > 0
  /\ FewerWays(old, new) * Alpha.den < Alpha.num * Comb(old.judged + new.judged, new.judged)

(* How far the pass rate fell, over the product of the attempts judged. *)
AtLeastOne(n) == IF n = 0 THEN 1 ELSE n

Fallen(old, new) == old.passes * AtLeastOne(new.judged) - new.passes * AtLeastOne(old.judged)

(* difference(old, new).significant *)
Significant(old, new) ==
  /\ Unlikely(old, new)
  /\ Fallen(old, new) * MinEffect.den >=
       MinEffect.num * AtLeastOne(old.judged) * AtLeastOne(new.judged)

Passed(e) == e.status = "upheld"

NeverLost(old, new) == FALSE  (* Mutant: a lost gate is not looked for. *)

GateLost(old, new) == Passed(old) /\ ~Passed(new)

(* "A rise is held to the same standard, with the test turned round." *)
Risen(old, new) == Significant(new, old)

(* classify, in its order: errors, then the gate, then the rate. *)
Compared(old, new) ==
  IF old.status # "incomplete" /\ new.status = "incomplete" THEN "newly incomplete"
  ELSE IF GateLost(old, new) THEN "gate lost"
  ELSE IF GateLost(new, old) THEN "gate regained"
  ELSE IF Significant(old, new) THEN "dropped"
  ELSE IF Fallen(old, new) > 0 THEN "drop within noise"
  ELSE IF Risen(old, new) THEN "improved" ELSE "unchanged"

Classified(old, new) ==
  CASE old = Absent /\ Passed(new)  -> "added"
    [] old = Absent /\ ~Passed(new) -> "new failing"
    [] new = Absent                 -> "removed"
    [] OTHER                        -> Compared(old, new)

Regressions == {"gate lost", "newly incomplete", "new failing", "dropped"}

(* A report is a function from the ids of its scenarios to their entries. *)
In(report, id) == IF id \in DOMAIN report THEN report[id] ELSE Absent

(* check_full_sampling and early_stopped_ids *)
StoppedIn(report) == {id \in DOMAIN report : report[id].early_stopped}

(***************************************************************************)
(* compare_reports, and the exit code of command_compare: 2 if it refuses, *)
(* 1 if anything regressed.                                                *)
(***************************************************************************)
ComparesStopped(old, new, allow) == FALSE  (* Mutant: never refused. *)

Refused(old, new, allow) == ~allow /\ StoppedIn(old) \cup StoppedIn(new) # {}

Changes(old, new) ==
  [id \in DOMAIN old \cup DOMAIN new |-> Classified(In(old, id), In(new, id))]

ExitCode(old, new, allow) ==
  IF Refused(old, new, allow) THEN 2
  ELSE IF \E id \in DOMAIN Changes(old, new) : Changes(old, new)[id] \in Regressions THEN 1
  ELSE 0
=============================================================================
