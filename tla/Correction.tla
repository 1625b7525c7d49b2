----------------------------- MODULE Correction -----------------------------
(***************************************************************************)
(* How wrong the judge is, measured by `juried calibrate` on labelled      *)
(* cases, and what follows for a run: whether the gate is on the corrected *)
(* rate, and the rate itself.  Pure operators over exact fractions,        *)
(* translated from juried.correction and the ScenarioResult of             *)
(* juried.runner.                                                          *)
(*                                                                         *)
(* A judge is its model, its temperature and its prompt version, "none" in *)
(* the reports of before 0.3.  A case is its criterion and whether the     *)
(* human and the judge passed it.                                          *)
(***************************************************************************)
EXTENDS Integers, FiniteSets

NoReport == [judge |-> [model |-> "none", temperature |-> "none", prompt |-> "none"], cases |-> {}]

(* judge_error: of the cases a human passed and failed, those the judge did too. *)
JudgeError(cases) ==
  LET passed == {c \in cases : c.human}
      failed == cases \ passed
  IN  [passes |-> Cardinality(passed), passed |-> Cardinality({c \in passed : c.judge}),
       fails |-> Cardinality(failed), failed |-> Cardinality({c \in failed : ~c.judge})]

(* JudgeError.youden, times the product of the passes and the fails. *)
Youden(e) == e.passed * e.fails + e.failed * e.passes - e.passes * e.fails

(* refusal is None: both labels are there, and youden is at least one half. *)
Usable(e) == e.passes > 0 /\ e.fails > 0 /\ 2 * Youden(e) >= e.passes * e.fails

(* Calibration.cases_for: the criterion's own cases, or all if they are too few. *)
AlwaysOwn(cases, criterion, minimum) ==  (* Mutant: however few they are. *)
  {c \in cases : c.criterion = criterion}

CasesFor(cases, criterion, minimum) ==
  LET own == {c \in cases : c.criterion = criterion}
  IN  IF Cardinality(own) >= minimum THEN own ELSE cases

(* calibration_mismatch is None: earlier reports are matched on the model alone. *)
ForJudge(of, judge) ==
  /\ of.model = judge.model
  /\ of.prompt # "none" => of.temperature = judge.temperature /\ of.prompt = judge.prompt

(***************************************************************************)
(* resolve_gate: what gate_on comes to, the report if it is for this       *)
(* judge, and whether it can correct (there is no note).                   *)
(***************************************************************************)
Resolved(configured, report, judge) ==
  LET found  == report # NoReport /\ ForJudge(report.judge, judge)
      usable == found /\ Usable(JudgeError(report.cases))
  IN  [gate_on |-> IF configured # "auto" THEN configured
                   ELSE IF usable THEN "corrected" ELSE "observed",
       calibration |-> IF found THEN report ELSE NoReport,
       usable |-> usable]

(***************************************************************************)
(* correct has an interval, for a scenario with a judged attempt: whatever *)
(* it comes to, it is there unless the criterion's cases are refused.      *)
(***************************************************************************)
Corrects(report, criterion, minimum) ==
  report # NoReport /\ Usable(JudgeError(CasesFor(report.cases, criterion, minimum)))

(* ScenarioResult.corrected_applies *)
CorrectedApplies(gate_on, report, criterion, minimum) ==
  gate_on = "corrected" /\ Corrects(report, criterion, minimum)

(***************************************************************************)
(* rogan_gladen, before it is clamped to the range from 0 to 1: observed + *)
(* specificity - 1, over youden, as a fraction with a positive denominator.*)
(***************************************************************************)
SwappedErrors(passes, judged, e) ==  (* Mutant: sensitivity for specificity. *)
  [num |-> (passes * e.passes + e.passed * judged - judged * e.passes) * e.fails,
   den |-> judged * Youden(e)]

CorrectedRate(passes, judged, e) ==
  [num |-> (passes * e.fails + e.failed * judged - judged * e.fails) * e.passes,
   den |-> judged * Youden(e)]
=============================================================================
