--------------------------- MODULE CommandsProofs ---------------------------
(***************************************************************************)
(* Proofs about Commands, for every number of commands and every set of    *)
(* labelled cases: that a rate is corrected only by the errors of the      *)
(* judge that gave its verdicts, that the correction undoes those errors,  *)
(* and that a scenario is gated apart from its run for one reason only.    *)
(***************************************************************************)
EXTENDS Commands, Counting

IsJudge(j) == j = [model |-> j.model, temperature |-> j.temperature, prompt |-> j.prompt]

Shaped(cases) == IsFiniteSet(cases) /\ \A k \in cases : k.human \in BOOLEAN /\ k.judge \in BOOLEAN

(* A run, or its report, that was given a report which is for its judge. *)
Grounded(r) ==
  /\ IsJudge(r.judge) /\ r.gate_on \in {"observed", "corrected"}
  /\ r.calibration # NoReport =>
       /\ IsJudge(r.measured) /\ r.calibration.judge = r.measured
       /\ ForJudge(r.measured, r.judge)
       /\ Shaped(r.calibration.cases)
  /\ r.gate_on = "corrected" =>
       r.calibration # NoReport /\ Usable(JudgeError(r.calibration.cases))

IInv ==
  /\ judge \in Judges \cup {None} /\ labelled \subseteq Case
  /\ IsJudge(calibration.judge) /\ calibration.judge = measured
  /\ Shaped(calibration.cases)
  /\ calibrating # None => calibrating.judge \in Judges /\ calibrating.cases \subseteq Case
  /\ running # None => Grounded(running)
  /\ report # None =>
       Grounded(report) /\ report.gates = [c \in ToSet(AllCriteria) |-> GateOf(report, c)]
-----------------------------------------------------------------------------
(* Init's project has a report of an earlier version, or none. *)
LEMMA InitIInv == Init => IInv
<1> SUFFICES ASSUME Init PROVE IInv
  OBVIOUS
<1>1. calibration \in Earlier /\ judge \in Judges \cup {None} /\ labelled \subseteq Case
  BY CommandsAssumption DEF Init
<1>2. IsJudge(calibration.judge) /\ Shaped(calibration.cases)
  BY <1>1, ShapeAssumption DEF IsJudge, Shaped
<1>3. QED
  BY <1>1, <1>2 DEF Init, IInv

(* What a calibration writes has the shape of a report. *)
LEMMA CalibratedShape ==
  ASSUME NEW cases, cases \subseteq Case, NEW verdict \in [cases -> BOOLEAN]
  PROVE  Shaped({[id |-> c.id, criterion |-> c.criterion, human |-> c.human,
                  judge |-> verdict[c]] : c \in cases})
<1> DEFINE outcome == [c \in cases |-> [id |-> c.id, criterion |-> c.criterion,
                                        human |-> c.human, judge |-> verdict[c]]]
           T == {[id |-> c.id, criterion |-> c.criterion, human |-> c.human,
                  judge |-> verdict[c]] : c \in cases}
<1>1. outcome \in Surjection(cases, T)
  BY DEF Surjection
<1>2. IsFiniteSet(cases)
  BY CommandsAssumption, FS_Subset
<1>3. IsFiniteSet(T)
  <2> HIDE DEF outcome, T
  <2>1. QED
    BY <1>1, <1>2, FS_Surjection
<1>4. \A k \in T : k.human \in BOOLEAN /\ k.judge \in BOOLEAN
  BY ShapeAssumption
<1>5. QED
  BY <1>3, <1>4 DEF Shaped

(***************************************************************************)
(* A run that starts is given the report there is only if it is for the    *)
(* judge of the run, and gates on the corrected rate only if it can.       *)
(***************************************************************************)
LEMMA StartIsGrounded ==
  ASSUME IInv, judge # None, NEW written \in Configured, NEW option \in GateOption,
         NEW configured, configured = Overridden(written, option),
         NEW resolved, resolved = Resolved(configured, calibration, judge),
         Accepted(configured, resolved)
  PROVE  Grounded(RunnerFor(configured, resolved))
<1> DEFINE r == RunnerFor(configured, resolved)
<1>1. configured \in Configured
  BY DEF Overridden, GateOption
<1>2. IsJudge(judge)
  BY ShapeAssumption DEF IInv, IsJudge
<1>3. /\ r.judge = judge /\ r.measured = measured
      /\ r.gate_on = resolved.gate_on /\ r.calibration = resolved.calibration
  BY DEF RunnerFor
<1>4. r.gate_on \in {"observed", "corrected"}
  BY <1>1, <1>3 DEF Resolved, Configured
<1>5. r.calibration # NoReport => r.calibration = calibration /\ ForJudge(calibration.judge, judge)
  BY <1>3 DEF Resolved
<1>6. resolved.usable => calibration # NoReport /\ r.calibration = calibration
                         /\ Usable(JudgeError(calibration.cases))
  BY <1>3 DEF Resolved
<1>7. r.gate_on = "corrected" => resolved.usable
  BY <1>1, <1>3 DEF Resolved, Configured, Accepted
<1> HIDE DEF r
<1>8. Grounded(r)
  BY <1>2, <1>3, <1>4, <1>5, <1>6, <1>7 DEF Grounded, IInv
<1>9. QED
  BY <1>8 DEF r

(* Every command and every edit of the team keeps the invariant. *)
LEMMA NextIInv == IInv /\ [Next]_vars => IInv'
<1> SUFFICES ASSUME IInv, [Next]_vars PROVE IInv'
  OBVIOUS
<1> USE DEF IInv
<1>1. CASE Reconfigure
  BY <1>1 DEF Reconfigure
<1>2. CASE AddCase
  BY <1>2 DEF AddCase
<1>3. CASE WriteScenario
  BY <1>3 DEF WriteScenario, teamVars
<1>4. CASE Initialise
  BY <1>4, CommandsAssumption DEF Initialise
<1>5. CASE StartGenerate \/ FinishGenerate \/ FailGenerate
  BY <1>5 DEF StartGenerate, FinishGenerate, FailGenerate, teamVars
<1>6. CASE StartCalibrate
  BY <1>6 DEF StartCalibrate, Locate, teamVars
<1>7. CASE FinishCalibrate
  <2>1. PICK verdict \in [calibrating.cases -> BOOLEAN] :
          calibration' =
            [judge |-> JudgeOf(calibrating),
             cases |-> {[id |-> c.id, criterion |-> c.criterion, human |-> c.human,
                         judge |-> verdict[c]] : c \in calibrating.cases}]
    BY <1>7 DEF FinishCalibrate
  <2>2. calibrating.judge \in Judges /\ calibrating.cases \subseteq Case
    BY <1>7 DEF FinishCalibrate
  <2>3. Shaped(calibration'.cases)
    BY <2>1, <2>2, CalibratedShape
  <2>4. IsJudge(calibration'.judge) /\ calibration'.judge = measured'
    BY <1>7, <2>1, <2>2, ShapeAssumption DEF IsJudge, JudgeOf, FinishCalibrate
  <2>5. QED
    BY <1>7, <2>3, <2>4 DEF FinishCalibrate, teamVars
<1>8. CASE FailCalibrate
  BY <1>8 DEF FailCalibrate, teamVars
<1>9. CASE StartRun
  <2>1. Grounded(running')
    BY <1>9, StartIsGrounded DEF StartRun, Locate
  <2>2. QED
    BY <1>9, <2>1 DEF StartRun, teamVars
<1>10. CASE FinishRun
  <2>1. Grounded(report') /\ report'.gates = [c \in ToSet(AllCriteria) |-> GateOf(report', c)]
    BY <1>10 DEF FinishRun, Grounded, GateOf
  <2>2. QED
    BY <1>10, <2>1 DEF FinishRun, teamVars
<1>11. CASE AbandonRun
  BY <1>11 DEF AbandonRun, teamVars
<1>12. CASE UNCHANGED vars
  BY <1>12 DEF vars, teamVars
<1>13. QED
  BY <1>1, <1>2, <1>3, <1>4, <1>5, <1>6, <1>7, <1>8, <1>9, <1>10, <1>11, <1>12 DEF Next

(***************************************************************************)
(* What the runs and reports of a project rest on: whatever is configured, *)
(* labelled or measured meanwhile, they keep what they were given.         *)
(***************************************************************************)
THEOREM CommandsInvariant == Spec => []IInv
<1>1. QED
  BY InitIInv, NextIInv, PTL DEF Spec
-----------------------------------------------------------------------------
(***************************************************************************)
(* "Where a criterion's own cases are enough to use but too weak, that     *)
(* scenario falls back to the observed passes": there is no other reason.  *)
(* With fewer own cases than the minimum a scenario is corrected by all of *)
(* them, and these the gate was resolved on.                               *)
(***************************************************************************)
LEMMA FallsBackFor ==
  ASSUME NEW r, Grounded(r), NEW c, GateOf(r, c) # r.gate_on
  PROVE  r.gate_on = "corrected" /\ Cardinality(OwnCases(r, c)) >= MinCases
<1>1. r.gate_on = "corrected" /\ ~Corrects(r.calibration, c, MinCases)
  BY DEF GateOf, CorrectedApplies, Grounded
<1>2. r.calibration # NoReport /\ Usable(JudgeError(r.calibration.cases))
  BY <1>1 DEF Grounded
<1>3. CasesFor(r.calibration.cases, c, MinCases) # r.calibration.cases
  BY <1>1, <1>2 DEF Corrects
<1>4. QED
  BY <1>1, <1>3 DEF CasesFor, OwnCases

(***************************************************************************)
(* A report gates a scenario apart from its run (resolve_gate,             *)
(* Calibration.cases_for) only when the own cases of its criterion, enough *)
(* of them, say too little.                                                *)
(***************************************************************************)
THEOREM FallsBackForOneReason == Spec => []FallsBackOnOwnCases
<1>1. IInv => FallsBackOnOwnCases
  <2> SUFFICES ASSUME IInv, report # None,
                      NEW c \in DOMAIN report.gates, report.gates[c] # report.gate_on
               PROVE  /\ report.gate_on = "corrected"
                      /\ Cardinality(OwnCases(report, c)) >= MinCases
    BY DEF FallsBackOnOwnCases
  <2>1. Grounded(report) /\ report.gates[c] = GateOf(report, c)
    BY DEF IInv
  <2>2. QED
    BY <2>1, FallsBackFor
<1>2. QED
  BY <1>1, CommandsInvariant, PTL
-----------------------------------------------------------------------------
(* A part of a finite set and the rest of it add up. *)
LEMMA PartsAddUp ==
  ASSUME NEW S, IsFiniteSet(S), NEW T \in SUBSET S
  PROVE  /\ IsFiniteSet(T) /\ IsFiniteSet(S \ T)
         /\ Cardinality(T) \in Nat /\ Cardinality(S \ T) \in Nat
         /\ Cardinality(S) = Cardinality(T) + Cardinality(S \ T)
<1>1. IsFiniteSet(T) /\ IsFiniteSet(S \ T)
  BY FS_Subset
<1>2. T \cup (S \ T) = S /\ T \cap (S \ T) = {}
  OBVIOUS
<1>3. QED
  BY <1>1, <1>2, DisjointUnion, FS_CardinalityType

(***************************************************************************)
(* The four counts of JudgeError make up all others: those of the cases,   *)
(* of what the human and the judge pass, and of where they differ.         *)
(***************************************************************************)
LEMMA ErrorCounts ==
  ASSUME NEW cases, Shaped(cases), NEW e, e = JudgeError(cases)
  PROVE  /\ e.passes \in Nat /\ e.passed \in 0 .. e.passes
         /\ e.fails \in Nat /\ e.failed \in 0 .. e.fails
         /\ Cardinality(cases) = e.passes + e.fails
         /\ Cardinality({k \in cases : k.human}) = e.passes
         /\ Cardinality({k \in cases : k.judge}) = e.passed + (e.fails - e.failed)
         /\ Cardinality({k \in cases : k.human # k.judge})
              = (e.passes - e.passed) + (e.fails - e.failed)
<1> DEFINE passed == {c \in cases : c.human}
           failed == cases \ passed
           right  == {c \in passed : c.judge}
           caught == {c \in failed : ~c.judge}
           a == Cardinality(passed \ right)
           b == Cardinality(failed \ caught)
<1>1. \A k \in cases : k.human \in BOOLEAN /\ k.judge \in BOOLEAN
  BY DEF Shaped
<1>2. /\ e.passes = Cardinality(passed) /\ e.passed = Cardinality(right)
      /\ e.fails = Cardinality(failed) /\ e.failed = Cardinality(caught)
  BY DEF JudgeError
<1>3. /\ {k \in cases : k.judge} = right \cup (failed \ caught)
      /\ right \cap (failed \ caught) = {}
  BY <1>1
<1>4. /\ {k \in cases : k.human # k.judge} = (passed \ right) \cup (failed \ caught)
      /\ (passed \ right) \cap (failed \ caught) = {}
  BY <1>1
<1>5. passed \in SUBSET cases /\ right \in SUBSET passed /\ caught \in SUBSET failed
  OBVIOUS
<1> HIDE DEF right, caught
<1>6. /\ IsFiniteSet(passed) /\ IsFiniteSet(failed)
      /\ Cardinality(passed) \in Nat /\ Cardinality(failed) \in Nat
      /\ Cardinality(cases) = Cardinality(passed) + Cardinality(failed)
  BY <1>5, PartsAddUp DEF Shaped
<1>7. {k \in cases : k.human} = passed
  OBVIOUS
<1> HIDE DEF passed, failed
<1>8. /\ IsFiniteSet(right) /\ IsFiniteSet(passed \ right)
      /\ Cardinality(right) \in Nat /\ a \in Nat
      /\ Cardinality(passed) = Cardinality(right) + a
  BY <1>5, <1>6, PartsAddUp
<1>9. /\ IsFiniteSet(caught) /\ IsFiniteSet(failed \ caught)
      /\ Cardinality(caught) \in Nat /\ b \in Nat
      /\ Cardinality(failed) = Cardinality(caught) + b
  BY <1>5, <1>6, PartsAddUp
<1>10. Cardinality({k \in cases : k.judge}) = Cardinality(right) + b
  BY <1>3, <1>8, <1>9, DisjointUnion
<1>11. Cardinality({k \in cases : k.human # k.judge}) = a + b
  BY <1>4, <1>8, <1>9, DisjointUnion
<1> HIDE DEF a, b
<1> DEFINE human == Cardinality({k \in cases : k.human})
           judged == Cardinality({k \in cases : k.judge})
           wrong == Cardinality({k \in cases : k.human # k.judge})
<1>12. human = Cardinality(passed) /\ judged = Cardinality(right) + b /\ wrong = a + b
  BY <1>7, <1>10, <1>11
<1> HIDE DEF human, judged, wrong
<1>13. /\ e.passes \in Nat /\ e.passed \in 0 .. e.passes
       /\ e.fails \in Nat /\ e.failed \in 0 .. e.fails
       /\ Cardinality(cases) = e.passes + e.fails
       /\ human = e.passes
       /\ judged = e.passed + (e.fails - e.failed)
       /\ wrong = (e.passes - e.passed) + (e.fails - e.failed)
  BY <1>2, <1>6, <1>8, <1>9, <1>12
<1>14. QED
  BY <1>13 DEF human, judged, wrong

(* A judge that is usable is wrong on no more than half of the cases. *)
LEMMA WrongOnHalf ==
  ASSUME NEW P \in Nat, NEW F \in Nat, NEW s \in 0 .. P, NEW f \in 0 .. F, P > 0, F > 0,
         2 * (s * F + f * P - P * F) >= P * F
  PROVE  2 * ((P - s) + (F - f)) <= P + F
<1> DEFINE a == P - s  b == F - f
<1>1. a \in Nat /\ b \in Nat /\ s = P - a /\ f = F - b
  OBVIOUS
<1> HIDE DEF a, b
<1>2. 2 * a * F + 2 * b * P <= P * F
  BY <1>1
<1>3. CASE P >= F
  <2>1. b * P >= b * F
    BY <1>1, <1>3
  <2>2. 2 * (a + b) * F <= P * F
    BY <1>1, <1>2, <2>1
  <2>3. 2 * (a + b) <= P
    BY <1>1, <2>2
  <2>4. QED
    BY <1>1, <2>3
<1>4. CASE P < F
  <2>1. a * F >= a * P
    BY <1>1, <1>4
  <2>2. 2 * (a + b) * P <= F * P
    BY <1>1, <1>2, <2>1
  <2>3. 2 * (a + b) <= F
    BY <1>1, <2>2
  <2>4. QED
    BY <1>1, <2>3
<1>5. QED
  BY <1>3, <1>4

(***************************************************************************)
(* A rate gated on the corrected rate has cases of the judge that gave the *)
(* verdicts, and few enough of them are wrong (resolve_gate).              *)
(***************************************************************************)
LEMMA CorrectedIsMeasured ==
  ASSUME NEW r, Grounded(r), NEW c, GateOf(r, c) = "corrected"
  PROVE  LET cases == CasesFor(r.calibration.cases, c, MinCases)
         IN  /\ r.measured.model = r.judge.model
             /\ r.measured.prompt = "none" \/ r.measured = r.judge
             /\ 2 * Cardinality({k \in cases : k.human # k.judge}) <= Cardinality(cases)
<1> DEFINE cases == CasesFor(r.calibration.cases, c, MinCases)
           e == JudgeError(cases)
<1>1. r.calibration # NoReport /\ Usable(e)
  BY DEF GateOf, CorrectedApplies, Corrects
<1>2. r.measured.model = r.judge.model /\ (r.measured.prompt = "none" \/ r.measured = r.judge)
  BY <1>1 DEF Grounded, ForJudge, IsJudge
<1>3. Shaped(cases)
  <2>1. cases \in SUBSET r.calibration.cases /\ Shaped(r.calibration.cases)
    BY <1>1 DEF CasesFor, Grounded
  <2>2. QED
    BY <2>1, FS_Subset DEF Shaped
<1> HIDE DEF cases
<1> HIDE DEF e
<1>4. /\ e.passes \in Nat /\ e.passed \in 0 .. e.passes
      /\ e.fails \in Nat /\ e.failed \in 0 .. e.fails
      /\ Cardinality(cases) = e.passes + e.fails
      /\ Cardinality({k \in cases : k.human # k.judge})
           = (e.passes - e.passed) + (e.fails - e.failed)
  BY <1>3, ErrorCounts DEF e
<1>5. 2 * ((e.passes - e.passed) + (e.fails - e.failed)) <= e.passes + e.fails
  BY <1>1, <1>4, WrongOnHalf DEF Usable, Youden
<1>6. 2 * Cardinality({k \in cases : k.human # k.judge}) <= Cardinality(cases)
  BY <1>4, <1>5
<1>7. QED
  BY <1>2, <1>6 DEF cases

(***************************************************************************)
(* A rate is corrected by the errors of the judge that gave its verdicts,  *)
(* whatever was configured or calibrated meanwhile, and of a judge that is *)
(* wrong on no more than half of the cases it is corrected by.             *)
(***************************************************************************)
THEOREM CorrectedByOwnErrors == Spec => []CorrectedByItsJudge
<1>1. IInv => CorrectedByItsJudge
  <2> SUFFICES ASSUME IInv, report # None,
                      NEW c \in DOMAIN report.gates, report.gates[c] = "corrected"
               PROVE  LET of == report.measured
                          cases == CasesFor(report.calibration.cases, c, MinCases)
                      IN  /\ of.model = report.judge.model
                          /\ of.prompt = "none" \/ of = report.judge
                          /\ 2 * Cardinality({k \in cases : k.human # k.judge})
                               <= Cardinality(cases)
    BY DEF CorrectedByItsJudge
  <2>1. Grounded(report) /\ GateOf(report, c) = "corrected"
    BY DEF IInv
  <2>2. QED
    BY <2>1, CorrectedIsMeasured
<1>2. QED
  BY <1>1, CommandsInvariant, PTL
-----------------------------------------------------------------------------
(* The algebra of rogan_gladen on the cases it was measured by. *)
LEMMA RateOfCases ==
  ASSUME NEW P \in Nat, NEW F \in Nat, NEW s \in 0 .. P, NEW f \in 0 .. F,
         NEW e, e.passes = P, e.fails = F, e.passed = s, e.failed = f
  PROVE  /\ CorrectedRate(s + (F - f), P + F, e).num * (P + F)
              = P * CorrectedRate(s + (F - f), P + F, e).den
         /\ \A p \in 1 .. (P + F) :
              CorrectedRate(p, P + F, e).num >= CorrectedRate(p - 1, P + F, e).num
<1> DEFINE y == s * F + f * P - P * F
<1>1. y \in Int
  OBVIOUS
<1>2. (s + (F - f)) * F + f * (P + F) - (P + F) * F = y
  OBVIOUS
<1>3. /\ CorrectedRate(s + (F - f), P + F, e).num = y * P
      /\ CorrectedRate(s + (F - f), P + F, e).den = (P + F) * y
  BY <1>2 DEF CorrectedRate, Youden
<1>4. ASSUME NEW p \in 1 .. (P + F)
      PROVE  CorrectedRate(p, P + F, e).num >= CorrectedRate(p - 1, P + F, e).num
  <2> DEFINE x == (p - 1) * F + f * (P + F) - (P + F) * F
  <2>1. x \in Int /\ p * F + f * (P + F) - (P + F) * F = x + F
    OBVIOUS
  <2>2. CorrectedRate(p, P + F, e).num = (x + F) * P /\ CorrectedRate(p - 1, P + F, e).num = x * P
    BY <2>1 DEF CorrectedRate
  <2> HIDE DEF x
  <2>3. (x + F) * P = x * P + F * P /\ F * P >= 0 /\ x * P \in Int
    BY <2>1
  <2>4. QED
    BY <2>2, <2>3
<1> HIDE DEF y
<1>5. (y * P) * (P + F) = P * ((P + F) * y)
  BY <1>1
<1>6. QED
  BY <1>3, <1>4, <1>5

(***************************************************************************)
(* The correction undoes the errors it was measured by, for every          *)
(* criterion, and never lowers a rate for one more pass.                   *)
(***************************************************************************)
THEOREM CorrectionIsInverse == Spec => []CorrectionUndoesError
<1>1. IInv => CorrectionUndoesError
  <2> SUFFICES ASSUME IInv, NEW c \in ToSet(AllCriteria),
                      NEW cases, cases = CasesFor(calibration.cases, c, MinCases),
                      NEW e, e = JudgeError(cases), Usable(e),
                      NEW judged, judged = Cardinality(cases),
                      NEW passes, passes = Cardinality({k \in cases : k.judge})
               PROVE  /\ CorrectedRate(passes, judged, e).num * judged
                           = Cardinality({k \in cases : k.human}) * CorrectedRate(passes, judged, e).den
                      /\ \A p \in 1 .. judged :
                           CorrectedRate(p, judged, e).num >= CorrectedRate(p - 1, judged, e).num
    BY DEF CorrectionUndoesError
  <2>1. Shaped(cases)
    <3>1. cases \in SUBSET calibration.cases /\ Shaped(calibration.cases)
      BY DEF CasesFor, IInv
    <3>2. QED
      BY <3>1, FS_Subset DEF Shaped
  <2>2. /\ e.passes \in Nat /\ e.passed \in 0 .. e.passes
        /\ e.fails \in Nat /\ e.failed \in 0 .. e.fails
        /\ judged = e.passes + e.fails
        /\ Cardinality({k \in cases : k.human}) = e.passes
        /\ passes = e.passed + (e.fails - e.failed)
    BY <2>1, ErrorCounts
  <2>3. QED
    <3> DEFINE human == Cardinality({k \in cases : k.human})
    <3>1. human = e.passes
      BY <2>2
    <3> HIDE DEF human
    <3>2. /\ CorrectedRate(passes, judged, e).num * judged
               = human * CorrectedRate(passes, judged, e).den
          /\ \A p \in 1 .. judged :
               CorrectedRate(p, judged, e).num >= CorrectedRate(p - 1, judged, e).num
      <4> DEFINE P == e.passes  F == e.fails  hits == e.passed  misses == e.failed
      <4>1. /\ P \in Nat /\ F \in Nat /\ hits \in 0 .. P /\ misses \in 0 .. F
            /\ e.passes = P /\ e.fails = F /\ e.passed = hits /\ e.failed = misses
        BY <2>2
      <4>2. judged = P + F /\ passes = hits + (F - misses) /\ human = P
        BY <2>2, <3>1
      <4> HIDE DEF P, F, hits, misses
      <4>3. /\ CorrectedRate(hits + (F - misses), P + F, e).num * (P + F)
                 = P * CorrectedRate(hits + (F - misses), P + F, e).den
            /\ \A p \in 1 .. (P + F) :
                 CorrectedRate(p, P + F, e).num >= CorrectedRate(p - 1, P + F, e).num
        BY ONLY <4>1, RateOfCases
      <4>4. QED
        BY ONLY <4>2, <4>3
    <3>3. QED
      BY <3>2 DEF human
<1>2. QED
  BY <1>1, CommandsInvariant, PTL
-----------------------------------------------------------------------------
(* One more item. *)
LEMMA AppendItem ==
  ASSUME NEW A, NEW q \in Seq(A), NEW x \in A
  PROVE  /\ Append(q, x) \in Seq(A) /\ ToSet(Append(q, x)) = ToSet(q) \cup {x}
         /\ DOMAIN Append(q, x) = 1 .. (Len(q) + 1) /\ DOMAIN q = 1 .. Len(q)
         /\ Append(q, x)[Len(q) + 1] = x /\ \A i \in 1 .. Len(q) : Append(q, x)[i] = q[i]
<1> DEFINE r == Append(q, x)
           m == Len(q)
<1>1. /\ r \in Seq(A) /\ m \in Nat /\ DOMAIN r = 1 .. (m + 1) /\ DOMAIN q = 1 .. m
      /\ r[m + 1] = x /\ \A i \in 1 .. m : r[i] = q[i]
  OBVIOUS
<1> HIDE DEF r, m
<1>2. ToSet(r) = ToSet(q) \cup {x}
  <2>1. 1 .. (m + 1) = 1 .. m \cup {m + 1}
    BY <1>1
  <2>2. QED
    BY <1>1, <2>1 DEF ToSet
<1>3. QED
  BY <1>1, <1>2 DEF r, m

(* The items of a sequence outside a set are items of it outside the set. *)
LEMMA OutsideItems ==
  ASSUME NEW A, NEW seq \in Seq(A), NEW set
  PROVE  Outside(seq, set) \in Seq(A) /\ ToSet(Outside(seq, set)) \subseteq ToSet(seq) \ set
<1> DEFINE n == Len(seq)
           B == {q \in Seq(A) : ToSet(q) \subseteq ToSet(seq) \ set}
           With(q, item) == IF item \in set THEN q ELSE Append(q, item)
           step == [p \in B \X (1 .. n) |-> With(p[1], seq[p[2]])]
           Fold(iter) == iter = [t \in SUBSET (1 .. n) |->
                                   IF t = {} THEN <<>> ELSE With(iter[t \ {Max(t)}], seq[Max(t)])]
<1>1. n \in Nat /\ DOMAIN seq = 1 .. n /\ \A k \in 1 .. n : seq[k] \in A /\ seq[k] \in ToSet(seq)
  BY DEF ToSet
<1>2. ASSUME NEW q \in B, NEW k \in 1 .. n
      PROVE  With(q, seq[k]) \in B
  <2>1. CASE seq[k] \in set
    BY <2>1
  <2>2. CASE seq[k] \notin set
    <3>1. Append(q, seq[k]) \in Seq(A) /\ ToSet(Append(q, seq[k])) = ToSet(q) \cup {seq[k]}
      <4>1. q \in Seq(A) /\ seq[k] \in A
        BY <1>1
      <4>2. QED
        BY <4>1, AppendItem
    <3>2. QED
      BY <1>1, <2>2, <3>1
  <2>3. QED
    BY <2>1, <2>2
<1>3. <<>> \in B
  BY DEF ToSet
<1> HIDE DEF B, With
<1>4. step \in [B \X (1 .. n) -> B]
  BY <1>2
<1>5. PICK some \in [SUBSET (1 .. n) -> B] : Iterates(some, step, <<>>, n)
  <2> HIDE DEF step, n
  <2>1. QED
    BY <1>1, <1>3, <1>4, FoldExists
<1>6. Fold(some)
  <2>1. ASSUME NEW t \in SUBSET (1 .. n), t # {}
        PROVE  some[t] = With(some[t \ {Max(t)}], seq[Max(t)])
    <3>1. Max(t) \in 1 .. n
      BY <1>1, <2>1, MaxIsOne
    <3>2. some[t] = step[<<some[t \ {Max(t)}], Max(t)>>] /\ some[t \ {Max(t)}] \in B
      BY <1>5, <2>1 DEF Iterates
    <3>3. QED
      BY <3>1, <3>2
  <2>2. some[{}] = <<>>
    BY <1>5 DEF Iterates
  <2>3. QED
    BY <1>5, <2>1, <2>2
<1> DEFINE iter == CHOOSE iter : Fold(iter)
           h == [k \in 0 .. n |-> iter[1 .. k]]
<1>7. Fold(iter)
  BY <1>6
<1>8. Outside(seq, set) = iter[1 .. n]
  BY <1>1 DEF Outside, FoldLeft, MapThenFoldSet, With
<1> HIDE DEF iter
<1>9. h[0] = <<>>
  BY <1>1, <1>7
<1>10. ASSUME NEW k \in 1 .. n
       PROVE  h[k] = With(h[k - 1], seq[k])
  <2>1. /\ 1 .. k \in SUBSET (1 .. n) /\ 1 .. k # {} /\ Max(1 .. k) = k
        /\ (1 .. k) \ {k} = 1 .. (k - 1)
    BY <1>1, FirstIndices
  <2>2. iter[1 .. k] = With(iter[1 .. (k - 1)], seq[k])
    BY <1>7, <2>1
  <2>3. h[k] = iter[1 .. k] /\ h[k - 1] = iter[1 .. (k - 1)]
    BY <1>1
  <2>4. QED
    BY <2>2, <2>3
<1>11. h[n] = iter[1 .. n]
  BY <1>1
<1> HIDE DEF h
<1>12. \A k \in 0 .. n : h[k] \in B
  <2>1. \A k \in 1 .. n : h[k - 1] \in B => h[k] \in B
    BY <1>2, <1>10
  <2>2. h[0] \in B
    BY <1>3, <1>9
  <2>3. QED
    BY <1>1, <2>1, <2>2, AllAlong
<1>13. Outside(seq, set) \in B
  BY <1>1, <1>8, <1>11, <1>12
<1>14. QED
  BY <1>13 DEF B
-----------------------------------------------------------------------------
(***************************************************************************)
(* An id is the words it is made of, of which one may be a suffix.  That   *)
(* numbers are written differently is a fact about ToString, of which the  *)
(* prover knows nothing.                                                   *)
(***************************************************************************)
Word == STRING \cup {ToString(n) : n \in Nat}
Id == Seq(Word)

NumeralsDiffer == \A m, n \in Nat : ToString(m) = ToString(n) => m = n

(* The candidates for an id are all different. *)
LEMMA CandidatesDiffer ==
  ASSUME NumeralsDiffer, NEW base \in Id, NEW m \in Nat \ {0}, NEW n \in Nat \ {0}, m # n
  PROVE  Candidate(base, m) \in Id /\ Candidate(base, m) # Candidate(base, n)
<1>1. ASSUME NEW k \in Nat \ {0}
      PROVE  /\ Candidate(base, k) \in Id
             /\ k # 1 => Candidate(base, k) = Append(base, ToString(k)) /\ ToString(k) \in Word
             /\ k = 1 => Candidate(base, k) = base
  <2>1. ToString(k) \in Word
    BY DEF Word
  <2>2. QED
    BY <2>1 DEF Candidate, Id
<1>2. ASSUME NEW x \in Word, NEW y \in Word
      PROVE  Append(base, x) # base /\ (Append(base, x) = Append(base, y) => x = y)
  BY DEF Id
<1>3. ToString(m) # ToString(n)
  BY DEF NumeralsDiffer
<1>4. QED
  BY <1>1, <1>2, <1>3

(***************************************************************************)
(* There is a first candidate that is not taken, among one more of them    *)
(* than are taken, and it is the one that is used (drafts_to_scenarios).   *)
(***************************************************************************)
LEMMA FreeIsFree ==
  ASSUME NumeralsDiffer, NEW base \in Id, NEW taken, IsFiniteSet(taken)
  PROVE  Free(base, taken) \in Id /\ Free(base, taken) \notin taken
<1> DEFINE N == Cardinality(taken) + 1
           First(n) == /\ Candidate(base, n) \notin taken
                       /\ \A k \in 1 .. (n - 1) : Candidate(base, k) \in taken
           T == {k \in Nat : k <= N => \A j \in 1 .. k : Candidate(base, j) \in taken}
<1>1. Cardinality(taken) \in Nat /\ N \in Nat \ {0}
  BY FS_CardinalityType
<1>2. \E n \in 1 .. N : First(n)
  <2> SUFFICES ASSUME \A n \in 1 .. N : ~First(n) PROVE FALSE
    OBVIOUS
  <2>1. 0 \in T
    OBVIOUS
  <2>2. ASSUME NEW k \in Nat, k \in T
        PROVE  k + 1 \in T
    <3>1. CASE k + 1 <= N
      <4>1. \A j \in 1 .. k : Candidate(base, j) \in taken
        BY <1>1, <2>2, <3>1
      <4>2. k + 1 \in 1 .. N /\ (k + 1) - 1 = k
        BY <1>1, <3>1
      <4>3. Candidate(base, k + 1) \in taken
        BY <4>1, <4>2
      <4>4. \A j \in 1 .. (k + 1) : j \in 1 .. k \/ j = k + 1
        OBVIOUS
      <4>5. QED
        BY <4>1, <4>3, <4>4
    <3>2. QED
      BY <3>1
  <2> HIDE DEF T
  <2>3. N \in T
    BY <1>1, <2>1, <2>2, NatSet
  <2>4. \A j \in 1 .. N : Candidate(base, j) \in taken
    BY <1>1, <2>3 DEF T
  <2> DEFINE S == 1 .. N
             f == [j \in S |-> Candidate(base, j)]
  <2>5. f \in [S -> taken]
    BY <2>4
  <2>6. IsFiniteSet(S) /\ Cardinality(S) = N
    BY <1>1, FS_Interval
  <2>7. Cardinality(taken) < Cardinality(S)
    BY <1>1, <2>6
  <2>8. PICK x, y \in S : x # y /\ f[x] = f[y]
    <3> HIDE DEF f, S, N
    <3>1. QED
      BY <2>5, <2>6, <2>7, FS_PigeonHole
  <2>9. QED
    BY <1>1, <2>8, CandidatesDiffer
<1>3. ASSUME NEW n \in 1 .. N
      PROVE  Candidate(base, n) \in Id
  BY <1>1, CandidatesDiffer
<1>4. QED
  BY <1>2, <1>3 DEF Free

(* The ids in a sequence are each in it once. *)
Once(q) == \A i, j \in 1 .. Len(q) : q[i] = q[j] => i = j

(***************************************************************************)
(* The ids of the scenarios of a criterion are each given once, and none   *)
(* of them is taken, whatever a model answers with.                        *)
(***************************************************************************)
LEMMA NamedAreFree ==
  ASSUME NumeralsDiffer, NEW criterion \in Id, NEW names \in Seq(Id),
         NEW taken, IsFiniteSet(taken)
  PROVE  LET ids == Named(criterion, names, taken)
         IN  ids \in Seq(Id) /\ Once(ids) /\ ToSet(ids) \cap taken = {}
<1> DEFINE n == Len(names)
           B == {q \in Seq(Id) : Once(q) /\ ToSet(q) \cap taken = {}}
           With(q, name) == Append(q, Free(criterion \o name, taken \cup ToSet(q)))
           step == [p \in B \X (1 .. n) |-> With(p[1], names[p[2]])]
           Fold(iter) == iter = [t \in SUBSET (1 .. n) |->
                                   IF t = {} THEN <<>> ELSE With(iter[t \ {Max(t)}], names[Max(t)])]
<1>1. n \in Nat /\ DOMAIN names = 1 .. n /\ \A k \in 1 .. n : names[k] \in Id
  OBVIOUS
<1>2. ASSUME NEW q \in B, NEW k \in 1 .. n
      PROVE  With(q, names[k]) \in B
  <2> DEFINE id == Free(criterion \o names[k], taken \cup ToSet(q))
  <2>1. criterion \o names[k] \in Id
    BY <1>1 DEF Id
  <2>2. IsFiniteSet(taken \cup ToSet(q))
    <3>1. DOMAIN q = 1 .. Len(q) /\ Len(q) \in Nat
      OBVIOUS
    <3>2. q \in Surjection(1 .. Len(q), ToSet(q))
      BY <3>1 DEF Surjection, ToSet
    <3>3. IsFiniteSet(ToSet(q))
      BY <3>1, <3>2, FS_Interval, FS_Surjection
    <3>4. QED
      BY <3>3, FS_Union
  <2>3. id \in Id /\ id \notin taken /\ id \notin ToSet(q)
    BY <2>1, <2>2, FreeIsFree
  <2> HIDE DEF id
  <2>4. q \in Seq(Id) /\ Once(q) /\ ToSet(q) \cap taken = {} /\ Len(q) \in Nat
    OBVIOUS
  <2> DEFINE r == Append(q, id)
  <2>5. /\ r \in Seq(Id) /\ ToSet(r) = ToSet(q) \cup {id}
        /\ Len(r) = Len(q) + 1 /\ DOMAIN q = 1 .. Len(q)
        /\ r[Len(q) + 1] = id /\ \A i \in 1 .. Len(q) : r[i] = q[i]
    BY <2>3, <2>4, AppendItem
  <2> HIDE DEF r
  <2>6. \A i \in 1 .. Len(q) : q[i] # id
    BY <2>3, <2>5 DEF ToSet
  <2>7. \A i \in 1 .. (Len(q) + 1) : i \in 1 .. Len(q) \/ i = Len(q) + 1
    BY <2>4
  <2>8. Once(r)
    BY <2>4, <2>5, <2>6, <2>7 DEF Once
  <2>9. r \in B
    BY <2>3, <2>4, <2>5, <2>8
  <2>10. QED
    BY <2>9 DEF r, id
<1>3. <<>> \in B
  BY DEF ToSet, Once
<1> HIDE DEF B, With
<1>4. step \in [B \X (1 .. n) -> B]
  BY <1>2
<1>5. PICK some \in [SUBSET (1 .. n) -> B] : Iterates(some, step, <<>>, n)
  <2> HIDE DEF step, n
  <2>1. QED
    BY <1>1, <1>3, <1>4, FoldExists
<1>6. Fold(some)
  <2>1. ASSUME NEW t \in SUBSET (1 .. n), t # {}
        PROVE  some[t] = With(some[t \ {Max(t)}], names[Max(t)])
    <3>1. Max(t) \in 1 .. n
      BY <1>1, <2>1, MaxIsOne
    <3>2. some[t] = step[<<some[t \ {Max(t)}], Max(t)>>] /\ some[t \ {Max(t)}] \in B
      BY <1>5, <2>1 DEF Iterates
    <3>3. QED
      BY <3>1, <3>2
  <2>2. some[{}] = <<>>
    BY <1>5 DEF Iterates
  <2>3. QED
    BY <1>5, <2>1, <2>2
<1> DEFINE iter == CHOOSE iter : Fold(iter)
           h == [k \in 0 .. n |-> iter[1 .. k]]
<1>7. Fold(iter)
  BY <1>6
<1>8. Named(criterion, names, taken) = iter[1 .. n]
  BY <1>1 DEF Named, FoldLeft, MapThenFoldSet, With
<1> HIDE DEF iter
<1>9. h[0] = <<>>
  BY <1>1, <1>7
<1>10. ASSUME NEW k \in 1 .. n
       PROVE  h[k] = With(h[k - 1], names[k])
  <2>1. /\ 1 .. k \in SUBSET (1 .. n) /\ 1 .. k # {} /\ Max(1 .. k) = k
        /\ (1 .. k) \ {k} = 1 .. (k - 1)
    BY <1>1, FirstIndices
  <2>2. iter[1 .. k] = With(iter[1 .. (k - 1)], names[k])
    BY <1>7, <2>1
  <2>3. h[k] = iter[1 .. k] /\ h[k - 1] = iter[1 .. (k - 1)]
    BY <1>1
  <2>4. QED
    BY <2>2, <2>3
<1>11. h[n] = iter[1 .. n]
  BY <1>1
<1> HIDE DEF h
<1>12. \A k \in 0 .. n : h[k] \in B
  <2>1. \A k \in 1 .. n : h[k - 1] \in B => h[k] \in B
    BY <1>2, <1>10
  <2>2. h[0] \in B
    BY <1>3, <1>9
  <2>3. QED
    BY <1>1, <2>1, <2>2, AllAlong
<1>13. Named(criterion, names, taken) \in B
  BY <1>1, <1>8, <1>11, <1>12
<1>14. QED
  BY <1>13 DEF B
-----------------------------------------------------------------------------
(* The files there may be at some of the paths, and of which no id is in two places. *)
FilesAt(paths) == UNION {[some -> Seq(Id)] : some \in SUBSET paths}

Distinct(fs, paths) ==
  \A p, q \in paths :
    \A i \in 1 .. Len(fs[p]), j \in 1 .. Len(fs[q]) : fs[p][i] = fs[q][j] => p = q /\ i = j

(* The ids in finitely many files are finitely many. *)
LEMMA IdsFinite ==
  ASSUME NEW fs, NEW paths, IsFiniteSet(paths), \A p \in paths : fs[p] \in Seq(Id)
  PROVE  IsFiniteSet(UNION {ToSet(fs[p]) : p \in paths})
<1> DEFINE T == {ToSet(fs[p]) : p \in paths}
           f == [p \in paths |-> ToSet(fs[p])]
<1>1. f \in Surjection(paths, T)
  BY DEF Surjection
<1>2. IsFiniteSet(T)
  <2> HIDE DEF f, T
  <2>1. QED
    BY <1>1, FS_Surjection
<1>3. ASSUME NEW p \in paths
      PROVE  IsFiniteSet(ToSet(fs[p]))
  <2>1. fs[p] \in Seq(Id)
    OBVIOUS
  <2>2. DOMAIN fs[p] = 1 .. Len(fs[p]) /\ Len(fs[p]) \in Nat
    BY <2>1
  <2>3. fs[p] \in Surjection(1 .. Len(fs[p]), ToSet(fs[p]))
    BY <2>1, <2>2 DEF Surjection, ToSet
  <2>4. QED
    BY <2>2, <2>3, FS_Interval, FS_Surjection
<1>4. \A x \in T : IsFiniteSet(x)
  BY <1>3
<1> HIDE DEF T
<1>5. IsFiniteSet(UNION T)
  BY <1>2, <1>4, FS_UNION
<1>6. QED
  BY <1>5 DEF T

(* What is in the files of which some are written again. *)
WithFiles(gs, old, new) ==
  /\ DOMAIN gs = DOMAIN old \cup DOMAIN new
  /\ \A p \in DOMAIN new : gs[p] = new[p] /\ new[p] \in Seq(Id)
  /\ \A p \in DOMAIN old \ DOMAIN new : gs[p] = old[p] /\ old[p] \in Seq(Id)

(* The files that are written are the only ones that change. *)
LEMMA OverwrittenFiles ==
  ASSUME NEW paths, NEW old \in FilesAt(paths), NEW new \in FilesAt(paths)
  PROVE  /\ Overwritten(old, new) \in FilesAt(paths)
         /\ WithFiles(Overwritten(old, new), old, new)
<1>1. PICK D \in SUBSET paths : old \in [D -> Seq(Id)]
  BY DEF FilesAt
<1>2. PICK E \in SUBSET paths : new \in [E -> Seq(Id)]
  BY DEF FilesAt
<1>3. DOMAIN old = D /\ DOMAIN new = E /\ D \cup E \in SUBSET paths
  BY <1>1, <1>2
<1>4. Overwritten(old, new) \in [D \cup E -> Seq(Id)]
  BY <1>1, <1>2, <1>3 DEF Overwritten
<1>5. QED
  BY <1>1, <1>2, <1>3, <1>4 DEF Overwritten, FilesAt, WithFiles

(* What is in the files of which one is written. *)
WithFile(gs, fs, p, ids) ==
  /\ DOMAIN gs = DOMAIN fs \cup {p}
  /\ gs[p] = ids
  /\ \A q \in DOMAIN fs \ {p} : gs[q] = fs[q] /\ fs[q] \in Seq(Id)

(* A file that is written is the only one that changes. *)
LEMMA OneFile ==
  ASSUME NEW paths, NEW fs \in FilesAt(paths), NEW p \in paths, NEW ids \in Seq(Id)
  PROVE  LET gs == Overwritten(fs, FileAt(p, ids))
         IN  gs \in FilesAt(paths) /\ WithFile(gs, fs, p, ids)
<1> DEFINE gs == Overwritten(fs, FileAt(p, ids))
<1>1. PICK D \in SUBSET paths : fs \in [D -> Seq(Id)]
  BY DEF FilesAt
<1>2. DOMAIN fs = D /\ D \cup {p} \in SUBSET paths
  BY <1>1
<1>3. gs = [q \in D \cup {p} |-> IF q \in {p} THEN ids ELSE fs[q]]
  BY <1>2 DEF Overwritten, FileAt
<1>4. gs \in [D \cup {p} -> Seq(Id)]
  BY <1>1, <1>3
<1>5. gs \in FilesAt(paths)
  BY <1>2, <1>4 DEF FilesAt
<1>6. QED
  BY <1>1, <1>2, <1>3, <1>5 DEF WithFile

(* A file of ids that are in none of the others keeps them distinct. *)
LEMMA OneMoreFile ==
  ASSUME NEW paths, NEW fs \in FilesAt(paths), Distinct(fs, DOMAIN fs),
         NEW p \in paths, NEW ids \in Seq(Id), Once(ids),
         ToSet(ids) \cap UNION {ToSet(fs[q]) : q \in DOMAIN fs} = {}
  PROVE  LET gs == Overwritten(fs, FileAt(p, ids)) IN Distinct(gs, DOMAIN gs)
<1> DEFINE gs == Overwritten(fs, FileAt(p, ids))
<1>1. /\ DOMAIN gs = DOMAIN fs \cup {p}
      /\ gs[p] = ids
      /\ \A q \in DOMAIN fs \ {p} : gs[q] = fs[q] /\ fs[q] \in Seq(Id)
  <2>1. WithFile(gs, fs, p, ids)
    BY OneFile
  <2>2. QED
    BY <2>1 DEF WithFile
<1>2. ASSUME NEW q \in DOMAIN fs \ {p}, NEW i \in 1 .. Len(ids), NEW j \in 1 .. Len(fs[q])
      PROVE  ids[i] # fs[q][j]
  <2>1. ids[i] \in ToSet(ids)
    BY DEF ToSet
  <2>2. fs[q][j] \in ToSet(fs[q])
    BY <1>1 DEF ToSet
  <2>3. QED
    BY <2>1, <2>2
<1> HIDE DEF gs
<1>3. Distinct(gs, DOMAIN gs)
  BY <1>1, <1>2 DEF Distinct, Once
<1>4. QED
  BY <1>3 DEF gs

(* Files at all of the paths, of which no id is in two places or taken. *)
Afresh(new, paths, taken) ==
  /\ DOMAIN new = paths /\ \A p \in paths : new[p] \in Seq(Id)
  /\ Distinct(new, paths)
  /\ \A p \in paths : ToSet(new[p]) \cap taken = {}

(***************************************************************************)
(* The files a generation writes are those of its targets, of ids of which *)
(* each is in one place, and none in a file that is not written again.     *)
(***************************************************************************)
LEMMA GeneratedAreFree ==
  ASSUME NumeralsDiffer, NEW targets \in Seq(Id), NEW adversarial,
         NEW answers, \A i \in 1 .. Len(targets) : answers[i] \in Seq(Id),
         NEW taken, IsFiniteSet(taken)
  PROVE  LET new == Generated(targets, answers, adversarial, taken)
             paths == {OutputPath(c, adversarial) : c \in ToSet(targets)}
         IN  new \in FilesAt(paths) /\ Afresh(new, paths, taken)
<1> DEFINE n == Len(targets)
           s == [i \in DOMAIN targets |-> i]
           path(k) == OutputPath(targets[k], adversarial)
           paths == {OutputPath(c, adversarial) : c \in ToSet(targets)}
           In(fs) == UNION {ToSet(fs[p]) : p \in DOMAIN fs}
           B == {fs \in FilesAt(paths) : Distinct(fs, DOMAIN fs)
                                         /\ \A p \in DOMAIN fs : ToSet(fs[p]) \cap taken = {}}
           With(fs, k) ==
             Overwritten(fs, FileAt(path(k), Named(targets[k], answers[k], taken \cup In(fs))))
           step == [p \in B \X (1 .. n) |-> With(p[1], s[p[2]])]
           Fold(iter) == iter = [t \in SUBSET (1 .. n) |->
                                   IF t = {} THEN <<>> ELSE With(iter[t \ {Max(t)}], s[Max(t)])]
<1>1. /\ n \in Nat /\ DOMAIN targets = 1 .. n /\ DOMAIN s = 1 .. n /\ Len(s) = n
      /\ \A k \in 1 .. n : s[k] = k /\ targets[k] \in Id /\ path(k) \in paths
      /\ paths = {path(k) : k \in 1 .. n}
  <2>1. /\ n \in Nat /\ DOMAIN targets = 1 .. n /\ DOMAIN s = 1 .. n /\ Len(s) = n
        /\ \A k \in 1 .. n : s[k] = k /\ targets[k] \in Id
    OBVIOUS
  <2>2. ToSet(targets) = {targets[k] : k \in 1 .. n}
    BY <2>1 DEF ToSet
  <2>3. paths = {path(k) : k \in 1 .. n}
    BY <2>2
  <2>4. QED
    BY <2>1, <2>3
<1>2. IsFiniteSet(paths)
  <2> DEFINE f == [k \in 1 .. n |-> path(k)]
  <2>1. f \in Surjection(1 .. n, paths)
    BY <1>1 DEF Surjection
  <2> DEFINE S == 1 .. n
  <2>2. IsFiniteSet(S)
    <3>1. n \in Int
      BY <1>1
    <3> HIDE DEF n
    <3>2. QED
      BY <3>1, FS_Interval
  <2>3. f \in Surjection(S, paths)
    BY <2>1
  <2> HIDE DEF f, path, paths, S
  <2>4. QED
    BY <2>2, <2>3, FS_Surjection
<1>3. ASSUME NEW fs \in B, NEW k \in 1 .. n
      PROVE  With(fs, k) \in B /\ DOMAIN With(fs, k) = DOMAIN fs \cup {path(k)}
  <2> DEFINE ids == Named(targets[k], answers[k], taken \cup In(fs))
             gs == Overwritten(fs, FileAt(path(k), ids))
  <2>1. /\ fs \in FilesAt(paths) /\ Distinct(fs, DOMAIN fs)
        /\ \A p \in DOMAIN fs : ToSet(fs[p]) \cap taken = {}
    OBVIOUS
  <2>2. DOMAIN fs \in SUBSET paths /\ \A p \in DOMAIN fs : fs[p] \in Seq(Id)
    BY <2>1 DEF FilesAt
  <2>3. IsFiniteSet(taken \cup In(fs))
    <3>1. IsFiniteSet(DOMAIN fs)
      BY <1>2, <2>2, FS_Subset
    <3>2. IsFiniteSet(In(fs))
      BY <2>2, <3>1, IdsFinite
    <3>3. QED
      BY <3>2, FS_Union
  <2>4. ids \in Seq(Id) /\ Once(ids) /\ ToSet(ids) \cap (taken \cup In(fs)) = {}
    <3> DEFINE there == taken \cup In(fs)
    <3>1. IsFiniteSet(there)
      BY <2>3
    <3>2. targets[k] \in Id /\ answers[k] \in Seq(Id)
      BY <1>1
    <3> HIDE DEF there
    <3>3. LET given == Named(targets[k], answers[k], there)
          IN  given \in Seq(Id) /\ Once(given) /\ ToSet(given) \cap there = {}
      BY <3>1, <3>2, NamedAreFree
    <3>4. QED
      BY <3>3 DEF there
  <2> HIDE DEF ids, B
  <2>5. path(k) \in paths
    BY <1>1
  <2> HIDE DEF path, paths
  <2>6. Distinct(gs, DOMAIN gs)
    BY <2>1, <2>4, <2>5, OneMoreFile
  <2>7. /\ gs \in FilesAt(paths) /\ DOMAIN gs = DOMAIN fs \cup {path(k)}
        /\ gs[path(k)] = ids
        /\ \A q \in DOMAIN fs \ {path(k)} : gs[q] = fs[q]
    <3>1. gs \in FilesAt(paths) /\ WithFile(gs, fs, path(k), ids)
      BY <2>1, <2>4, <2>5, OneFile
    <3>2. QED
      BY <3>1 DEF WithFile
  <2>8. \A p \in DOMAIN gs : ToSet(gs[p]) \cap taken = {}
    BY <2>1, <2>4, <2>7
  <2>9. gs \in B /\ DOMAIN gs = DOMAIN fs \cup {path(k)}
    BY <2>6, <2>7, <2>8 DEF B
  <2>10. QED
    BY <2>9 DEF ids
<1>4. <<>> \in B
  <2>1. <<>> \in FilesAt(paths) /\ DOMAIN <<>> = {}
    <3>1. <<>> \in [{} -> Seq(Id)] /\ {} \in SUBSET paths
      OBVIOUS
    <3>2. QED
      BY <3>1 DEF FilesAt
  <2>2. QED
    BY <2>1 DEF Distinct
<1> HIDE DEF B, With, path, paths
<1>5. step \in [B \X (1 .. n) -> B]
  BY <1>1, <1>3
<1>6. PICK some \in [SUBSET (1 .. n) -> B] : Iterates(some, step, <<>>, n)
  <2> HIDE DEF step, n
  <2>1. QED
    BY <1>1, <1>4, <1>5, FoldExists
<1>7. Fold(some)
  <2>1. ASSUME NEW t \in SUBSET (1 .. n), t # {}
        PROVE  some[t] = With(some[t \ {Max(t)}], s[Max(t)])
    <3>1. Max(t) \in 1 .. n
      BY <1>1, <2>1, MaxIsOne
    <3>2. some[t] = step[<<some[t \ {Max(t)}], Max(t)>>] /\ some[t \ {Max(t)}] \in B
      BY <1>6, <2>1 DEF Iterates
    <3>3. QED
      BY <3>1, <3>2
  <2>2. some[{}] = <<>>
    BY <1>6 DEF Iterates
  <2>3. QED
    BY <1>6, <2>1, <2>2
<1> DEFINE iter == CHOOSE iter : Fold(iter)
           h == [k \in 0 .. n |-> iter[1 .. k]]
<1>8. Fold(iter)
  BY <1>7
<1>9. Generated(targets, answers, adversarial, taken) = iter[1 .. n]
  BY <1>1 DEF Generated, FoldLeftDomain, FoldLeft, MapThenFoldSet, With, path
<1> HIDE DEF iter
<1>10. h[0] = <<>>
  BY <1>1, <1>8
<1>11. ASSUME NEW k \in 1 .. n
       PROVE  h[k] = With(h[k - 1], k)
  <2>1. /\ 1 .. k \in SUBSET (1 .. n) /\ 1 .. k # {} /\ Max(1 .. k) = k
        /\ (1 .. k) \ {k} = 1 .. (k - 1)
    BY <1>1, FirstIndices
  <2>2. iter[1 .. k] = With(iter[1 .. (k - 1)], k)
    BY <1>1, <1>8, <2>1
  <2>3. h[k] = iter[1 .. k] /\ h[k - 1] = iter[1 .. (k - 1)]
    BY <1>1
  <2>4. QED
    BY <2>2, <2>3
<1>12. h[n] = iter[1 .. n]
  BY <1>1
<1> HIDE DEF h
<1>13. \A k \in 0 .. n : h[k] \in B
  <2>1. \A k \in 1 .. n : h[k - 1] \in B => h[k] \in B
    BY <1>3, <1>11
  <2>2. h[0] \in B
    BY <1>4, <1>10
  <2>3. QED
    BY <1>1, <2>1, <2>2, AllAlong
<1>14. \A k \in 0 .. n : DOMAIN h[k] = {path(i) : i \in 1 .. k}
  <2> DEFINE g == [k \in 0 .. n |-> DOMAIN h[k] = {path(i) : i \in 1 .. k}]
  <2>1. g[0] \in {TRUE}
    <3>1. 1 .. 0 = {} /\ DOMAIN h[0] = {} /\ 0 \in 0 .. n
      BY <1>1, <1>10
    <3>2. QED
      BY <3>1
  <2>2. ASSUME NEW k \in 1 .. n, g[k - 1] \in {TRUE}
        PROVE  g[k] \in {TRUE}
    <3>1. k - 1 \in 0 .. n /\ k \in 0 .. n
      BY <1>1
    <3>2. DOMAIN h[k] = DOMAIN h[k - 1] \cup {path(k)}
      BY <1>3, <1>11, <1>13, <3>1
    <3>3. 1 .. k = 1 .. (k - 1) \cup {k}
      BY <1>1
    <3>4. DOMAIN h[k - 1] = {path(i) : i \in 1 .. (k - 1)}
      BY <2>2, <3>1
    <3>5. DOMAIN h[k] = {path(i) : i \in 1 .. k}
      BY <3>2, <3>3, <3>4
    <3>6. QED
      BY <3>1, <3>5
  <2> HIDE DEF g
  <2>3. \A k \in 0 .. n : g[k] \in {TRUE}
    BY <1>1, <2>1, <2>2, AllAlong
  <2>4. QED
    BY <2>3 DEF g
<1> DEFINE new == Generated(targets, answers, adversarial, taken)
<1>15. new = h[n] /\ n \in 0 .. n
  BY <1>1, <1>9, <1>12
<1> HIDE DEF new
<1>16. new \in B /\ DOMAIN new = paths
  BY <1>1, <1>13, <1>14, <1>15
<1>17. new \in FilesAt(paths) /\ \A p \in DOMAIN new : new[p] \in Seq(Id)
  BY <1>16 DEF B, FilesAt
<1>18. Afresh(new, paths, taken)
  BY <1>16, <1>17 DEF B, Afresh
<1>19. QED
  BY <1>17, <1>18 DEF new, paths
-----------------------------------------------------------------------------
(* What a generation read when it started: a file that is spared was there. *)
Begun(g) ==
  /\ g.targets \in Seq(Id)
  /\ ~g.force => \A c \in ToSet(g.targets) : OutputPath(c, g.adversarial) \notin g.there

FilesInv ==
  /\ files \in FilesAt(DOMAIN files) /\ IsFiniteSet(DOMAIN files)
  /\ Distinct(files, DOMAIN files \ {PackPath})
  /\ generating # None => Begun(generating)

(* Files at some paths are at those they have, and at more. *)
LEMMA FilesAtMore ==
  ASSUME NEW paths, NEW fs \in FilesAt(paths), NEW more, paths \subseteq more
  PROVE  /\ fs \in FilesAt(more) /\ fs \in FilesAt(DOMAIN fs)
         /\ DOMAIN fs \subseteq paths
         /\ \A p \in DOMAIN fs : fs[p] \in Seq(Id)
<1>1. PICK D \in SUBSET paths : fs \in [D -> Seq(Id)]
  BY DEF FilesAt
<1>2. DOMAIN fs = D /\ D \in SUBSET more /\ D \in SUBSET D
  BY <1>1
<1>3. QED
  BY <1>1, <1>2 DEF FilesAt

(* The criteria and the names there are for ids are made of words. *)
LEMMA MadeOfWords ==
  /\ ToSet(AllCriteria) \subseteq Id /\ AllCriteria \in Seq(Id)
  /\ HandIds \subseteq Id /\ PackIds \in Seq(Id)
  /\ \A names \in Drafts : names \in Seq(Id)
<1>1. \A id \in Seq(STRING) : id \in Id
  BY DEF Id, Word
<1>2. \A ids \in Seq(Seq(STRING)) : ids \in Seq(Id)
  BY <1>1
<1>3. AllCriteria \in Seq(Id)
  <2>1. Criteria \in Seq(Id) /\ PackCriteria \in Seq(Id)
    BY <1>2, CommandsAssumption
  <2>2. Outside(PackCriteria, ToSet(Criteria)) \in Seq(Id)
    BY <2>1, OutsideItems
  <2>3. QED
    BY <2>1, <2>2 DEF AllCriteria
<1>4. ToSet(AllCriteria) \subseteq Id
  BY <1>3 DEF ToSet
<1>5. QED
  BY <1>1, <1>2, <1>3, <1>4, CommandsAssumption

(* The team's first file has the ids they gave, each once. *)
LEMMA HandIdsOnce == SetToSeq(HandIds) \in Seq(HandIds) /\ Once(SetToSeq(HandIds))
<1> DEFINE n == Cardinality(HandIds)
           Lists(f) == f \in [1 .. n -> HandIds] /\ IsInjective(f)
<1>1. PICK m \in Nat : ExistsBijection(1 .. m, HandIds)
  BY CommandsAssumption, FS_NatBijection
<1>2. n = m
  BY <1>1, FS_CountingElements
<1>3. PICK f : f \in Bijection(1 .. n, HandIds)
  BY <1>1, <1>2 DEF ExistsBijection
<1>4. Lists(f)
  BY <1>3 DEF Bijection, Injection, IsInjective
<1>5. SetToSeq(HandIds) = CHOOSE g \in [1 .. n -> HandIds] : IsInjective(g)
  BY DEF SetToSeq
<1>6. Lists(SetToSeq(HandIds))
  BY <1>4, <1>5
<1>7. n \in Nat
  BY <1>2
<1> DEFINE q == SetToSeq(HandIds)
<1> HIDE DEF n, q
<1>8. q \in Seq(HandIds) /\ Len(q) = n /\ DOMAIN q = 1 .. n
  BY <1>6, <1>7 DEF q
<1>9. Once(q)
  BY <1>6, <1>8 DEF Once, IsInjective, q
<1>10. QED
  BY <1>8, <1>9 DEF q

(* A project starts without scenarios, or with those of the team. *)
LEMMA InitFilesInv == Init => FilesInv
<1> SUFFICES ASSUME Init PROVE FilesInv
  OBVIOUS
<1>1. generating = None
  BY DEF Init
<1>2. CASE files = <<>>
  <2>1. <<>> \in [{} -> Seq(Id)] /\ DOMAIN <<>> = {}
    OBVIOUS
  <2>2. <<>> \in FilesAt({})
    BY <2>1 DEF FilesAt
  <2>3. QED
    BY <1>1, <1>2, <2>1, <2>2, FS_EmptySet DEF FilesInv, Distinct
<1>3. CASE files = FileAt(HandPath, SetToSeq(HandIds))
  <2> DEFINE ids == SetToSeq(HandIds)
  <2>1. ids \in Seq(Id) /\ Once(ids)
    BY HandIdsOnce, MadeOfWords
  <2> HIDE DEF ids
  <2>2. files = FileAt(HandPath, ids)
    BY <1>3 DEF ids
  <2>3. files \in [{HandPath} -> Seq(Id)] /\ DOMAIN files = {HandPath} /\ files[HandPath] = ids
    BY <2>1, <2>2 DEF FileAt
  <2>4. files \in FilesAt(DOMAIN files)
    BY <2>3 DEF FilesAt
  <2>5. Distinct(files, DOMAIN files \ {PackPath})
    BY <2>1, <2>3 DEF Distinct, Once
  <2>6. IsFiniteSet(DOMAIN files)
    BY <2>3, FS_Singleton
  <2>7. QED
    BY <1>1, <2>4, <2>5, <2>6 DEF FilesInv
<1>4. QED
  BY <1>2, <1>3 DEF Init

(* A scenario written by hand has an id that is in no file. *)
LEMMA WriteScenarioFiles ==
  ASSUME FilesInv, WriteScenario
  PROVE  FilesInv'
<1>1. PICK id \in HandIds \ IdsIn(DOMAIN files) :
        files' = Overwritten(files, FileAt(HandPath, <<id>>))
  BY DEF WriteScenario
<1>2. HandPath \notin DOMAIN files /\ generating' = generating
  BY DEF WriteScenario
<1> DEFINE all == DOMAIN files \cup {HandPath}
           ids == <<id>>
<1>3. id \in Id /\ ids \in Seq(Id) /\ Len(ids) = 1 /\ ids[1] = id
  BY MadeOfWords
<1>4. files \in FilesAt(all) /\ \A p \in DOMAIN files : files[p] \in Seq(Id)
  BY FilesAtMore DEF FilesInv
<1> HIDE DEF ids
<1>5. files' \in FilesAt(all) /\ WithFile(files', files, HandPath, ids)
  <2>1. HandPath \in all /\ files' = Overwritten(files, FileAt(HandPath, ids))
    BY <1>1 DEF ids
  <2> HIDE DEF all
  <2>2. QED
    BY <1>3, <1>4, <2>1, OneFile
<1>6. DOMAIN files' = DOMAIN files \cup {HandPath}
  BY <1>5 DEF WithFile
<1>7. ASSUME NEW q \in DOMAIN files, NEW j \in 1 .. Len(files[q])
      PROVE  files[q][j] # id
  <2>1. files[q][j] \in ToSet(files[q])
    BY <1>4 DEF ToSet
  <2>2. id \notin ToSet(files[q])
    BY <1>1 DEF IdsIn
  <2>3. QED
    BY <2>1, <2>2
<1>8. Distinct(files', DOMAIN files' \ {PackPath})
  <2>1. \A q \in DOMAIN files : files'[q] = files[q]
    BY <1>2, <1>5 DEF WithFile
  <2>2. files'[HandPath] = ids
    BY <1>5 DEF WithFile
  <2>3. Distinct(files, DOMAIN files \ {PackPath})
    BY DEF FilesInv
  <2>4. \A i \in 1 .. Len(ids) : i = 1 /\ ids[i] = id
    BY <1>3
  <2>5. QED
    BY <1>6, <1>7, <2>1, <2>2, <2>3, <2>4 DEF Distinct
<1>9. files' \in FilesAt(DOMAIN files')
  BY <1>5, FilesAtMore
<1>10. IsFiniteSet(DOMAIN files')
  BY <1>6, FS_AddElement DEF FilesInv
<1>11. QED
  BY <1>2, <1>8, <1>9, <1>10 DEF FilesInv, Begun

(* A generation that starts spares the files that are there, unless it is forced. *)
LEMMA StartGenerateFiles ==
  ASSUME FilesInv, StartGenerate
  PROVE  FilesInv'
<1>1. PICK adversarial \in BOOLEAN, force \in BOOLEAN, only \in OnlyOption :
        generating' = [adversarial |-> adversarial, force |-> force,
                       targets |-> Targets(adversarial, force, only), there |-> DOMAIN files]
  BY DEF StartGenerate
<1>2. files' = files
  BY DEF StartGenerate
<1> DEFINE targets == Targets(adversarial, force, only)
<1>3. /\ targets \in Seq(Id)
      /\ ToSet(targets) \subseteq ToSet(AllCriteria) \ Spared(adversarial, force, only)
  BY MadeOfWords, OutsideItems DEF Targets
<1>4. ASSUME ~force, NEW c \in ToSet(targets)
      PROVE  OutputPath(c, adversarial) \notin DOMAIN files
  BY <1>3, <1>4 DEF Spared
<1> HIDE DEF targets
<1>5. /\ generating'.targets = targets /\ generating'.there = DOMAIN files
      /\ generating'.force = force /\ generating'.adversarial = adversarial
  BY <1>1 DEF targets
<1>6. Begun(generating')
  BY <1>3, <1>4, <1>5 DEF Begun
<1>7. QED
  BY <1>2, <1>6 DEF FilesInv

(***************************************************************************)
(* What a generation leaves: the files of its targets, each id in one of   *)
(* them and in no file that was kept, the pack's if it writes that, and    *)
(* the others as they were.                                                *)
(***************************************************************************)
Written(g, new, pack, paths) ==
  /\ paths = {OutputPath(c, g.adversarial) : c \in ToSet(g.targets)}
  /\ IsFiniteSet(paths)
  /\ Afresh(new, paths, IdsIn(DOMAIN files \ paths))
  /\ pack \subseteq {PackPath}
  /\ pack # {} => g.force \/ PackPath \notin DOMAIN files
  /\ files' \in FilesAt(DOMAIN files')
  /\ DOMAIN files' = DOMAIN files \cup paths \cup pack
  /\ \A p \in paths \ pack : files'[p] = new[p]
  /\ \A p \in DOMAIN files \ (paths \cup pack) : files'[p] = files[p]

(* What a generation writes at its end is as Written says. *)
LEMMA FinishGenerateWrites ==
  ASSUME NumeralsDiffer, FilesInv, FinishGenerate
  PROVE  \E new, pack, paths : Written(generating, new, pack, paths)
<1> DEFINE g == generating
           paths == {OutputPath(c, g.adversarial) : c \in ToSet(g.targets)}
           taken == Taken(paths)
<1>1. PICK answers \in Answers(g) :
        files' = Overwritten(Overwritten(files, Generated(g.targets, answers, g.adversarial, taken)),
                             PackFile(g))
  BY DEF FinishGenerate
<1> DEFINE new == Generated(g.targets, answers, g.adversarial, taken)
           pack == PackFile(g)
           all == DOMAIN files \cup paths \cup {PackPath}
<1>2. g.targets \in Seq(Id)
  BY DEF FinishGenerate, FilesInv, Begun
<1>3. \A i \in 1 .. Len(g.targets) : answers[i] \in Seq(Id)
  BY MadeOfWords DEF Answers
<1>4. IsFiniteSet(taken)
  <2> DEFINE kept == DOMAIN files \ paths
  <2>1. files \in FilesAt(DOMAIN files) /\ IsFiniteSet(DOMAIN files)
    BY DEF FilesInv
  <2>2. \A p \in DOMAIN files : files[p] \in Seq(Id)
    BY <2>1, FilesAtMore
  <2>3. IsFiniteSet(kept) /\ \A p \in kept : files[p] \in Seq(Id)
    BY <2>1, <2>2, FS_Subset
  <2>4. taken = UNION {ToSet(files[p]) : p \in kept}
    BY DEF Taken, IdsIn
  <2> HIDE DEF kept, taken
  <2>5. QED
    BY <2>3, <2>4, IdsFinite
<1>5. IsFiniteSet(paths)
  <2> DEFINE n == Len(g.targets)
             S == 1 .. n
             f == [k \in S |-> OutputPath(g.targets[k], g.adversarial)]
  <2>1. n \in Nat /\ DOMAIN g.targets = S
    BY <1>2
  <2>2. ToSet(g.targets) = {g.targets[k] : k \in S}
    BY <2>1 DEF ToSet
  <2>3. f \in Surjection(S, paths)
    BY <2>2 DEF Surjection
  <2>4. IsFiniteSet(S)
    <3> HIDE DEF n
    <3>1. QED
      BY <2>1, FS_Interval
  <2> HIDE DEF S, f, paths
  <2>5. QED
    BY <2>3, <2>4, FS_Surjection
<1> HIDE DEF taken
<1>6. new \in FilesAt(paths) /\ Afresh(new, paths, taken)
  BY <1>2, <1>3, <1>4, GeneratedAreFree
<1>7. /\ pack \in FilesAt({PackPath}) /\ DOMAIN pack \subseteq {PackPath}
      /\ DOMAIN pack # {} => g.force \/ PackPath \notin DOMAIN files
  <2>1. CASE g.adversarial /\ (g.force \/ PackPath \notin DOMAIN files)
    <3>1. pack = FileAt(PackPath, PackIds) /\ PackIds \in Seq(Id)
      BY <2>1, MadeOfWords DEF PackFile
    <3>2. FileAt(PackPath, PackIds) \in [{PackPath} -> Seq(Id)]
      BY <3>1 DEF FileAt
    <3>3. QED
      BY <2>1, <3>1, <3>2 DEF FilesAt
  <2>2. CASE ~(g.adversarial /\ (g.force \/ PackPath \notin DOMAIN files))
    <3>1. pack = <<>>
      BY <2>2 DEF PackFile
    <3>2. <<>> \in [{} -> Seq(Id)] /\ DOMAIN <<>> = {} /\ {} \in SUBSET {PackPath}
      OBVIOUS
    <3>3. QED
      BY <3>1, <3>2 DEF FilesAt
  <2>3. QED
    BY <2>1, <2>2
<1> HIDE DEF new, pack
<1> DEFINE mid == Overwritten(files, new)
<1>8. files \in FilesAt(all) /\ new \in FilesAt(all) /\ pack \in FilesAt(all)
  <2>1. files \in FilesAt(DOMAIN files)
    BY DEF FilesInv
  <2>2. DOMAIN files \subseteq all /\ paths \subseteq all /\ {PackPath} \subseteq all
    OBVIOUS
  <2> HIDE DEF all, paths
  <2>3. QED
    BY <1>6, <1>7, <2>1, <2>2, FilesAtMore
<1>9. /\ mid \in FilesAt(all) /\ DOMAIN mid = DOMAIN files \cup paths
      /\ \A p \in paths : mid[p] = new[p] /\ new[p] \in Seq(Id)
      /\ \A p \in DOMAIN files \ paths : mid[p] = files[p]
  <2> HIDE DEF all, paths
  <2>1. mid \in FilesAt(all) /\ WithFiles(mid, files, new)
    BY <1>8, OverwrittenFiles
  <2> HIDE DEF mid
  <2>2. DOMAIN new = paths
    BY <1>6 DEF Afresh
  <2>3. QED
    BY <2>1, <2>2 DEF WithFiles
<1> HIDE DEF mid
<1>10. /\ files' \in FilesAt(all) /\ DOMAIN files' = DOMAIN mid \cup DOMAIN pack
       /\ \A p \in DOMAIN mid \ DOMAIN pack : files'[p] = mid[p]
  <2>1. files' = Overwritten(mid, pack)
    BY <1>1 DEF mid, new, pack
  <2> HIDE DEF all
  <2>2. files' \in FilesAt(all) /\ WithFiles(files', mid, pack)
    BY <1>8, <1>9, <2>1, OverwrittenFiles
  <2>3. QED
    BY <2>2 DEF WithFiles
<1>11. files' \in FilesAt(DOMAIN files')
  BY <1>10, FilesAtMore
<1>12. taken = IdsIn(DOMAIN files \ paths)
  BY DEF taken, Taken
<1>13. Written(g, new, DOMAIN pack, paths)
  <2>1. paths = {OutputPath(c, g.adversarial) : c \in ToSet(g.targets)}
    OBVIOUS
  <2> HIDE DEF paths, all
  <2>2. QED
    BY <1>5, <1>6, <1>7, <1>9, <1>10, <1>11, <1>12, <2>1 DEF Written
<1>14. QED
  BY <1>13

(* The ids a generation gives are those of no other scenario. *)
LEMMA FinishGenerateFiles ==
  ASSUME NumeralsDiffer, FilesInv, FinishGenerate
  PROVE  FilesInv'
<1>1. PICK new, pack, paths : Written(generating, new, pack, paths)
  BY FinishGenerateWrites
<1>2. /\ IsFiniteSet(paths) /\ pack \subseteq {PackPath} /\ Afresh(new, paths, IdsIn(DOMAIN files \ paths))
      /\ files' \in FilesAt(DOMAIN files')
      /\ DOMAIN files' = DOMAIN files \cup paths \cup pack
      /\ \A p \in paths \ pack : files'[p] = new[p]
      /\ \A p \in DOMAIN files \ (paths \cup pack) : files'[p] = files[p]
  BY <1>1 DEF Written
<1>3. generating' = None
  BY DEF FinishGenerate
<1>4. IsFiniteSet(DOMAIN files')
  <2>1. IsFiniteSet(pack)
    BY <1>2, FS_Singleton, FS_Subset
  <2>2. QED
    BY <1>2, <2>1, FS_Union DEF FilesInv
<1>5. \A p \in DOMAIN files : files[p] \in Seq(Id)
  BY FilesAtMore DEF FilesInv
<1>6. \A p \in DOMAIN files' \ {PackPath} :
        \/ p \in paths /\ files'[p] = new[p]
        \/ p \in DOMAIN files \ paths /\ p # PackPath /\ files'[p] = files[p]
  BY <1>2
<1>7. ASSUME NEW p \in paths, NEW q \in DOMAIN files \ paths,
             NEW i \in 1 .. Len(new[p]), NEW j \in 1 .. Len(files[q])
      PROVE  new[p][i] # files[q][j]
  <2>1. new[p] \in Seq(Id) /\ files[q] \in Seq(Id)
    BY <1>2, <1>5 DEF Afresh
  <2>2. new[p][i] \in ToSet(new[p]) /\ files[q][j] \in ToSet(files[q])
    BY <2>1 DEF ToSet
  <2>3. files[q][j] \in IdsIn(DOMAIN files \ paths)
    BY <2>2 DEF IdsIn
  <2>4. QED
    BY <1>2, <2>2, <2>3 DEF Afresh
<1>8. Distinct(files', DOMAIN files' \ {PackPath})
  <2> SUFFICES ASSUME NEW p \in DOMAIN files' \ {PackPath}, NEW q \in DOMAIN files' \ {PackPath},
                      NEW i \in 1 .. Len(files'[p]), NEW j \in 1 .. Len(files'[q]),
                      files'[p][i] = files'[q][j]
               PROVE  p = q /\ i = j
    BY DEF Distinct
  <2>1. CASE p \in paths /\ files'[p] = new[p] /\ q \in paths /\ files'[q] = new[q]
    BY <1>2, <2>1 DEF Afresh, Distinct
  <2>2. CASE p \in paths /\ files'[p] = new[p] /\ q \in DOMAIN files \ paths /\ files'[q] = files[q]
    BY <1>7, <2>2
  <2>3. CASE q \in paths /\ files'[q] = new[q] /\ p \in DOMAIN files \ paths /\ files'[p] = files[p]
    BY <1>7, <2>3
  <2>4. CASE p \in DOMAIN files \ paths /\ files'[p] = files[p] /\ p # PackPath
             /\ q \in DOMAIN files \ paths /\ files'[q] = files[q] /\ q # PackPath
    BY <2>4 DEF FilesInv, Distinct
  <2>5. QED
    BY <1>6, <2>1, <2>2, <2>3, <2>4
<1>9. QED
  BY <1>2, <1>3, <1>4, <1>8 DEF FilesInv

(* Every command and every edit keeps the ids distinct. *)
LEMMA NextFilesInv ==
  ASSUME NumeralsDiffer
  PROVE  FilesInv /\ [Next]_vars => FilesInv'
<1> SUFFICES ASSUME FilesInv, [Next]_vars PROVE FilesInv'
  OBVIOUS
<1>1. CASE WriteScenario
  BY <1>1, WriteScenarioFiles
<1>2. CASE StartGenerate
  BY <1>2, StartGenerateFiles
<1>3. CASE FinishGenerate
  BY <1>3, FinishGenerateFiles
<1>4. CASE FailGenerate
  BY <1>4 DEF FailGenerate, FilesInv
<1>5. ASSUME files' = files, generating' = generating
      PROVE  FilesInv'
  BY <1>5 DEF FilesInv, Begun
<1>6. CASE Reconfigure \/ AddCase \/ Initialise
  BY <1>5, <1>6 DEF Reconfigure, AddCase, Initialise
<1>7. CASE StartCalibrate \/ FinishCalibrate \/ FailCalibrate
  BY <1>5, <1>7 DEF StartCalibrate, FinishCalibrate, FailCalibrate
<1>8. CASE StartRun \/ FinishRun \/ AbandonRun
  BY <1>5, <1>8 DEF StartRun, FinishRun, AbandonRun
<1>9. CASE UNCHANGED vars
  BY <1>5, <1>9 DEF vars
<1>10. QED
  BY <1>1, <1>2, <1>3, <1>4, <1>6, <1>7, <1>8, <1>9 DEF Next

(***************************************************************************)
(* What the files of a project hold, whatever is generated and whatever    *)
(* the team writes meanwhile.                                              *)
(***************************************************************************)
THEOREM FilesInvariant ==
  ASSUME NumeralsDiffer
  PROVE  Spec => []FilesInv
<1>1. FilesInv /\ [Next]_vars => FilesInv'
  BY NextFilesInv
<1>2. QED
  BY <1>1, InitFilesInv, PTL DEF Spec

(***************************************************************************)
(* Every id is that of one scenario, in whatever order files are written   *)
(* and written again (existing_ids, drafts_to_scenarios): but for the      *)
(* pack's, which are written without a look at those there are.            *)
(***************************************************************************)
THEOREM GeneratedIdsAreDistinct ==
  ASSUME NumeralsDiffer
  PROVE  Spec => []IdsAreDistinct
<1>1. FilesInv => IdsAreDistinct
  BY DEF FilesInv, Distinct, IdsAreDistinct
<1>2. QED
  BY <1>1, FilesInvariant, PTL

(***************************************************************************)
(* A file that was there when a generation started is as it was when it    *)
(* has ended, unless it was forced, and a file of the team's always is     *)
(* (generate_scenarios).                                                   *)
(***************************************************************************)
THEOREM GenerationKeeps ==
  ASSUME NumeralsDiffer
  PROVE  Spec => KeptUnlessForced
<1> DEFINE Kept == \A p \in DOMAIN files :
                     files'[p] # files[p] =>
                       p # HandPath /\ (generating.force \/ p \notin generating.there)
<1>1. ASSUME FilesInv, [Next]_vars
      PROVE  [Kept]_vars
  <2>1. CASE WriteScenario
    <3>1. PICK id : files' = Overwritten(files, FileAt(HandPath, <<id>>))
      BY <2>1 DEF WriteScenario
    <3>2. HandPath \notin DOMAIN files
      BY <2>1 DEF WriteScenario
    <3>3. \A p \in DOMAIN files : files'[p] = files[p]
      BY <3>1, <3>2 DEF Overwritten, FileAt
    <3>4. QED
      BY <3>3
  <2>2. CASE FinishGenerate
    <3>1. PICK new, pack, paths : Written(generating, new, pack, paths)
      BY <1>1, <2>2, FinishGenerateWrites
    <3>2. Begun(generating)
      BY <1>1, <2>2 DEF FinishGenerate, FilesInv
    <3>3. SUFFICES ASSUME NEW p \in DOMAIN files, files'[p] # files[p]
                   PROVE  p # HandPath /\ (generating.force \/ p \notin generating.there)
      OBVIOUS
    <3>4. p \in paths \/ p \in pack
      BY <3>1, <3>3 DEF Written
    <3>5. CASE p \in pack
      <4>1. p = PackPath /\ generating.force
        BY <3>1, <3>5 DEF Written
      <4>2. PackPath # HandPath
        BY DEF PackPath, HandPath
      <4>3. QED
        BY <4>1, <4>2
    <3>6. CASE p \in paths
      <4>1. PICK c \in ToSet(generating.targets) : p = OutputPath(c, generating.adversarial)
        BY <3>1, <3>6 DEF Written
      <4>2. p # HandPath
        BY <4>1 DEF OutputPath, HandPath
      <4>3. QED
        BY <3>2, <4>1, <4>2 DEF Begun
    <3>7. QED
      BY <3>4, <3>5, <3>6
  <2>3. CASE files' = files
    BY <2>3
  <2>4. WriteScenario \/ FinishGenerate \/ files' = files
    BY <1>1 DEF Next, vars, Reconfigure, AddCase, Initialise, StartGenerate, FailGenerate,
                StartCalibrate, FinishCalibrate, FailCalibrate, StartRun, FinishRun, AbandonRun
  <2>5. QED
    BY <2>1, <2>2, <2>3, <2>4
<1>2. Spec => [][Kept]_vars
  BY <1>1, FilesInvariant, PTL DEF Spec
<1>3. QED
  BY <1>2 DEF KeptUnlessForced
=============================================================================
