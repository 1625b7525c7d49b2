----------------------------- MODULE MCSampling -----------------------------
(***************************************************************************)
(* An instance of Sampling and of the reports on it for TLC, and how many  *)
(* attempts were to be expected.  The two scenarios stand for the same one *)
(* in an earlier and in a later report, between which its gate was         *)
(* relaxed.                                                                *)
(***************************************************************************)
EXTENDS Reports, Estimate, TLC

TwoScenarios == {"s", "t"}
UnevenRuns == "s" :> 4 @@ "t" :> 3
RelaxedMisses == "s" :> 0 @@ "t" :> 1

OneInFive == [num |-> 1, den |-> 5]
OneInTen == [num |-> 1, den |-> 10]

(***************************************************************************)
(* "The figure is a floor" (docs/costs.md): the expected attempts are the  *)
(* average, over every order in which the passes and fails of the last     *)
(* report's rate may come, of the attempts made until the gate is decided, *)
(* and the plan is never less than what a run makes.                       *)
(***************************************************************************)
Passing(o) == Cardinality({i \in DOMAIN o : o[i] = "pass"})

UntilDecided(s, o) ==
  CHOOSE k \in 1 .. Runs[s] :
    /\ GateDecided(Runs[s], Misses[s], Passing(SubSeq(o, 1, k)), k - Passing(SubSeq(o, 1, k)))
    /\ \A j \in 1 .. (k - 1) :
         ~GateDecided(Runs[s], Misses[s], Passing(SubSeq(o, 1, j)), j - Passing(SubSeq(o, 1, j)))

Power(n, k) == IF k = 0 THEN 1 ELSE n^k

Weight(o, a, b) == Power(a, Passing(o)) * Power(b, Len(o) - Passing(o))

ExpectedIsAverage ==
  \A s \in Scenario :
    LET a == Tally(s, "pass")  b == Tally(s, "fail")
        expected == ExpectedAttempts(Runs[s], Misses[s], a, b)
    IN  Verdict(s) /\ HasRate(a + b) =>
          /\ expected * (a + b) =
               SumFunction([o \in [1 .. Runs[s] -> {"pass", "fail"}] |->
                              UntilDecided(s, o) * Weight(o, a, b)])
          /\ expected <= PlannedAttempts({s}, Runs) * (a + b)^(Runs[s] - 1)
=============================================================================
