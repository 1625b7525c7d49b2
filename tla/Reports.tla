------------------------------ MODULE Reports -------------------------------
(***************************************************************************)
(* What is done with the outcome of sampling: the entries of the report    *)
(* and how two of them compare.  Any two scenarios may stand for the same  *)
(* one in an earlier and in a later report, with a gate of its own each.   *)
(***************************************************************************)
EXTENDS Sampling, Comparison

(***************************************************************************)
(* scenario_entry: what the report says of a scenario, once there is a     *)
(* verdict, with k more passes of the attempts skipped, or as it is.       *)
(***************************************************************************)
Verdict(s) == verdict[s] \in Statuses

Entry(s) ==
  [passes |-> Tally(s, "pass"), judged |-> Tally(s, "pass") + Tally(s, "fail"),
   status |-> verdict[s], early_stopped |-> Tally(s, "skipped") > 0]

FullEntry(s, k) ==
  [passes |-> Tally(s, "pass") + k,
   judged |-> Tally(s, "pass") + Tally(s, "fail") + Tally(s, "skipped"),
   status |-> FullSampling(s, k), early_stopped |-> FALSE]

Pairs == {p \in Scenario \X Scenario : Verdict(p[1]) /\ Verdict(p[2])}

(* Reports of one scenario and of none. *)
Holding(e) == [id \in {"x"} |-> e]
Empty == [id \in {} |-> Absent]

(***************************************************************************)
(* The exit code is 1 if a gate that was met is not, or errors are there   *)
(* that were not, or the rate fell, and fell by the minimum at least, with *)
(* the gate as unmet as before; and it is 0 for a report against itself,   *)
(* for a scenario that is gone, and for a new one exactly if it passes.    *)
(***************************************************************************)
Worse(old, new) ==
  \/ old.status = "upheld" /\ new.status # "upheld"
  \/ old.status # "incomplete" /\ new.status = "incomplete"

FellByMinimum(old, new) ==
  LET fall == old.passes * new.judged - new.passes * old.judged
  IN  fall > 0 /\ fall * MinEffect.den >= MinEffect.num * old.judged * new.judged

RegressionIsReal ==
  \A p \in Pairs :
    LET old == Entry(p[1])  new == Entry(p[2])
        code == ExitCode(Holding(old), Holding(new), TRUE)
    IN  /\ Worse(old, new) => code = 1
        /\ code = 1 /\ ~Worse(old, new) => FellByMinimum(old, new)
        /\ ExitCode(Holding(old), Holding(old), TRUE) = 0
        /\ ExitCode(Empty, Holding(new), TRUE) = 0 <=> new.status = "upheld"
        /\ ExitCode(Holding(old), Empty, TRUE) = 0

(***************************************************************************)
(* "A stopped scenario's pass rate is a bound, not an estimate, so the     *)
(* test does not apply" (check_full_sampling): unless it is refused, a     *)
(* comparison says what it would of full samples, whatever number of the   *)
(* attempts skipped had passed; and where stopped scenarios are allowed,   *)
(* whether a gate or a scenario's completeness was lost is still true.     *)
(***************************************************************************)
OfTheGate == {"newly incomplete", "gate lost", "gate regained"}

StoppedIsNoEstimate ==
  \A p \in Pairs :
    LET old == Entry(p[1])  new == Entry(p[2])  kind == Classified(old, new)
    IN  \A k \in 0 .. Tally(p[1], "skipped"), l \in 0 .. Tally(p[2], "skipped") :
          LET full == Classified(FullEntry(p[1], k), FullEntry(p[2], l))
          IN  /\ ~Refused(Holding(old), Holding(new), FALSE) => full = kind
              /\ kind \in OfTheGate \/ full \in OfTheGate => full = kind
=============================================================================
