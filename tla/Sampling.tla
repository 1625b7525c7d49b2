------------------------------ MODULE Sampling ------------------------------
(***************************************************************************)
(* What sampling a scenario promises, without tasks, slots, conversations, *)
(* caches or judges: every attempt ends with an outcome or is skipped, an  *)
(* attempt is skipped only once the outcomes so far have decided the gate, *)
(* and the scenario is concluded from all the outcomes at once.  Runner    *)
(* implements it.                                                          *)
(***************************************************************************)
EXTENDS Gate, FiniteSets

CONSTANTS
  Scenario,     (* the scenarios of the run                                *)
  Runs,         (* Runs[s]: attempts planned for s                         *)
  Misses,       (* Misses[s]: failed attempts s may have and still pass    *)
  MayStop,      (* whether a decided gate stops the sampling               *)
  Corrected     (* whether the gate is on the judge-corrected rate         *)

ASSUME SamplingAssumption ==
  /\ IsFiniteSet(Scenario)
  /\ Runs \in [Scenario -> Nat]
  /\ Misses \in [Scenario -> Nat]
  /\ \A s \in Scenario : GateBuilds(Runs[s], Misses[s])
  /\ MayStop \in BOOLEAN /\ Corrected \in BOOLEAN
  /\ Corrected => ~MayStop

AttemptsOf(s) == {s} \X (1 .. Runs[s])

Attempt == UNION {AttemptsOf(s) : s \in Scenario}

Outcomes == {"pass", "fail", "error"}

VARIABLES
  outcome,      (* outcome[a]: "open", an outcome, "skipped" or "dropped"  *)
  verdict       (* verdict[s]: "open", a status or "withdrawn"             *)

vars == <<outcome, verdict>>

Ended(s, o) == {a \in AttemptsOf(s) : outcome[a] = o}

Tally(s, o) == Cardinality(Ended(s, o))

Init ==
  /\ outcome = [a \in Attempt |-> "open"]
  /\ verdict = [s \in Scenario |-> "open"]

(***************************************************************************)
(* The attempt ends: the judge or a check passed it or failed it, or an    *)
(* error kept it from a verdict.                                           *)
(***************************************************************************)
Settle(s, a) ==
  /\ verdict[s] = "open"
  /\ outcome[a] = "open"
  /\ \E o \in Outcomes : outcome' = [outcome EXCEPT ![a] = o]
  /\ UNCHANGED verdict

(* The attempt is not made, because the outcomes so far decide the gate. *)
Skip(s, a) ==
  /\ MayStop
  /\ verdict[s] = "open"
  /\ outcome[a] = "open"
  /\ GateDecided(Runs[s], Misses[s], Tally(s, "pass"), Tally(s, "fail"))
  /\ outcome' = [outcome EXCEPT ![a] = "skipped"]
  /\ UNCHANGED verdict

(* The attempt is lost: its scenario is cancelled, or raised an error. *)
Drop(s, a) ==
  /\ verdict[s] = "open"
  /\ outcome[a] = "open"
  /\ outcome' = [outcome EXCEPT ![a] = "dropped"]
  /\ UNCHANGED verdict

(***************************************************************************)
(* The scenario is concluded from the attempts made.  On the corrected     *)
(* rate, whether the interval is high enough is left open.                 *)
(***************************************************************************)
Quality(misses, passes, judged) ==
  IF Corrected /\ judged > 0 THEN BOOLEAN ELSE {Met(misses, passes, judged)}

Conclude(s) ==
  /\ verdict[s] = "open"
  /\ \A a \in AttemptsOf(s) : outcome[a] \in Outcomes \cup {"skipped"}
  /\ \E met \in Quality(Misses[s], Tally(s, "pass"), Tally(s, "pass") + Tally(s, "fail")) :
        verdict' = [verdict EXCEPT ![s] = Status(Tally(s, "error"), met)]
  /\ UNCHANGED outcome

(* No verdict: the scenario raised an error or was cancelled. *)
Withdraw(s) ==
  /\ verdict[s] = "open"
  /\ \A a \in AttemptsOf(s) : outcome[a] # "open"
  /\ verdict' = [verdict EXCEPT ![s] = "withdrawn"]
  /\ UNCHANGED outcome

Next ==
  \E s \in Scenario :
    \/ \E a \in AttemptsOf(s) : Settle(s, a) \/ Skip(s, a) \/ Drop(s, a)
    \/ Conclude(s)
    \/ Withdraw(s)

Spec == Init /\ [][Next]_vars
-----------------------------------------------------------------------------
TypeOK ==
  /\ outcome \in [Attempt -> {"open", "skipped", "dropped"} \cup Outcomes]
  /\ verdict \in [Scenario -> {"open", "withdrawn"} \cup Statuses]

(***************************************************************************)
(* The verdict of a stopped scenario is sound (docs/runs.md, "A stopped    *)
(* scenario's gate verdict is sound"): whatever number k of the skipped    *)
(* attempts had passed, the rest of them failing, full sampling would have *)
(* come to the same verdict.                                               *)
(***************************************************************************)
FullSampling(s, k) ==
  LET passes  == Tally(s, "pass") + k
      judged  == Tally(s, "pass") + Tally(s, "fail") + Tally(s, "skipped")
  IN  Status(Tally(s, "error"), Met(Misses[s], passes, judged))

StoppedVerdictSound ==
  \A s \in Scenario :
    (verdict[s] \in Statuses /\ ~Corrected) =>
      \A k \in 0 .. Tally(s, "skipped") : FullSampling(s, k) = verdict[s]
=============================================================================
