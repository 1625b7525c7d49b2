--------------------------- MODULE SamplingProofs ---------------------------
(***************************************************************************)
(* Proofs about Sampling: the verdict of a scenario that was stopped early *)
(* is the verdict of full sampling, for every gate and number of runs.     *)
(***************************************************************************)
EXTENDS Reports, Counting

(* A scenario has as many attempts as its gate has runs, none shared. *)
LEMMA AttemptsCounted ==
  ASSUME NEW s \in Scenario
  PROVE  /\ IsFiniteSet(AttemptsOf(s))
         /\ Cardinality(AttemptsOf(s)) = Runs[s]
         /\ Runs[s] \in Nat /\ Misses[s] \in Nat
         /\ Runs[s] >= 1 /\ Misses[s] < Runs[s]
<1>1. Runs[s] \in Nat /\ Misses[s] \in Nat /\ Runs[s] >= 1 /\ Misses[s] < Runs[s]
  BY SamplingAssumption DEF GateBuilds
<1>2. /\ IsFiniteSet({s} \X (1 .. Runs[s]))
      /\ Cardinality({s} \X (1 .. Runs[s])) = Runs[s]
  BY <1>1, NumberedPairs
<1>3. QED
  BY <1>1, <1>2 DEF AttemptsOf

(* An attempt is of one scenario. *)
LEMMA AttemptsDisjoint ==
  ASSUME NEW s \in Scenario, NEW t \in Scenario, NEW a \in AttemptsOf(s), a \in AttemptsOf(t)
  PROVE  s = t
BY DEF AttemptsOf

(* The attempts of a scenario are attempts. *)
LEMMA AttemptsAreAttempts ==
  ASSUME NEW s \in Scenario
  PROVE  AttemptsOf(s) \subseteq Attempt
BY DEF Attempt

(* Tally in terms of Count. *)
LEMMA TallyType ==
  ASSUME NEW s \in Scenario, NEW o
  PROVE  /\ IsFiniteSet(Ended(s, o)) /\ Tally(s, o) \in Nat
         /\ Tally(s, o) = Count(AttemptsOf(s), outcome, {o})
<1>1. Ended(s, o) = Chosen(AttemptsOf(s), outcome, {o})
  BY DEF Ended, Chosen
<1>2. QED
  BY <1>1, AttemptsCounted, CountType DEF Tally, Count

(***************************************************************************)
(* An attempt that ends adds one to the tally of its outcome, and changes  *)
(* no other tally, of its scenario or of another.                          *)
(***************************************************************************)
LEMMA TallyStep ==
  ASSUME NEW t \in Scenario, NEW p, NEW a, outcome[a] # p,
         \A b \in AttemptsOf(t) : b # a => outcome'[b] = outcome[b]
  PROVE  /\ (a \in AttemptsOf(t) /\ outcome'[a] = p) => Tally(t, p)' = Tally(t, p) + 1
         /\ ~(a \in AttemptsOf(t) /\ outcome'[a] = p) => Tally(t, p)' = Tally(t, p)
<1> DEFINE before == Count(AttemptsOf(t), outcome, {p})
           after  == Count(AttemptsOf(t), outcome', {p})
<1>1. Tally(t, p) = before
  BY TallyType
<1>2. Tally(t, p)' = after
  <2>1. Ended(t, p)' = Chosen(AttemptsOf(t), outcome', {p})
    BY DEF Ended, Chosen
  <2>2. QED
    BY <2>1 DEF Tally, Count
<1>3. ASSUME a \in AttemptsOf(t), outcome'[a] = p
      PROVE  after = before + 1
  <2>1. IsFiniteSet(AttemptsOf(t))
    BY AttemptsCounted
  <2>2. /\ outcome[a] \notin {p} /\ outcome'[a] \in {p}
        /\ \A b \in AttemptsOf(t) : b # a => (outcome[b] \in {p} <=> outcome'[b] \in {p})
    BY <1>3
  <2>3. QED
    BY <1>3, <2>1, <2>2, CountIncrement
<1>4. ~(a \in AttemptsOf(t) /\ outcome'[a] = p) => after = before
  <2>1. ~(a \in AttemptsOf(t) /\ outcome'[a] = p) =>
          \A b \in AttemptsOf(t) : outcome[b] \in {p} <=> outcome'[b] \in {p}
    OBVIOUS
  <2>2. QED
    BY <2>1, CountSame
<1>5. QED
  BY <1>1, <1>2, <1>3, <1>4

(***************************************************************************)
(* A decided gate stays decided as more attempts pass or fail.             *)
(***************************************************************************)
LEMMA DecidedIsStable ==
  ASSUME NEW runs \in Nat, NEW misses \in Nat,
         NEW p \in Nat, NEW f \in Nat, NEW q \in Nat, NEW g \in Nat,
         p <= q, f <= g, GateDecided(runs, misses, p, f)
  PROVE  GateDecided(runs, misses, q, g)
BY DEF GateDecided, PassesNeeded
-----------------------------------------------------------------------------
(* Attempts are skipped only where the outcomes have decided the gate. *)
SkipsJustified ==
  \A s \in Scenario :
    (\E a \in AttemptsOf(s) : outcome[a] = "skipped") =>
      GateDecided(Runs[s], Misses[s], Tally(s, "pass"), Tally(s, "fail"))

(* A status is that of the outcomes, none of which is missing. *)
VerdictsCounted ==
  \A s \in Scenario :
    verdict[s] \in Statuses =>
      /\ \A a \in AttemptsOf(s) : outcome[a] \in Outcomes \cup {"skipped"}
      /\ ~Corrected =>
           verdict[s] = Status(Tally(s, "error"),
                               Met(Misses[s], Tally(s, "pass"),
                                   Tally(s, "pass") + Tally(s, "fail")))

IInv == TypeOK /\ SkipsJustified /\ VerdictsCounted

(* The invariant holds at the start. *)
LEMMA InitIInv == Init => IInv
<1> SUFFICES ASSUME Init PROVE IInv
  OBVIOUS
<1>1. TypeOK
  BY DEF Init, TypeOK
<1>2. SkipsJustified
  BY AttemptsAreAttempts DEF Init, SkipsJustified
<1>3. VerdictsCounted
  BY DEF Init, VerdictsCounted, Statuses
<1>4. QED
  BY <1>1, <1>2, <1>3 DEF IInv

(***************************************************************************)
(* The three actions that end an attempt share one argument: only the      *)
(* tally of the new outcome moves, and the verdict of s is still open.     *)
(***************************************************************************)
LEMMA EndIInv ==
  ASSUME IInv, NEW s \in Scenario, NEW a \in AttemptsOf(s),
         verdict[s] = "open", outcome[a] = "open", UNCHANGED verdict,
         NEW o \in Outcomes \cup {"skipped", "dropped"},
         outcome' = [outcome EXCEPT ![a] = o],
         o = "skipped" =>
           GateDecided(Runs[s], Misses[s], Tally(s, "pass"), Tally(s, "fail"))
  PROVE  IInv'
<1>1. a \in Attempt /\ o # "open"
  BY AttemptsAreAttempts DEF Outcomes
<1>2. TypeOK'
  BY <1>1 DEF IInv, TypeOK
<1>3. ASSUME NEW t \in Scenario, NEW p \in {"pass", "fail", "error", "skipped"}
      PROVE  /\ Tally(t, p) \in Nat /\ Tally(t, p)' \in Nat
             /\ Tally(t, p) <= Tally(t, p)'
             /\ s # t => Tally(t, p)' = Tally(t, p)
  <2>1. a \in AttemptsOf(t) => s = t
    BY AttemptsDisjoint
  <2>2. outcome'[a] = o /\ \A b \in AttemptsOf(t) : b # a => outcome'[b] = outcome[b]
    BY <1>1, AttemptsAreAttempts DEF IInv, TypeOK
  <2>3. Tally(t, p)' = Tally(t, p) \/ (s = t /\ Tally(t, p)' = Tally(t, p) + 1)
    BY <2>1, <2>2, TallyStep
  <2>4. Tally(t, p) \in Nat
    BY TallyType
  <2>5. QED
    BY <2>3, <2>4
<1>4. SkipsJustified'
  <2> SUFFICES ASSUME NEW t \in Scenario, NEW b \in AttemptsOf(t), outcome'[b] = "skipped"
               PROVE  GateDecided(Runs[t], Misses[t], Tally(t, "pass")', Tally(t, "fail")')
    BY DEF SkipsJustified
  <2>1. b \in Attempt
    BY AttemptsAreAttempts
  <2>2. GateDecided(Runs[t], Misses[t], Tally(t, "pass"), Tally(t, "fail"))
    <3>1. CASE b = a
      BY <3>1, <1>1, <2>1, AttemptsDisjoint DEF IInv, TypeOK
    <3>2. CASE b # a
      BY <3>2, <2>1 DEF IInv, SkipsJustified, TypeOK
    <3>3. QED
      BY <3>1, <3>2
  <2>3. QED
    BY <1>3, <2>2, DecidedIsStable, AttemptsCounted
<1>5. VerdictsCounted'
  <2> SUFFICES ASSUME NEW t \in Scenario, verdict[t] \in Statuses
               PROVE  /\ \A b \in AttemptsOf(t) : outcome'[b] \in Outcomes \cup {"skipped"}
                      /\ ~Corrected =>
                           verdict[t] = Status(Tally(t, "error")',
                                               Met(Misses[t], Tally(t, "pass")',
                                                   Tally(t, "pass")' + Tally(t, "fail")'))
    BY DEF VerdictsCounted
  <2>1. s # t
    BY DEF Statuses
  <2>2. \A b \in AttemptsOf(t) : outcome'[b] = outcome[b]
    BY <2>1, AttemptsDisjoint, AttemptsAreAttempts DEF IInv, TypeOK
  <2>3. /\ Tally(t, "error")' = Tally(t, "error")
        /\ Tally(t, "pass")' = Tally(t, "pass")
        /\ Tally(t, "fail")' = Tally(t, "fail")
    BY <1>3, <2>1
  <2>4. QED
    BY <2>2, <2>3 DEF IInv, VerdictsCounted
<1>6. QED
  BY <1>2, <1>4, <1>5 DEF IInv

(* Closing a verdict leaves the outcomes as they are. *)
LEMMA CloseIInv ==
  ASSUME IInv, NEW s \in Scenario, UNCHANGED outcome,
         NEW v \in {"withdrawn"} \cup Statuses,
         verdict' = [verdict EXCEPT ![s] = v],
         v \in Statuses =>
           /\ \A a \in AttemptsOf(s) : outcome[a] \in Outcomes \cup {"skipped"}
           /\ ~Corrected =>
                v = Status(Tally(s, "error"),
                           Met(Misses[s], Tally(s, "pass"), Tally(s, "pass") + Tally(s, "fail")))
  PROVE  IInv'
<1>1. TypeOK'
  BY DEF IInv, TypeOK
<1>2. \A t \in Scenario : \A p : Tally(t, p)' = Tally(t, p)
  BY DEF Tally, Ended
<1>3. SkipsJustified'
  BY <1>2 DEF IInv, SkipsJustified
<1>4. VerdictsCounted'
  <2> SUFFICES ASSUME NEW t \in Scenario, verdict'[t] \in Statuses
               PROVE  /\ \A b \in AttemptsOf(t) : outcome[b] \in Outcomes \cup {"skipped"}
                      /\ ~Corrected =>
                           verdict'[t] = Status(Tally(t, "error"),
                                                Met(Misses[t], Tally(t, "pass"),
                                                    Tally(t, "pass") + Tally(t, "fail")))
    BY <1>2 DEF VerdictsCounted
  <2>1. CASE t = s
    BY <2>1 DEF IInv, TypeOK
  <2>2. CASE t # s
    BY <2>2 DEF IInv, VerdictsCounted, TypeOK
  <2>3. QED
    BY <2>1, <2>2
<1>5. QED
  BY <1>1, <1>3, <1>4 DEF IInv

(* Every step keeps the invariant. *)
LEMMA NextIInv == IInv /\ [Next]_vars => IInv'
<1> SUFFICES ASSUME IInv, [Next]_vars PROVE IInv'
  OBVIOUS
<1>1. ASSUME NEW s \in Scenario, NEW a \in AttemptsOf(s), Settle(s, a) PROVE IInv'
  <2>1. PICK o \in Outcomes : outcome' = [outcome EXCEPT ![a] = o]
    BY <1>1 DEF Settle
  <2>2. o # "skipped"
    BY DEF Outcomes
  <2>3. QED
    BY <1>1, <2>1, <2>2, EndIInv DEF Settle
<1>2. ASSUME NEW s \in Scenario, NEW a \in AttemptsOf(s), Skip(s, a) PROVE IInv'
  BY <1>2, EndIInv DEF Skip
<1>3. ASSUME NEW s \in Scenario, NEW a \in AttemptsOf(s), Drop(s, a) PROVE IInv'
  BY <1>3, EndIInv DEF Drop
<1>4. ASSUME NEW s \in Scenario, Conclude(s) PROVE IInv'
  <2>1. PICK met \in Quality(Misses[s], Tally(s, "pass"), Tally(s, "pass") + Tally(s, "fail")) :
          verdict' = [verdict EXCEPT ![s] = Status(Tally(s, "error"), met)]
    BY <1>4 DEF Conclude
  <2>2. Status(Tally(s, "error"), met) \in Statuses
    BY DEF Status, Statuses
  <2>3. ~Corrected => met = Met(Misses[s], Tally(s, "pass"), Tally(s, "pass") + Tally(s, "fail"))
    BY DEF Quality
  <2>4. QED
    BY <1>4, <2>1, <2>2, <2>3, CloseIInv DEF Conclude
<1>5. ASSUME NEW s \in Scenario, Withdraw(s) PROVE IInv'
  BY <1>5, CloseIInv DEF Withdraw, Statuses
<1>6. CASE UNCHANGED vars
  BY <1>6 DEF vars, IInv, TypeOK, SkipsJustified, VerdictsCounted, Tally, Ended
<1>7. QED
  BY <1>1, <1>2, <1>3, <1>4, <1>5, <1>6 DEF Next

(* The invariant holds in every state (Stopper and status). *)
THEOREM SamplingInvariant == Spec => []IInv
BY InitIInv, NextIInv, PTL DEF Spec
-----------------------------------------------------------------------------
(* The outcomes and the skips of a concluded scenario add up to its runs. *)
LEMMA OutcomesAddUp ==
  ASSUME NEW s \in Scenario,
         \A a \in AttemptsOf(s) : outcome[a] \in Outcomes \cup {"skipped"}
  PROVE  Tally(s, "pass") + Tally(s, "fail") + Tally(s, "error") + Tally(s, "skipped") = Runs[s]
<1> DEFINE C(O) == Count(AttemptsOf(s), outcome, O)
<1>1. IsFiniteSet(AttemptsOf(s)) /\ Cardinality(AttemptsOf(s)) = Runs[s]
  BY AttemptsCounted
<1>2. C({"pass"} \cup {"fail"}) = C({"pass"}) + C({"fail"})
  BY <1>1, CountSplit
<1>3. C(({"pass"} \cup {"fail"}) \cup {"error"}) = C({"pass"} \cup {"fail"}) + C({"error"})
  BY <1>1, CountSplit
<1>4. C((({"pass"} \cup {"fail"}) \cup {"error"}) \cup {"skipped"})
        = C(({"pass"} \cup {"fail"}) \cup {"error"}) + C({"skipped"})
  BY <1>1, CountSplit
<1>5. C((({"pass"} \cup {"fail"}) \cup {"error"}) \cup {"skipped"}) = Runs[s]
  BY <1>1, CountAll DEF Outcomes
<1>6. /\ Tally(s, "pass") = C({"pass"}) /\ Tally(s, "fail") = C({"fail"})
      /\ Tally(s, "error") = C({"error"}) /\ Tally(s, "skipped") = C({"skipped"})
  BY TallyType
<1> HIDE DEF C
<1>7. QED
  BY <1>2, <1>3, <1>4, <1>5, <1>6

(***************************************************************************)
(* The arithmetic of early stopping: with p passes, f fails, e errors and  *)
(* n skips of a gate that is decided if anything was skipped, the gate is  *)
(* met exactly if it is met when k of the skipped attempts pass.           *)
(***************************************************************************)
LEMMA CompletionAgrees ==
  ASSUME NEW runs \in Nat, NEW misses \in Nat, misses < runs,
         NEW p \in Nat, NEW f \in Nat, NEW e \in Nat, NEW n \in Nat,
         p + f + e + n = runs,
         n # 0 => GateDecided(runs, misses, p, f),
         NEW k \in 0 .. n
  PROVE  Met(misses, p + k, p + f + n) <=> Met(misses, p, p + f)
BY DEF Met, GateDecided, PassesNeeded

(***************************************************************************)
(* A stopped scenario's verdict is the one full sampling would have come   *)
(* to, however the attempts it skipped would have gone: early stopping     *)
(* (Stopper.record and the skips of Runner._attempt) loses no verdict.     *)
(***************************************************************************)
THEOREM EarlyStopSound == Spec => []StoppedVerdictSound
<1>1. IInv => StoppedVerdictSound
  <2> SUFFICES ASSUME IInv, NEW s \in Scenario, verdict[s] \in Statuses, ~Corrected,
                      NEW k \in 0 .. Tally(s, "skipped")
               PROVE  FullSampling(s, k) = verdict[s]
    BY DEF StoppedVerdictSound
  <2>1. \A a \in AttemptsOf(s) : outcome[a] \in Outcomes \cup {"skipped"}
    BY DEF IInv, VerdictsCounted
  <2>2. Tally(s, "pass") + Tally(s, "fail") + Tally(s, "error") + Tally(s, "skipped") = Runs[s]
    BY <2>1, OutcomesAddUp
  <2>3. Tally(s, "skipped") # 0 =>
          GateDecided(Runs[s], Misses[s], Tally(s, "pass"), Tally(s, "fail"))
    <3>1. Tally(s, "skipped") # 0 => \E a \in AttemptsOf(s) : outcome[a] = "skipped"
      <4>1. Tally(s, "skipped") = Count(AttemptsOf(s), outcome, {"skipped"})
        BY TallyType
      <4>2. Count(AttemptsOf(s), outcome, {"skipped"}) = 0
              <=> \A a \in AttemptsOf(s) : outcome[a] \notin {"skipped"}
        BY AttemptsCounted, CountZero
      <4>3. QED
        BY <4>1, <4>2
    <3>2. QED
      BY <3>1 DEF IInv, SkipsJustified
  <2>4. /\ Tally(s, "pass") \in Nat /\ Tally(s, "fail") \in Nat
        /\ Tally(s, "error") \in Nat /\ Tally(s, "skipped") \in Nat
    BY TallyType
  <2>5. Met(Misses[s], Tally(s, "pass") + k,
            Tally(s, "pass") + Tally(s, "fail") + Tally(s, "skipped"))
          <=> Met(Misses[s], Tally(s, "pass"), Tally(s, "pass") + Tally(s, "fail"))
    BY <2>2, <2>3, <2>4, AttemptsCounted, CompletionAgrees
  <2>6. verdict[s] = Status(Tally(s, "error"),
                            Met(Misses[s], Tally(s, "pass"), Tally(s, "pass") + Tally(s, "fail")))
    BY DEF IInv, VerdictsCounted
  <2>7. QED
    BY <2>5, <2>6 DEF FullSampling, Status
<1>2. QED
  BY <1>1, SamplingInvariant, PTL
-----------------------------------------------------------------------------
(***************************************************************************)
(* The reports.  What an entry holds, once there is a verdict.             *)
(***************************************************************************)
IsEntry(e) ==
  /\ e.passes \in Nat /\ e.judged \in Nat
  /\ e.status \in Statuses /\ e.early_stopped \in BOOLEAN

(* The entry of a scenario with a verdict is one of a report. *)
LEMMA EntryType ==
  ASSUME NEW s \in Scenario, Verdict(s)
  PROVE  IsEntry(Entry(s))
<1>1. /\ Tally(s, "pass") \in Nat /\ Tally(s, "fail") \in Nat /\ Tally(s, "skipped") \in Nat
  BY TallyType
<1>2. QED
  BY <1>1 DEF IsEntry, Entry, Verdict

(* What is said of two entries, and the exit code two reports of one give. *)
LEMMA ExitCodeOfOne ==
  ASSUME NEW old, NEW new, IsEntry(old), IsEntry(new)
  PROVE  /\ Classified(old, new) = Compared(old, new)
         /\ ExitCode(Holding(old), Holding(new), TRUE)
              = IF Compared(old, new) \in Regressions THEN 1 ELSE 0
<1>1. old # Absent /\ new # Absent
  BY DEF IsEntry, Absent, Statuses
<1>2. Classified(old, new) = Compared(old, new)
  BY <1>1 DEF Classified
<1>3. ~Refused(Holding(old), Holding(new), TRUE)
  BY DEF Refused
<1>4. Changes(Holding(old), Holding(new)) = [id \in {"x"} |-> Compared(old, new)]
  BY <1>2 DEF Changes, Holding, In
<1>5. QED
  BY <1>2, <1>3, <1>4 DEF ExitCode

(* A significant fall is one by the minimum at least, of a rate there is. *)
LEMMA SignificantFall ==
  ASSUME NEW old, NEW new, IsEntry(old), IsEntry(new),
         MinEffect.num > 0, Significant(old, new)
  PROVE  FellByMinimum(old, new)
<1> DEFINE fall == old.passes * new.judged - new.passes * old.judged
           least == MinEffect.num * old.judged * new.judged
<1>1. old.judged \in Nat \ {0} /\ new.judged \in Nat \ {0} /\ fall \in Int
  BY DEF Significant, Unlikely, IsEntry
<1>2. fall * MinEffect.den >= least
  BY <1>1 DEF Significant, Fallen, AtLeastOne
<1>3. least \in Nat \ {0}
  <2>1. \A m \in Nat \ {0}, n \in Nat \ {0} : m * n \in Nat \ {0}
    OBVIOUS
  <2>2. MinEffect.num \in Nat \ {0}
    BY ComparisonAssumption
  <2>3. QED
    BY <1>1, <2>1, <2>2
<1> HIDE DEF fall, least
<1>4. fall > 0
  <2>1. MinEffect.den \in Nat \ {0}
    BY ComparisonAssumption
  <2>2. \A m \in Int, n \in Nat \ {0} : m <= 0 => m * n <= 0
    OBVIOUS
  <2>3. QED
    BY <1>1, <1>2, <1>3, <2>1, <2>2
<1>5. QED
  BY <1>2, <1>4 DEF FellByMinimum, fall, least

(* Nothing falls between a report and itself. *)
LEMMA NothingFell ==
  ASSUME NEW e, IsEntry(e), MinEffect.num > 0
  PROVE  ~Significant(e, e)
<1>1. ASSUME FellByMinimum(e, e) PROVE FALSE
  <2>1. e.passes * e.judged - e.passes * e.judged = 0
    BY DEF IsEntry
  <2>2. QED
    BY <1>1, <2>1 DEF FellByMinimum
<1>2. QED
  BY <1>1, SignificantFall

(***************************************************************************)
(* A comparison reports a regression where a gate or completeness was      *)
(* lost, and otherwise only where the rate truly fell (compare.classify).  *)
(* With a minimum effect of 0, which the command line takes, a significant *)
(* level above one half calls a report worse than itself.                  *)
(***************************************************************************)
THEOREM RegressionsAreReal ==
  ASSUME MinEffect.num > 0
  PROVE  Spec => []RegressionIsReal
<1>1. RegressionIsReal
  <2> SUFFICES ASSUME NEW p \in Pairs
               PROVE  LET old == Entry(p[1])  new == Entry(p[2])
                          code == ExitCode(Holding(old), Holding(new), TRUE)
                      IN  /\ Worse(old, new) => code = 1
                          /\ code = 1 /\ ~Worse(old, new) => FellByMinimum(old, new)
                          /\ ExitCode(Holding(old), Holding(old), TRUE) = 0
                          /\ ExitCode(Empty, Holding(new), TRUE) = 0 <=> new.status = "upheld"
                          /\ ExitCode(Holding(old), Empty, TRUE) = 0
    BY DEF RegressionIsReal
  <2> DEFINE old == Entry(p[1])
             new == Entry(p[2])
             code == ExitCode(Holding(old), Holding(new), TRUE)
  <2>1. IsEntry(old) /\ IsEntry(new)
    BY EntryType DEF Pairs
  <2> HIDE DEF old, new
  <2>2. code = IF Compared(old, new) \in Regressions THEN 1 ELSE 0
    BY <2>1, ExitCodeOfOne
  <2>3. Worse(old, new) => Compared(old, new) \in {"newly incomplete", "gate lost"}
    BY DEF Worse, Compared, GateLost, Passed
  <2>4. Compared(old, new) \in Regressions /\ ~Worse(old, new) => Significant(old, new)
    BY DEF Worse, Compared, GateLost, Passed, Regressions
  <2>5. ExitCode(Holding(old), Holding(old), TRUE) = 0
    <3>1. Compared(old, old) \notin Regressions
      BY <2>1, NothingFell DEF Compared, GateLost, Regressions
    <3>2. QED
      BY <2>1, <3>1, ExitCodeOfOne
  <2>6. ExitCode(Empty, Holding(new), TRUE) = 0 <=> new.status = "upheld"
    <3>1. Changes(Empty, Holding(new)) = [id \in {"x"} |-> Classified(Absent, new)]
      BY DEF Changes, Empty, Holding, In
    <3>2. Classified(Absent, new) = IF new.status = "upheld" THEN "added" ELSE "new failing"
      <4>1. new # Absent
        BY <2>1 DEF IsEntry, Absent, Statuses
      <4>2. QED
        BY <4>1 DEF Classified, Passed
    <3>3. ~Refused(Empty, Holding(new), TRUE)
      BY DEF Refused
    <3>4. ExitCode(Empty, Holding(new), TRUE)
            = IF Classified(Absent, new) \in Regressions THEN 1 ELSE 0
      BY <3>1, <3>3 DEF ExitCode
    <3>5. "added" \notin Regressions /\ "new failing" \in Regressions
      BY DEF Regressions
    <3>6. CASE new.status = "upheld"
      BY <3>2, <3>4, <3>5, <3>6
    <3>7. CASE new.status # "upheld"
      <4>1. Classified(Absent, new) = "new failing"
        BY <3>2, <3>7
      <4>2. ExitCode(Empty, Holding(new), TRUE) = 1
        BY <3>4, <3>5, <4>1
      <4>3. 1 # 0
        OBVIOUS
      <4>4. QED
        BY <3>7, <4>2, <4>3, Zenon
    <3>8. QED
      BY <3>6, <3>7
  <2>7. ExitCode(Holding(old), Empty, TRUE) = 0
    <3>1. Changes(Holding(old), Empty) = [id \in {"x"} |-> Classified(old, Absent)]
      BY DEF Changes, Empty, Holding, In
    <3>2. Classified(old, Absent) = "removed"
      <4>1. old # Absent
        BY <2>1 DEF IsEntry, Absent, Statuses
      <4>2. QED
        BY <4>1 DEF Classified
    <3>3. ~Refused(Holding(old), Empty, TRUE)
      BY DEF Refused
    <3>4. QED
      BY <3>1, <3>2, <3>3 DEF ExitCode, Regressions
  <2> HIDE DEF code
  <2>8. (Worse(old, new) => code = 1) /\ (code = 1 /\ ~Worse(old, new) => FellByMinimum(old, new))
    <3>1. code = 1 <=> Compared(old, new) \in Regressions
      BY <2>2
    <3>2. Worse(old, new) => Compared(old, new) \in Regressions
      BY <2>3 DEF Regressions
    <3>3. Significant(old, new) => FellByMinimum(old, new)
      BY <2>1, SignificantFall
    <3>4. QED
      BY <2>4, <3>1, <3>2, <3>3
  <2>9. QED
    BY <2>5, <2>6, <2>7, <2>8 DEF old, new, code
<1>2. QED
  BY <1>1, PTL

(***************************************************************************)
(* The entry of full sampling has the status of the entry there is, and is *)
(* that entry where nothing was skipped.                                   *)
(***************************************************************************)
LEMMA FullEntryAgrees ==
  ASSUME StoppedVerdictSound, ~Corrected, NEW s \in Scenario, Verdict(s),
         NEW k \in 0 .. Tally(s, "skipped")
  PROVE  /\ IsEntry(Entry(s)) /\ IsEntry(FullEntry(s, k))
         /\ FullEntry(s, k).status = Entry(s).status
         /\ ~Entry(s).early_stopped => FullEntry(s, k) = Entry(s)
<1>1. /\ Tally(s, "pass") \in Nat /\ Tally(s, "fail") \in Nat /\ Tally(s, "skipped") \in Nat
  BY TallyType
<1>2. FullSampling(s, k) = verdict[s] /\ verdict[s] \in Statuses
  BY DEF StoppedVerdictSound, Verdict
<1> DEFINE p == Tally(s, "pass")  f == Tally(s, "fail")  n == Tally(s, "skipped")
<1>3. Entry(s) = [passes |-> p, judged |-> p + f, status |-> verdict[s], early_stopped |-> n > 0]
  BY DEF Entry
<1>4. FullEntry(s, k) =
        [passes |-> p + k, judged |-> p + f + n, status |-> verdict[s], early_stopped |-> FALSE]
  BY <1>2 DEF FullEntry
<1>5. p \in Nat /\ f \in Nat /\ n \in Nat /\ k \in 0 .. n /\ k \in Nat
  BY <1>1
<1> HIDE DEF p, f, n
<1>6. IsEntry(Entry(s)) /\ IsEntry(FullEntry(s, k))
  <2>1. p + f \in Nat /\ p + k \in Nat /\ p + f + n \in Nat /\ (n > 0) \in BOOLEAN
    BY <1>5
  <2>2. QED
    BY <1>2, <1>3, <1>4, <1>5, <2>1 DEF IsEntry
<1>7. ASSUME ~Entry(s).early_stopped
      PROVE  FullEntry(s, k) = Entry(s)
  <2>1. (n > 0) = FALSE
    <3>1. Entry(s).early_stopped = (n > 0)
      BY <1>3
    <3>2. ~(n > 0)
      BY <1>7, <3>1, Zenon
    <3>3. QED
      BY <3>2
  <2>2. p + k = p /\ p + f + n = p + f
    BY <1>5, <2>1
  <2>3. QED
    BY <1>3, <1>4, <2>1, <2>2
<1>8. FullEntry(s, k).status = Entry(s).status
  BY <1>3, <1>4
<1>9. QED
  BY <1>6, <1>7, <1>8

(* What is said of the gate and of completeness depends on statuses only. *)
LEMMA GateByStatus ==
  ASSUME NEW old, NEW new, NEW old2, NEW new2,
         old.status = old2.status, new.status = new2.status
  PROVE  Compared(old, new) \in OfTheGate => Compared(old2, new2) = Compared(old, new)
BY DEF Compared, GateLost, Passed, OfTheGate

(***************************************************************************)
(* A comparison that is not refused says what full samples would have, and *)
(* what it says of a gate is right even where stopped scenarios are        *)
(* allowed.  On the corrected rate nothing is ever stopped.                *)
(***************************************************************************)
THEOREM ComparisonIgnoresStopping ==
  ASSUME ~Corrected
  PROVE  Spec => []StoppedIsNoEstimate
<1>1. ASSUME StoppedVerdictSound
      PROVE  StoppedIsNoEstimate
  <2> SUFFICES ASSUME NEW p \in Pairs,
                      NEW k \in 0 .. Tally(p[1], "skipped"), NEW l \in 0 .. Tally(p[2], "skipped")
               PROVE  LET old == Entry(p[1])  new == Entry(p[2])  kind == Classified(old, new)
                          full == Classified(FullEntry(p[1], k), FullEntry(p[2], l))
                      IN  /\ ~Refused(Holding(old), Holding(new), FALSE) => full = kind
                          /\ kind \in OfTheGate \/ full \in OfTheGate => full = kind
    BY DEF StoppedIsNoEstimate
  <2> DEFINE old == Entry(p[1])
             new == Entry(p[2])
             fullOld == FullEntry(p[1], k)
             fullNew == FullEntry(p[2], l)
  <2>1. /\ IsEntry(old) /\ IsEntry(fullOld)
        /\ fullOld.status = old.status /\ (~old.early_stopped => fullOld = old)
    BY <1>1, FullEntryAgrees DEF Pairs
  <2>2. /\ IsEntry(new) /\ IsEntry(fullNew)
        /\ fullNew.status = new.status /\ (~new.early_stopped => fullNew = new)
    BY <1>1, FullEntryAgrees DEF Pairs
  <2> HIDE DEF old, new, fullOld, fullNew
  <2>3. ~Refused(Holding(old), Holding(new), FALSE) => ~old.early_stopped /\ ~new.early_stopped
    BY DEF Refused, StoppedIn, Holding
  <2>4. /\ Classified(old, new) = Compared(old, new)
        /\ Classified(fullOld, fullNew) = Compared(fullOld, fullNew)
    BY <2>1, <2>2, ExitCodeOfOne
  <2>5. Compared(old, new) \in OfTheGate \/ Compared(fullOld, fullNew) \in OfTheGate
          => Compared(fullOld, fullNew) = Compared(old, new)
    BY <2>1, <2>2, GateByStatus
  <2>6. QED
    BY <2>1, <2>2, <2>3, <2>4, <2>5 DEF old, new, fullOld, fullNew
<1>2. QED
  BY <1>1, EarlyStopSound, PTL
=============================================================================
