---------------------------- MODULE RunnerProofs ----------------------------
(***************************************************************************)
(* Proofs about Runner, for any number of scenarios, attempts, turns and   *)
(* target slots: its types, the cap on requests in flight, the exactness   *)
(* of the Stopper's tally, what the requests of an attempt account for,    *)
(* what a run makes of what was planned (module Planning), that nothing    *)
(* starts once the gate is decided, and that it implements module          *)
(* Sampling, whose verdicts are sound.                                     *)
(***************************************************************************)
EXTENDS Planning, Counting, SequenceTheorems

(***************************************************************************)
(* The attempts of a scenario are as many as its runs; all are finite.     *)
(***************************************************************************)
LEMMA AttemptsCounted ==
  ASSUME NEW s \in Scenario
  PROVE  /\ IsFiniteSet(AttemptsOf(s))
         /\ Cardinality(AttemptsOf(s)) = Runs[s]
         /\ AttemptsOf(s) \subseteq Attempt
<1>1. Runs[s] \in Nat
  BY RunnerAssumption
<1>2. /\ IsFiniteSet({s} \X (1 .. Runs[s]))
      /\ Cardinality({s} \X (1 .. Runs[s])) = Runs[s]
  BY <1>1, NumberedPairs
<1>3. QED
  BY <1>1, <1>2 DEF AttemptsOf, Attempt

(* An attempt is of one scenario. *)
LEMMA AttemptsDisjoint ==
  ASSUME NEW s \in Scenario, NEW t \in Scenario, NEW a \in AttemptsOf(s), a \in AttemptsOf(t)
  PROVE  s = t
BY DEF AttemptsOf

(* There are finitely many attempts. *)
LEMMA AttemptFinite == IsFiniteSet(Attempt)
<1> DEFINE All == {AttemptsOf(s) : s \in Scenario}
           f == [s \in Scenario |-> AttemptsOf(s)]
<1>1. f \in Surjection(Scenario, All)
  BY DEF Surjection
<1>2. IsFiniteSet(All)
  BY <1>1, FS_Surjection, RunnerAssumption
<1>3. \A S \in All : IsFiniteSet(S)
  BY AttemptsCounted
<1>4. QED
  BY <1>2, <1>3, FS_UNION DEF Attempt
-----------------------------------------------------------------------------
(***************************************************************************)
(* The replies an attempt has after replaying are texts of the target.     *)
(***************************************************************************)
LEMMA ReplayedType ==
  ASSUME NEW s \in Scenario, NEW a, NEW c \in Seq(Text), NEW d \in ReplayedFrom(s, a, c)
  PROVE  d \in Seq(Text) /\ (Len(c) + 1) .. Len(d) \subseteq Nat
<1>1. PICK n \in 0 .. (Len(Script[s]) - Len(c)) : \E x \in [1 .. n -> Text] : d = c \o x
  BY DEF ReplayedFrom, Extensions
<1>2. n \in Nat
  BY <1>1
<1>3. PICK x \in [1 .. n -> Text] : d = c \o x
  BY <1>1
<1>4. d \in Seq(Text)
  <2>1. x \in Seq(Text)
    BY <1>2, IsASeq
  <2>2. QED
    BY <1>3, <2>1, ConcatProperties
<1>5. Len(c) \in Nat /\ Len(d) \in Nat
  BY <1>4
<1>6. QED
  BY <1>4, <1>5

(* The texts of the response cache stay texts of the target. *)
LEMMA PutType ==
  ASSUME NEW k, NEW t \in Text, \A e \in responses : e.text \in Text
  PROVE  \A e \in Put(k, t) : e.text \in Text
BY DEF Put
-----------------------------------------------------------------------------
(***************************************************************************)
(* What a step of a task does to its place, to the tally and to the slots, *)
(* whichever action it is: it is recorded, skipped, raised, cancelled, or  *)
(* goes on, and gives back the slot it held unless it takes one.           *)
(***************************************************************************)
Holds(place) == IF place = "sending" THEN 1 ELSE 0

Ends(s, a) ==
  \/ /\ group[s] \in Unfinished
     /\ \E o \in Outcomes : Recorded(s, a, o)
  \/ /\ UNCHANGED <<out, tallyVars>>
     /\ \/ group[s] \in Unfinished /\ pc'[a] \in Live \cup {"raised"}
        \/ group[s] = "running" /\ pc'[a] = "skipped" /\ decided[s]
        \/ group[s] \in {"aborting", "cancelling"} /\ pc'[a] = "cancelled"

Effect(s, a) ==
  /\ pc[a] \in Live
  /\ pc' = [pc EXCEPT ![a] = pc'[a]]
  /\ slots' \in Nat /\ slots' = slots + Holds(pc[a]) - Holds(pc'[a])
  /\ UNCHANGED groupVars
  /\ Ends(s, a)

(* A request for a slot takes one or waits. *)
LEMMA AcquireEffect ==
  ASSUME TypeOK, NEW a \in Attempt, NEW free \in Nat, Acquire(a, free)
  PROVE  /\ pc' = [pc EXCEPT ![a] = pc'[a]] /\ pc'[a] \in Live
         /\ slots' \in Nat /\ slots' = free - Holds(pc'[a])
<1>1. \/ pc' = [pc EXCEPT ![a] = "sending"] /\ slots' = free - 1 /\ free > 0
      \/ pc' = [pc EXCEPT ![a] = "queued"] /\ slots' = free
  BY DEF Acquire
<1>2. CASE pc' = [pc EXCEPT ![a] = "sending"] /\ slots' = free - 1 /\ free > 0
  BY <1>2 DEF TypeOK, Live, Holds
<1>3. CASE pc' = [pc EXCEPT ![a] = "queued"] /\ slots' = free
  BY <1>3 DEF TypeOK, Live, Holds
<1>4. QED
  BY <1>1, <1>2, <1>3

(* A record is an outcome, and the tally counts it. *)
LEMMA RecordedEffect ==
  ASSUME TypeOK, NEW s \in Scenario, NEW a \in Attempt, NEW o \in Outcomes, Recorded(s, a, o)
  PROVE  /\ pc' = [pc EXCEPT ![a] = pc'[a]] /\ pc'[a] = "recorded"
         /\ out' = [out EXCEPT ![a] = o] /\ out'[a] = o
         /\ passes' = [passes EXCEPT ![s] = passes'[s]]
         /\ fails' = [fails EXCEPT ![s] = fails'[s]]
         /\ decided' = [decided EXCEPT ![s] = decided'[s]]
         /\ passes'[s] = passes[s] + (IF o \in PassOutcomes THEN 1 ELSE 0)
         /\ fails'[s] = fails[s] + (IF o \in FailOutcomes THEN 1 ELSE 0)
         /\ decided'[s] = (decided[s] \/ (MayStop /\ GateDecided(Runs[s], Misses[s], passes'[s], fails'[s])))
BY DEF Recorded, TypeOK

(* The checks end an attempt or send it to the judge. *)
LEMMA CheckedEffect ==
  ASSUME TypeOK, NEW s \in Scenario, NEW a \in Attempt, NEW reqs,
         Checked(s, a, reqs), group[s] = "running"
  PROVE  /\ pc' = [pc EXCEPT ![a] = pc'[a]] /\ Holds(pc'[a]) = 0
         /\ Ends(s, a)
<1>1. CASE Raised(a)
  BY <1>1 DEF Raised, TypeOK, Ends, Holds, Unfinished
<1>2. ASSUME NEW o \in {"checks", "latency"}, Recorded(s, a, o)
      PROVE  /\ pc' = [pc EXCEPT ![a] = pc'[a]] /\ Holds(pc'[a]) = 0
             /\ Ends(s, a)
  <2>1. o \in Outcomes
    BY DEF Outcomes, FailOutcomes
  <2>2. QED
    BY <1>2, <2>1, RecordedEffect DEF Ends, Holds, Unfinished
<1>3. CASE pc' = [pc EXCEPT ![a] = "judging"] /\ UNCHANGED <<out, tallyVars>>
  BY <1>3 DEF TypeOK, Ends, Holds, Live, Unfinished
<1>4. QED
  BY <1>1, <1>2, <1>3 DEF Checked

(* Going on waits for a slot, takes one, or runs the checks. *)
LEMMA ProceedEffect ==
  ASSUME TypeOK, NEW s \in Scenario, NEW a \in Attempt, NEW c, NEW reqs, NEW free \in Nat,
         Proceed(s, a, c, reqs, free), group[s] = "running"
  PROVE  /\ pc' = [pc EXCEPT ![a] = pc'[a]]
         /\ slots' \in Nat /\ slots' = free - Holds(pc'[a])
         /\ Ends(s, a)
<1>1. PICK d \in ReplayedFrom(s, a, c) :
        IF Len(d) < Len(Script[s])
          THEN Acquire(a, free) /\ UNCHANGED <<out, tallyVars>>
          ELSE Checked(s, a, reqs) /\ slots' = free
  BY DEF Proceed
<1>2. CASE Acquire(a, free) /\ UNCHANGED <<out, tallyVars>>
  BY <1>2, AcquireEffect DEF Ends, Unfinished
<1>3. CASE Checked(s, a, reqs) /\ slots' = free
  BY <1>3, CheckedEffect
<1>4. QED
  BY <1>1, <1>2, <1>3

(* Every step of a task has this effect. *)
LEMMA StepEffect ==
  ASSUME TypeOK, NEW s \in Scenario, NEW a \in AttemptsOf(s), Step(s, a)
  PROVE  Effect(s, a)
<1>1. a \in Attempt
  BY AttemptsCounted
<1>2. slots \in Nat /\ Holds(pc[a]) \in {0, 1} /\ Holds(pc'[a]) \in {0, 1}
  BY DEF TypeOK, Holds
<1>3. CASE SkipNew(s, a)
  <2>1. pc[a] = "new" /\ group[s] = "running" /\ decided[s] /\ pc' = [pc EXCEPT ![a] = "skipped"]
    BY <1>3 DEF SkipNew, At, Skippable
  <2>2. QED
    BY <1>1, <1>2, <1>3, <2>1 DEF SkipNew, Effect, Ends, Holds, Live, TypeOK, Unfinished
<1>4. CASE SkipQueued(s, a)
  <2>1. pc[a] = "queued" /\ group[s] = "running" /\ decided[s] /\ pc' = [pc EXCEPT ![a] = "skipped"]
    BY <1>4 DEF SkipQueued, At, Skippable
  <2>2. QED
    BY <1>1, <1>2, <1>4, <2>1 DEF SkipQueued, Effect, Ends, Holds, Live, TypeOK, Unfinished
<1>5. CASE Start(s, a)
  <2>1. pc[a] = "new" /\ group[s] = "running" /\ Proceed(s, a, <<>>, <<>>, slots)
    BY <1>5 DEF Start, At
  <2>2. /\ pc' = [pc EXCEPT ![a] = pc'[a]] /\ Ends(s, a)
        /\ slots' \in Nat /\ slots' = slots - Holds(pc'[a])
    BY <1>1, <1>2, <2>1, ProceedEffect
  <2>3. slots' = slots + Holds(pc[a]) - Holds(pc'[a])
    <3>1. Holds(pc[a]) = 0
      BY <2>1 DEF Holds
    <3> DEFINE holds == Holds(pc'[a])
    <3>2. slots' = slots - holds /\ holds \in Int
      BY <1>2, <2>2
    <3> HIDE DEF holds
    <3>3. slots' = slots + 0 - holds
      BY <1>2, <3>2
    <3>4. QED
      BY <3>1, <3>3 DEF holds
  <2>4. UNCHANGED groupVars /\ pc[a] \in Live
    BY <1>5, <2>1 DEF Start, Live
  <2>5. QED
    BY <2>2, <2>3, <2>4 DEF Effect
<1>6. CASE Send(s, a)
  <2>1. /\ pc[a] = "queued" /\ group[s] = "running" /\ slots > 0
        /\ pc' = [pc EXCEPT ![a] = "sending"] /\ slots' = slots - 1
    BY <1>6 DEF Send, At
  <2>2. pc'[a] = "sending"
    BY <1>1, <2>1 DEF TypeOK
  <2>3. slots' \in Nat /\ slots' = slots + Holds(pc[a]) - Holds(pc'[a])
    BY <1>2, <2>1, <2>2 DEF Holds
  <2>4. QED
    BY <1>6, <2>1, <2>2, <2>3 DEF Send, Effect, Ends, Live, Unfinished
<1>7. CASE Answered(s, a)
  <2>1. pc[a] = "sending" /\ group[s] = "running" /\ UNCHANGED groupVars
    BY <1>7 DEF Answered, At
  <2>2. PICK c, reqs : Proceed(s, a, c, reqs, slots + 1)
    <3>1. \E c, reqs : Proceed(s, a, c, reqs, Released(a))
      BY <1>7 DEF Answered
    <3>2. Released(a) = slots + 1
      BY <2>1 DEF Released
    <3>3. QED
      BY <3>1, <3>2
  <2>3. /\ pc' = [pc EXCEPT ![a] = pc'[a]] /\ Ends(s, a)
        /\ slots' \in Nat /\ slots' = (slots + 1) - Holds(pc'[a])
    BY <1>1, <1>2, <2>1, <2>2, ProceedEffect
  <2>4. slots' = slots + Holds(pc[a]) - Holds(pc'[a])
    <3>1. Holds(pc[a]) = 1
      BY <2>1 DEF Holds
    <3> DEFINE held == Holds(pc[a])
               holds == Holds(pc'[a])
    <3>2. slots' = (slots + 1) - holds /\ holds \in Int /\ held = 1
      BY <1>2, <2>3, <3>1
    <3> HIDE DEF held, holds
    <3>3. slots' = slots + held - holds
      BY <1>2, <3>2
    <3>4. QED
      BY <3>3 DEF held, holds
  <2>5. pc[a] \in Live
    BY <2>1 DEF Live
  <2>6. QED
    BY <2>1, <2>3, <2>4, <2>5 DEF Effect
<1>8. CASE Failed(s, a)
  <2>1. /\ pc[a] = "sending" /\ group[s] = "running" /\ slots' = slots + 1
        /\ Recorded(s, a, "transport_error") /\ UNCHANGED groupVars
    BY <1>8 DEF Failed, At, Released
  <2>2. "transport_error" \in Outcomes
    BY DEF Outcomes, ErrorOutcomes
  <2>3. QED
    BY <1>1, <1>2, <2>1, <2>2, RecordedEffect DEF Effect, Ends, Holds, Live, Unfinished
<1>9. CASE Misconfigured(s, a)
  <2>1. /\ pc[a] = "sending" /\ group[s] = "running" /\ slots' = slots + 1
        /\ pc' = [pc EXCEPT ![a] = "raised"] /\ UNCHANGED <<out, tallyVars>> /\ UNCHANGED groupVars
    BY <1>9 DEF Misconfigured, At, Raised, Released
  <2>2. pc'[a] = "raised"
    BY <1>1, <2>1 DEF TypeOK
  <2>3. slots' \in Nat /\ slots' = slots + Holds(pc[a]) - Holds(pc'[a])
    BY <1>2, <2>1, <2>2 DEF Holds
  <2>4. QED
    BY <2>1, <2>2, <2>3 DEF Effect, Ends, Live, Unfinished
<1>10. CASE Judged(s, a)
  <2>1. pc[a] = "judging" /\ group[s] = "running" /\ UNCHANGED <<groupVars, slots>>
    BY <1>10 DEF Judged, At
  <2>2. PICK o \in {"pass", "fail", "judge_error"} : Recorded(s, a, o)
    BY <1>10 DEF Judged
  <2>3. o \in Outcomes
    BY DEF Outcomes, PassOutcomes, FailOutcomes, ErrorOutcomes
  <2>4. QED
    BY <1>1, <1>2, <2>1, <2>2, <2>3, RecordedEffect DEF Effect, Ends, Holds, Live, Unfinished
<1>11. CASE JudgeCrashed(s, a)
  <2>1. /\ pc[a] = "judging" /\ group[s] = "running" /\ UNCHANGED <<groupVars, slots>>
        /\ pc' = [pc EXCEPT ![a] = "raised"] /\ UNCHANGED <<out, tallyVars>>
    BY <1>11 DEF JudgeCrashed, At, Raised
  <2>2. pc'[a] = "raised"
    BY <1>1, <2>1 DEF TypeOK
  <2>3. slots' \in Nat /\ slots' = slots + Holds(pc[a]) - Holds(pc'[a])
    BY <1>2, <2>1, <2>2 DEF Holds
  <2>4. QED
    BY <2>1, <2>2, <2>3 DEF Effect, Ends, Live, Unfinished
<1>12. CASE CancelTask(s, a)
  <2>1. /\ pc[a] \in Live /\ group[s] \in {"aborting", "cancelling"} /\ UNCHANGED groupVars
        /\ pc' = [pc EXCEPT ![a] = "cancelled"] /\ UNCHANGED <<out, tallyVars>>
        /\ slots' = IF pc[a] = "sending" THEN slots + 1 ELSE slots
    BY <1>12 DEF CancelTask, Released
  <2>2. pc'[a] = "cancelled"
    BY <1>1, <2>1 DEF TypeOK
  <2>3. slots' \in Nat /\ slots' = slots + Holds(pc[a]) - Holds(pc'[a])
    BY <1>2, <2>1, <2>2 DEF Holds
  <2>4. QED
    BY <2>1, <2>2, <2>3 DEF Effect, Ends, Unfinished
<1>13. CASE FailedLate(s, a)
  <2>1. /\ pc[a] = "judging" /\ group[s] \in Unfinished /\ UNCHANGED <<groupVars, slots>>
        /\ Recorded(s, a, "judge_error") \/ Raised(a)
    BY <1>13 DEF FailedLate, Unfinished
  <2>2. "judge_error" \in Outcomes
    BY DEF Outcomes, ErrorOutcomes
  <2>3. pc' = [pc EXCEPT ![a] = pc'[a]] /\ Ends(s, a) /\ pc'[a] \in {"recorded", "raised"}
    <3>1. CASE Recorded(s, a, "judge_error")
      BY <1>1, <2>1, <2>2, <3>1, RecordedEffect DEF Ends, Unfinished
    <3>2. CASE Raised(a)
      BY <1>1, <2>1, <3>2 DEF Raised, TypeOK, Ends, Unfinished
    <3>3. QED
      BY <2>1, <3>1, <3>2
  <2>4. slots' \in Nat /\ slots' = slots + Holds(pc[a]) - Holds(pc'[a])
    BY <1>2, <2>1, <2>3 DEF Holds
  <2>5. QED
    BY <2>1, <2>3, <2>4 DEF Effect, Live
<1>14. QED
  BY <1>3, <1>4, <1>5, <1>6, <1>7, <1>8, <1>9, <1>10, <1>11, <1>12, <1>13 DEF Step

(***************************************************************************)
(* A step of a changes nothing of another attempt, and nothing of the      *)
(* tally of another scenario.                                              *)
(***************************************************************************)
LEMMA EffectIsLocal ==
  ASSUME TypeOK, NEW s \in Scenario, NEW a \in AttemptsOf(s), Effect(s, a)
  PROVE  /\ \A b \in Attempt : b # a => pc'[b] = pc[b] /\ out'[b] = out[b]
         /\ \A t \in Scenario : t # s =>
              passes'[t] = passes[t] /\ fails'[t] = fails[t] /\ decided'[t] = decided[t]
<1>1. a \in Attempt
  BY AttemptsCounted
<1>2. \A b \in Attempt : b # a => pc'[b] = pc[b]
  <2>1. pc' = [pc EXCEPT ![a] = pc'[a]]
    BY DEF Effect
  <2>2. pc \in [Attempt -> Live \cup Over]
    BY DEF TypeOK
  <2>3. QED
    BY <2>1, <2>2
<1>3. CASE UNCHANGED <<out, tallyVars>>
  BY <1>2, <1>3 DEF tallyVars
<1>4. ASSUME NEW o \in Outcomes, Recorded(s, a, o)
      PROVE  /\ \A b \in Attempt : b # a => out'[b] = out[b]
             /\ \A t \in Scenario : t # s =>
                  passes'[t] = passes[t] /\ fails'[t] = fails[t] /\ decided'[t] = decided[t]
  BY <1>4 DEF Recorded, TypeOK
<1>5. QED
  BY <1>2, <1>3, <1>4 DEF Effect, Ends, Unfinished

(* A place, an outcome and a decision of the attempt that steps. *)
LEMMA EffectCases ==
  ASSUME TypeOK, NEW s \in Scenario, NEW a \in AttemptsOf(s), Effect(s, a)
  PROVE  \/ /\ pc'[a] = "recorded" /\ group[s] \in Unfinished
            /\ \E o \in Outcomes :
                 /\ out'[a] = o
                 /\ passes'[s] = passes[s] + (IF o \in PassOutcomes THEN 1 ELSE 0)
                 /\ fails'[s] = fails[s] + (IF o \in FailOutcomes THEN 1 ELSE 0)
                 /\ decided'[s] =
                      (decided[s] \/
                        (MayStop /\ GateDecided(Runs[s], Misses[s], passes'[s], fails'[s])))
         \/ /\ UNCHANGED <<out, tallyVars>>
            /\ \/ group[s] \in Unfinished /\ pc'[a] \in Live \cup {"raised"}
               \/ group[s] = "running" /\ pc'[a] = "skipped" /\ decided[s]
               \/ group[s] \in {"aborting", "cancelling"} /\ pc'[a] = "cancelled"
<1>1. a \in Attempt
  BY AttemptsCounted
<1>2. ASSUME NEW o \in Outcomes, Recorded(s, a, o)
      PROVE  /\ pc'[a] = "recorded" /\ out'[a] = o
             /\ passes'[s] = passes[s] + (IF o \in PassOutcomes THEN 1 ELSE 0)
             /\ fails'[s] = fails[s] + (IF o \in FailOutcomes THEN 1 ELSE 0)
             /\ decided'[s] =
                  (decided[s] \/
                    (MayStop /\ GateDecided(Runs[s], Misses[s], passes'[s], fails'[s])))
  BY <1>1, <1>2, RecordedEffect
<1>3. QED
  BY <1>2 DEF Effect, Ends, Unfinished
-----------------------------------------------------------------------------
(***************************************************************************)
(* The types.                                                              *)
(***************************************************************************)
LEMMA ProceedTypes ==
  ASSUME TypeOK, NEW s \in Scenario, NEW a \in Attempt, NEW c \in Seq(Text), NEW reqs, NEW free,
         Proceed(s, a, c, reqs, free)
  PROVE  conv' \in [Attempt -> Seq(Text)] /\ replayed' \in [Attempt -> SUBSET Nat]
<1>1. PICK d \in ReplayedFrom(s, a, c) :
        /\ conv' = [conv EXCEPT ![a] = d]
        /\ replayed' = [replayed EXCEPT ![a] = @ \cup ((Len(c) + 1) .. Len(d))]
  BY DEF Proceed
<1>2. d \in Seq(Text) /\ (Len(c) + 1) .. Len(d) \subseteq Nat
  BY ReplayedType
<1>3. QED
  BY <1>1, <1>2 DEF TypeOK

(* Every step keeps the types of what was said and sent. *)
LEMMA StepTypes ==
  ASSUME TypeOK, NEW s \in Scenario, NEW a \in AttemptsOf(s), Step(s, a)
  PROVE  /\ conv' \in [Attempt -> Seq(Text)] /\ replayed' \in [Attempt -> SUBSET Nat]
         /\ requests' \in [Attempt -> Seq(Latency)]
         /\ \A e \in responses' : e.text \in Text
<1> DEFINE Goal ==
      /\ conv' \in [Attempt -> Seq(Text)] /\ replayed' \in [Attempt -> SUBSET Nat]
      /\ requests' \in [Attempt -> Seq(Latency)]
      /\ \A e \in responses' : e.text \in Text
<1>1. a \in Attempt
  BY AttemptsCounted
<1>2. CASE UNCHANGED <<conv, replayed, requests, responses>>
  BY <1>2 DEF TypeOK
<1>3. CASE Start(s, a)
  <2>1. Proceed(s, a, <<>>, <<>>, slots) /\ UNCHANGED <<requests, responses>>
    BY <1>3 DEF Start
  <2> DEFINE c == <<>>
  <2>2. conv' \in [Attempt -> Seq(Text)] /\ replayed' \in [Attempt -> SUBSET Nat]
    <3>1. c \in Seq(Text) /\ Proceed(s, a, c, <<>>, slots)
      BY <2>1
    <3> HIDE DEF c
    <3>2. QED
      BY <1>1, <3>1, ProceedTypes
  <2>3. QED
    BY <2>1, <2>2 DEF TypeOK
<1>4. CASE Answered(s, a)
  <2>1. PICK t \in Text : \E d \in {"fast", "slow"} :
          /\ requests' = Requested(a, d)
          /\ responses' = IF Replay THEN Put(StepKey(s, a, conv[a]), t) ELSE responses
          /\ Proceed(s, a, Append(conv[a], t), Requested(a, d)[a], Released(a))
    BY <1>4 DEF Answered
  <2>2. Append(conv[a], t) \in Seq(Text)
    BY <1>1 DEF TypeOK
  <2>3. conv' \in [Attempt -> Seq(Text)] /\ replayed' \in [Attempt -> SUBSET Nat]
    BY <1>1, <2>1, <2>2, ProceedTypes
  <2>4. requests' \in [Attempt -> Seq(Latency)]
    BY <1>1, <2>1 DEF TypeOK, Latency, Requested
  <2>5. \A e \in responses' : e.text \in Text
    BY <2>1, PutType DEF TypeOK
  <2>6. QED
    BY <2>3, <2>4, <2>5
<1>5. CASE Failed(s, a)
  <2>1. /\ UNCHANGED <<conv, replayed, responses>>
        /\ requests' = [requests EXCEPT ![a] = Append(@, "error")]
    BY <1>5 DEF Failed, Requested
  <2>2. requests' \in [Attempt -> Seq(Latency)]
    BY <1>1, <2>1 DEF TypeOK, Latency
  <2>3. QED
    BY <2>1, <2>2 DEF TypeOK
<1>6. QED
  BY <1>2, <1>3, <1>4, <1>5
  DEF Step, SkipNew, SkipQueued, Send, Misconfigured, Judged, JudgeCrashed, FailedLate, CancelTask

(* Every step of a task keeps the types. *)
LEMMA StepTypeOK ==
  ASSUME TypeOK, NEW s \in Scenario, NEW a \in AttemptsOf(s), Step(s, a)
  PROVE  TypeOK'
<1>1. a \in Attempt
  BY AttemptsCounted
<1>2. Effect(s, a)
  BY StepEffect
<1>3. /\ out' \in [Attempt -> {"none"} \cup Outcomes]
      /\ passes' \in [Scenario -> Nat] /\ fails' \in [Scenario -> Nat]
      /\ decided' \in [Scenario -> BOOLEAN]
  <2>1. CASE UNCHANGED <<out, tallyVars>>
    BY <2>1 DEF TypeOK, tallyVars
  <2>2. ASSUME NEW o \in Outcomes, Recorded(s, a, o)
        PROVE  /\ out' \in [Attempt -> {"none"} \cup Outcomes]
               /\ passes' \in [Scenario -> Nat] /\ fails' \in [Scenario -> Nat]
               /\ decided' \in [Scenario -> BOOLEAN]
    <3>1. out' \in [Attempt -> {"none"} \cup Outcomes]
      BY <2>2 DEF Recorded, TypeOK
    <3>2. passes' \in [Scenario -> Nat]
      BY <2>2 DEF Recorded, TypeOK
    <3>3. fails' \in [Scenario -> Nat]
      BY <2>2 DEF Recorded, TypeOK
    <3>4. decided' \in [Scenario -> BOOLEAN]
      BY <2>2, Zenon DEF Recorded, TypeOK
    <3>5. QED
      BY <3>1, <3>2, <3>3, <3>4
  <2>3. QED
    BY <1>2, <2>1, <2>2 DEF Effect, Ends, Unfinished
<1>4. pc' \in [Attempt -> Live \cup Over]
  <2>1. pc'[a] \in Live \cup Over
    BY <1>2, EffectCases DEF Live, Over
  <2>2. QED
    BY <1>2, <2>1 DEF Effect, TypeOK
<1>5. /\ slots' \in Nat /\ group' = group /\ result' = result
  BY <1>2 DEF Effect, groupVars
<1>6. QED
  BY <1>3, <1>4, <1>5, StepTypes DEF TypeOK
-----------------------------------------------------------------------------
(***************************************************************************)
(* The inductive invariant.  TallyExact alone is not inductive: a second   *)
(* outcome of one attempt would be tallied twice, so that an attempt has   *)
(* an outcome only at the end has to be carried along; and what the result *)
(* says of skipped attempts rests on why attempts are skipped or cancelled.*)
(***************************************************************************)
OutcomeAtEnd == \A a \in Attempt : pc[a] = "recorded" <=> out[a] # "none"

DecisionsJustified ==
  \A s \in Scenario :
    decided[s] => MayStop /\ GateDecided(Runs[s], Misses[s], passes[s], fails[s])

SkipsJustified ==
  \A s \in Scenario : \A a \in AttemptsOf(s) : pc[a] = "skipped" => decided[s]

CancelsJustified ==
  \A s \in Scenario : \A a \in AttemptsOf(s) :
    pc[a] = "cancelled" => group[s] \notin {"running", "finished"}

EndsComplete ==
  \A s \in Scenario : group[s] \in {"finished", "raised", "cancelled"} => AllOver(s)

StopsReported ==
  \A s \in Scenario :
    group[s] = "finished" =>
      (result[s].early_stopped <=> \E a \in AttemptsOf(s) : pc[a] = "skipped")

IInv ==
  /\ TypeOK /\ OutcomeAtEnd /\ SlotsConserved /\ TallyExact /\ DecisionsJustified
  /\ SkipsJustified /\ CancelsJustified /\ EndsComplete /\ StopsReported

(* CountOf in terms of Count. *)
LEMMA CountOfIsCount ==
  ASSUME NEW s \in Scenario, NEW O
  PROVE  /\ CountOf(s, O) = Count(AttemptsOf(s), out, O) /\ CountOf(s, O) \in Nat
<1>1. CountOf(s, O) = Count(AttemptsOf(s), out, O)
  BY DEF CountOf, Count, Chosen
<1>2. QED
  BY <1>1, CountType, AttemptsCounted

(* The same in the next state. *)
LEMMA NewCountOfIsCount ==
  ASSUME NEW s \in Scenario, NEW O
  PROVE  CountOf(s, O)' = Count(AttemptsOf(s), out', O)
BY DEF CountOf, Count, Chosen

(* The invariant holds at the start. *)
LEMMA InitIInv == Init => IInv
<1> SUFFICES ASSUME Init PROVE IInv
  OBVIOUS
<1>1. TypeOK
  <2>1. <<>> \in Seq(Text) /\ <<>> \in Seq(Latency)
    OBVIOUS
  <2>2. conv \in [Attempt -> Seq(Text)] /\ requests \in [Attempt -> Seq(Latency)]
    BY <2>1 DEF Init
  <2>3. \A e \in responses : e.text \in Text
    BY RunnerAssumption DEF Init
  <2>4. slots \in Nat
    BY RunnerAssumption DEF Init
  <2>5. QED
    BY <2>2, <2>3, <2>4 DEF Init, TypeOK, Live
<1>2. SlotsConserved
  <2>1. \A a \in Attempt : pc[a] \notin {"sending"}
    BY DEF Init
  <2>2. Count(Attempt, pc, {"sending"}) = 0
    BY <2>1, CountZero, AttemptFinite
  <2>3. TargetCap \in Nat
    BY RunnerAssumption
  <2>4. {a \in Attempt : pc[a] = "sending"} = Chosen(Attempt, pc, {"sending"})
    BY DEF Chosen
  <2>5. Cardinality({a \in Attempt : pc[a] = "sending"}) = 0
    BY <2>2, <2>4 DEF Count
  <2>6. QED
    BY <2>3, <2>5 DEF Init, SlotsConserved
<1>3. TallyExact
  <2> SUFFICES ASSUME NEW s \in Scenario
               PROVE  CountOf(s, PassOutcomes) = 0 /\ CountOf(s, FailOutcomes) = 0
    BY DEF Init, TallyExact
  <2>1. \A a \in AttemptsOf(s) : out[a] \notin PassOutcomes /\ out[a] \notin FailOutcomes
    BY AttemptsCounted DEF Init, PassOutcomes, FailOutcomes
  <2>2. QED
    BY <2>1, CountZero, CountOfIsCount, AttemptsCounted
<1>4. SkipsJustified /\ CancelsJustified
  BY AttemptsCounted DEF Init, SkipsJustified, CancelsJustified
<1>5. OutcomeAtEnd /\ DecisionsJustified /\ EndsComplete /\ StopsReported
  BY DEF Init, OutcomeAtEnd, DecisionsJustified, EndsComplete, StopsReported
<1>6. QED
  BY <1>1, <1>2, <1>3, <1>4, <1>5 DEF IInv
-----------------------------------------------------------------------------
(***************************************************************************)
(* The steps of tasks, one lemma per part of the invariant.                *)
(***************************************************************************)
LEMMA StepSlots ==
  ASSUME TypeOK, SlotsConserved, NEW s \in Scenario, NEW a \in AttemptsOf(s), Effect(s, a)
  PROVE  SlotsConserved'
<1> DEFINE before == Count(Attempt, pc, {"sending"})
           after == Count(Attempt, pc', {"sending"})
<1> DEFINE held == Holds(pc[a])
           holds == Holds(pc'[a])
<1>0. slots \in Nat /\ slots' \in Nat /\ slots' = slots + held - holds
  BY DEF TypeOK, Effect
<1>1. slots + before = TargetCap /\ before \in Nat /\ after \in Nat
  <2>1. {b \in Attempt : pc[b] = "sending"} = Chosen(Attempt, pc, {"sending"})
    BY DEF Chosen
  <2>2. before \in Nat /\ after \in Nat
    BY CountType, AttemptFinite
  <2>3. QED
    BY <2>1, <2>2 DEF SlotsConserved, TypeOK, Effect, Count
<1>2. /\ a \in Attempt /\ IsFiniteSet(Attempt)
      /\ \A b \in Attempt : b # a => (pc[b] \in {"sending"} <=> pc'[b] \in {"sending"})
  BY EffectIsLocal, AttemptsCounted, AttemptFinite
<1>3. slots' + after = TargetCap
  <2>1. CASE pc[a] = "sending" /\ pc'[a] # "sending"
    <3>1. after = before - 1
      BY <1>2, <2>1, CountDecrement
    <3>2. held = 1 /\ holds = 0
      BY <2>1 DEF Holds
    <3> HIDE DEF before, after, held, holds
    <3>3. QED
      BY <1>0, <1>1, <3>1, <3>2
  <2>2. CASE pc[a] # "sending" /\ pc'[a] = "sending"
    <3>1. after = before + 1
      BY <1>2, <2>2, CountIncrement
    <3>2. held = 0 /\ holds = 1
      BY <2>2 DEF Holds
    <3> HIDE DEF before, after, held, holds
    <3>3. QED
      BY <1>0, <1>1, <3>1, <3>2
  <2>3. CASE pc[a] = "sending" <=> pc'[a] = "sending"
    <3>1. after = before
      BY <1>2, <2>3, CountSame
    <3>2. held = holds /\ held \in Nat
      BY <2>3 DEF Holds
    <3> HIDE DEF before, after, held, holds
    <3>3. QED
      BY <1>0, <1>1, <3>1, <3>2
  <2>4. QED
    BY <2>1, <2>2, <2>3
<1>4. {b \in Attempt : pc'[b] = "sending"} = Chosen(Attempt, pc', {"sending"})
  BY DEF Chosen
<1>5. QED
  BY <1>3, <1>4 DEF SlotsConserved, Count

(* Every effect is counted in the tally. *)
LEMMA StepTally ==
  ASSUME TypeOK, TallyExact, OutcomeAtEnd,
         NEW s \in Scenario, NEW a \in AttemptsOf(s), Effect(s, a)
  PROVE  TallyExact'
<1> SUFFICES ASSUME NEW t \in Scenario
             PROVE  /\ passes'[t] = CountOf(t, PassOutcomes)'
                    /\ fails'[t] = CountOf(t, FailOutcomes)'
  BY DEF TallyExact
<1>1. /\ a \in Attempt /\ IsFiniteSet(AttemptsOf(t))
      /\ AttemptsOf(t) \subseteq Attempt
  BY AttemptsCounted
<1>2. /\ passes[t] = Count(AttemptsOf(t), out, PassOutcomes)
      /\ fails[t] = Count(AttemptsOf(t), out, FailOutcomes)
  BY CountOfIsCount DEF TallyExact
<1>3. CASE UNCHANGED <<out, tallyVars>>
  BY <1>2, <1>3, NewCountOfIsCount DEF tallyVars
<1>4. CASE t # s
  <2>1. \A b \in AttemptsOf(t) : out'[b] = out[b]
    BY <1>1, <1>4, EffectIsLocal, AttemptsDisjoint
  <2>2. \A O : Count(AttemptsOf(t), out', O) = Count(AttemptsOf(t), out, O)
    BY <2>1, CountSame
  <2>3. QED
    BY <1>2, <1>4, <2>2, EffectIsLocal, NewCountOfIsCount
<1>5. ASSUME t = s,
             NEW o \in Outcomes, out'[a] = o,
             passes'[s] = passes[s] + (IF o \in PassOutcomes THEN 1 ELSE 0),
             fails'[s] = fails[s] + (IF o \in FailOutcomes THEN 1 ELSE 0)
      PROVE  /\ passes'[t] = CountOf(t, PassOutcomes)'
             /\ fails'[t] = CountOf(t, FailOutcomes)'
  <2>1. out[a] = "none"
    BY <1>1 DEF Effect, OutcomeAtEnd, Live
  <2>2. \A b \in AttemptsOf(s) : b # a => out'[b] = out[b]
    BY <1>1, <1>5, EffectIsLocal
  <2>3. ASSUME NEW O, "none" \notin O, o \in O
        PROVE  Count(AttemptsOf(s), out', O) = Count(AttemptsOf(s), out, O) + 1
    BY <1>1, <1>5, <2>1, <2>2, <2>3, CountIncrement
  <2>4. ASSUME NEW O, "none" \notin O, o \notin O
        PROVE  Count(AttemptsOf(s), out', O) = Count(AttemptsOf(s), out, O)
    BY <1>1, <1>5, <2>1, <2>2, <2>4, CountSame
  <2>5. "none" \notin PassOutcomes /\ "none" \notin FailOutcomes
    BY DEF PassOutcomes, FailOutcomes
  <2>6. passes[s] \in Nat /\ fails[s] \in Nat
    BY DEF TypeOK
  <2>7. passes'[s] = Count(AttemptsOf(s), out', PassOutcomes)
    BY <1>2, <1>5, <2>3, <2>4, <2>5, <2>6
  <2>8. fails'[s] = Count(AttemptsOf(s), out', FailOutcomes)
    BY <1>2, <1>5, <2>3, <2>4, <2>5, <2>6
  <2>9. QED
    BY <1>5, <2>7, <2>8, NewCountOfIsCount
<1>6. QED
  BY <1>3, <1>4, <1>5, EffectCases

(* A decision is justified when it is made, and stays. *)
LEMMA StepDecisions ==
  ASSUME TypeOK, DecisionsJustified, NEW s \in Scenario, NEW a \in AttemptsOf(s), Effect(s, a)
  PROVE  DecisionsJustified' /\ (decided[s] => decided'[s])
<1>1. Runs[s] \in Nat /\ Misses[s] \in Nat
  BY RunnerAssumption
<1>2. CASE UNCHANGED <<out, tallyVars>>
  BY <1>2 DEF tallyVars, DecisionsJustified
<1>3. ASSUME NEW o \in Outcomes,
             passes'[s] = passes[s] + (IF o \in PassOutcomes THEN 1 ELSE 0),
             fails'[s] = fails[s] + (IF o \in FailOutcomes THEN 1 ELSE 0),
             decided'[s] =
               (decided[s] \/ (MayStop /\ GateDecided(Runs[s], Misses[s], passes'[s], fails'[s])))
      PROVE  DecisionsJustified' /\ (decided[s] => decided'[s])
  <2>1. passes[s] \in Nat /\ fails[s] \in Nat
    BY DEF TypeOK
  <2>2. GateDecided(Runs[s], Misses[s], passes[s], fails[s])
          => GateDecided(Runs[s], Misses[s], passes'[s], fails'[s])
    BY <1>1, <1>3, <2>1 DEF GateDecided, PassesNeeded
  <2>3. decided'[s] => MayStop /\ GateDecided(Runs[s], Misses[s], passes'[s], fails'[s])
    <3>1. CASE decided[s]
      BY <2>2, <3>1 DEF DecisionsJustified
    <3>2. CASE ~decided[s]
      BY <1>3, <3>2, Zenon
    <3>3. QED
      BY <3>1, <3>2
  <2>4. \A t \in Scenario :
          decided'[t] => MayStop /\ GateDecided(Runs[t], Misses[t], passes'[t], fails'[t])
    <3> SUFFICES ASSUME NEW t \in Scenario, decided'[t]
                 PROVE  MayStop /\ GateDecided(Runs[t], Misses[t], passes'[t], fails'[t])
      OBVIOUS
    <3>1. CASE t = s
      BY <2>3, <3>1
    <3>2. CASE t # s
      BY <3>2, EffectIsLocal DEF DecisionsJustified
    <3>3. QED
      BY <3>1, <3>2
  <2>5. decided[s] => decided'[s]
    BY <1>3, Zenon
  <2>6. QED
    BY <2>4, <2>5 DEF DecisionsJustified, MayStop
<1>4. QED
  BY <1>2, <1>3, EffectCases

(* Every effect keeps what the place of an attempt says of it. *)
LEMMA StepPlaces ==
  ASSUME IInv, NEW s \in Scenario, NEW a \in AttemptsOf(s), Effect(s, a),
         decided[s] => decided'[s]
  PROVE  OutcomeAtEnd' /\ SkipsJustified' /\ CancelsJustified' /\ EndsComplete' /\ StopsReported'
<1>1. /\ TypeOK /\ a \in Attempt /\ \A t \in Scenario : AttemptsOf(t) \subseteq Attempt
      /\ \A t \in Scenario : a \in AttemptsOf(t) => t = s
  BY AttemptsCounted, AttemptsDisjoint DEF IInv
<1>2. /\ pc[a] \in Live /\ pc[a] \notin Over
      /\ group' = group /\ result' = result
      /\ group[s] \notin {"finished", "raised", "cancelled"}
  <2>1. pc[a] \in Live /\ group' = group /\ result' = result
    BY DEF Effect, groupVars
  <2>2. pc[a] \notin Over
    BY <2>1 DEF Live, Over
  <2>3. group[s] \notin {"finished", "raised", "cancelled"}
    BY <2>2 DEF IInv, EndsComplete, AllOver
  <2>4. QED
    BY <2>1, <2>2, <2>3
<1>3. /\ \A b \in Attempt : b # a => pc'[b] = pc[b] /\ out'[b] = out[b]
      /\ \A t \in Scenario : t # s => decided'[t] = decided[t]
  BY <1>1, EffectIsLocal
<1>4. \/ pc'[a] = "recorded" /\ out'[a] \in Outcomes
      \/ /\ out'[a] = out[a]
         /\ \/ pc'[a] \in Live \cup {"raised"}
            \/ pc'[a] = "skipped" /\ decided[s]
            \/ pc'[a] = "cancelled" /\ group[s] # "running"
  BY <1>1, EffectCases
<1>5. OutcomeAtEnd'
  <2>1. pc'[a] = "recorded" <=> out'[a] # "none"
    <3>1. out[a] = "none"
      BY <1>1, <1>2 DEF IInv, OutcomeAtEnd, Live
    <3>2. "none" \notin Outcomes /\ "recorded" \notin Live
      BY DEF Outcomes, PassOutcomes, FailOutcomes, ErrorOutcomes, Live
    <3>3. QED
      BY <1>4, <3>1, <3>2
  <2>2. QED
    BY <1>3, <2>1 DEF IInv, OutcomeAtEnd
<1>6. SkipsJustified'
  <2> SUFFICES ASSUME NEW t \in Scenario, NEW b \in AttemptsOf(t), pc'[b] = "skipped"
               PROVE  decided'[t]
    BY DEF SkipsJustified
  <2>1. CASE b = a
    BY <1>1, <1>4, <2>1 DEF Live
  <2>2. CASE b # a
    <3>1. pc[b] = "skipped"
      BY <1>1, <1>3, <2>2
    <3>2. decided[t]
      BY <3>1 DEF IInv, SkipsJustified
    <3>3. QED
      BY <1>3, <3>2
  <2>3. QED
    BY <2>1, <2>2
<1>7. CancelsJustified'
  BY <1>1, <1>2, <1>3, <1>4 DEF IInv, CancelsJustified, Live
<1>8. EndsComplete' /\ StopsReported'
  <2>1. ASSUME NEW t \in Scenario, t # s, NEW b \in AttemptsOf(t)
        PROVE  pc'[b] = pc[b]
    BY <1>1, <1>3, <2>1
  <2>2. EndsComplete'
    BY <1>2, <2>1 DEF IInv, EndsComplete, AllOver
  <2>3. StopsReported'
    BY <1>2, <2>1 DEF IInv, StopsReported
  <2>4. QED
    BY <2>2, <2>3
<1>9. QED
  BY <1>5, <1>6, <1>7, <1>8-----------------------------------------------------------------------------
(***************************************************************************)
(* The steps of task groups.  They leave the tasks alone, and a group ends *)
(* only when all of its tasks are over.                                    *)
(***************************************************************************)
Closes(s, g) ==
  /\ UNCHANGED <<taskVars, tallyVars, slots, responses>>
  /\ group' = [group EXCEPT ![s] = g]
  /\ group[s] \notin {"finished", "raised", "cancelled"}
  /\ g \in {"aborting", "cancelling", "raised", "cancelled", "finished"}
  /\ g \in {"raised", "cancelled", "finished"} => AllOver(s)

(* Ending a scenario keeps the invariant. *)
LEMMA ClosesIInv ==
  ASSUME IInv, NEW s \in Scenario, NEW g, Closes(s, g),
         \/ g # "finished" /\ result' = result
         \/ /\ g = "finished"
            /\ \A a \in AttemptsOf(s) : pc[a] # "cancelled"
            /\ result' \in [Scenario -> [status : {"none"} \cup Statuses, early_stopped : BOOLEAN]]
            /\ \A t \in Scenario : t # s => result'[t] = result[t]
            /\ result'[s].early_stopped <=> \E a \in AttemptsOf(s) : pc[a] = "skipped"
  PROVE  IInv'
<1>1. /\ UNCHANGED <<pc, conv, replayed, requests, out, passes, fails, decided, slots, responses>>
      /\ group'[s] = g /\ \A t \in Scenario : t # s => group'[t] = group[t]
  BY DEF Closes, taskVars, tallyVars, IInv, TypeOK
<1>2. TypeOK'
  BY <1>1 DEF Closes, IInv, TypeOK
<1>3. OutcomeAtEnd' /\ SlotsConserved' /\ DecisionsJustified' /\ SkipsJustified'
  BY <1>1 DEF IInv, OutcomeAtEnd, SlotsConserved, DecisionsJustified, SkipsJustified
<1>4. TallyExact'
  <2>1. \A t \in Scenario : \A O : CountOf(t, O)' = CountOf(t, O)
    BY <1>1 DEF CountOf
  <2>2. QED
    BY <1>1, <2>1 DEF IInv, TallyExact
<1>5. CancelsJustified'
  BY <1>1 DEF IInv, CancelsJustified, Closes
<1>6. EndsComplete'
  BY <1>1 DEF IInv, EndsComplete, AllOver, Closes
<1>7. StopsReported'
  BY <1>1 DEF IInv, StopsReported, Closes
<1>8. QED
  BY <1>2, <1>3, <1>4, <1>5, <1>6, <1>7 DEF IInv

(***************************************************************************)
(* Of a scenario whose tasks ended without raising or being cancelled, the *)
(* attempts made are as many as planned exactly if none was skipped.       *)
(***************************************************************************)
LEMMA MadeOrSkipped ==
  ASSUME IInv, NEW s \in Scenario, AllOver(s), group[s] = "running",
         \A a \in AttemptsOf(s) : pc[a] # "raised"
  PROVE  /\ \A a \in AttemptsOf(s) : pc[a] \in {"recorded", "skipped"}
         /\ CountOf(s, Outcomes) < Runs[s] <=> \E a \in AttemptsOf(s) : pc[a] = "skipped"
<1>1. /\ IsFiniteSet(AttemptsOf(s)) /\ Cardinality(AttemptsOf(s)) = Runs[s]
      /\ AttemptsOf(s) \subseteq Attempt /\ Runs[s] \in Nat
  BY AttemptsCounted, RunnerAssumption
<1>2. \A a \in AttemptsOf(s) : pc[a] \in {"recorded", "skipped"}
  BY DEF AllOver, Over, IInv, CancelsJustified
<1>3. \A a \in AttemptsOf(s) : out[a] \in Outcomes <=> pc[a] = "recorded"
  <2>1. "none" \notin Outcomes
    BY DEF Outcomes, PassOutcomes, FailOutcomes, ErrorOutcomes
  <2>2. QED
    BY <1>1, <2>1 DEF IInv, OutcomeAtEnd, TypeOK
<1>4. /\ Count(AttemptsOf(s), out, Outcomes) = Count(AttemptsOf(s), pc, {"recorded"})
      /\ Count(AttemptsOf(s), pc, {"recorded"} \cup {"skipped"})
           = Count(AttemptsOf(s), pc, {"recorded"}) + Count(AttemptsOf(s), pc, {"skipped"})
      /\ Count(AttemptsOf(s), pc, {"recorded"} \cup {"skipped"}) = Runs[s]
  <2>1. Count(AttemptsOf(s), out, Outcomes) = Count(AttemptsOf(s), pc, {"recorded"})
    BY <1>3, CountSame
  <2>2. Count(AttemptsOf(s), pc, {"recorded"} \cup {"skipped"})
          = Count(AttemptsOf(s), pc, {"recorded"}) + Count(AttemptsOf(s), pc, {"skipped"})
    BY <1>1, CountSplit
  <2>3. Count(AttemptsOf(s), pc, {"recorded"} \cup {"skipped"}) = Runs[s]
    BY <1>1, <1>2, CountAll
  <2>4. QED
    BY <2>1, <2>2, <2>3
<1> DEFINE made == Count(AttemptsOf(s), pc, {"recorded"})
           skips == Count(AttemptsOf(s), pc, {"skipped"})
<1>5. made \in Nat /\ skips \in Nat /\ made + skips = Runs[s] /\ CountOf(s, Outcomes) = made
  BY <1>1, <1>4, CountType, CountOfIsCount
<1>6. skips = 0 <=> \A a \in AttemptsOf(s) : pc[a] \notin {"skipped"}
  BY <1>1, CountZero
<1> HIDE DEF made, skips
<1>7. CountOf(s, Outcomes) < Runs[s] <=> skips # 0
  BY <1>1, <1>5
<1>8. QED
  BY <1>2, <1>6, <1>7

(* A status is one of the statuses. *)
LEMMA StatusType ==
  ASSUME NEW errors, NEW met
  PROVE  Status(errors, met) \in Statuses
BY DEF Status, Statuses

(* The task group keeps the invariant. *)
LEMMA GroupIInv ==
  ASSUME IInv, NEW s \in Scenario, Group(s) \/ CancelScenario(s)
  PROVE  IInv'
<1>1. CASE AbortGroup(s)
  BY <1>1, ClosesIInv DEF AbortGroup, Closes
<1>2. CASE CancelScenario(s)
  BY <1>2, ClosesIInv DEF CancelScenario, Closes
<1>3. CASE GiveUp(s)
  <2>1. PICK g \in {"raised", "cancelled"} : group' = [group EXCEPT ![s] = g]
    BY <1>3 DEF GiveUp, EndWithoutResult
  <2>2. QED
    BY <1>3, <2>1, ClosesIInv DEF GiveUp, Closes, Unfinished
<1>4. CASE Finish(s)
  <2>1. /\ group[s] = "running" /\ AllOver(s)
        /\ \A a \in AttemptsOf(s) : pc[a] # "raised"
        /\ group' = [group EXCEPT ![s] = "finished"]
        /\ UNCHANGED <<taskVars, tallyVars, slots, responses>>
    BY <1>4 DEF Finish, EarlyStopped, RaisedAttempt
  <2>2. PICK met :
          result' = [result EXCEPT ![s] =
                       [status |-> Status(CountOf(s, ErrorOutcomes), met),
                        early_stopped |-> decided[s] /\ CountOf(s, Outcomes) < Runs[s]]]
    BY <1>4 DEF Finish, EarlyStopped, RaisedAttempt
  <2>3. Status(CountOf(s, ErrorOutcomes), met) \in Statuses
    BY StatusType
  <2>4. /\ result' \in [Scenario -> [status : {"none"} \cup Statuses, early_stopped : BOOLEAN]]
        /\ \A t \in Scenario : t # s => result'[t] = result[t]
        /\ result'[s].early_stopped <=> (decided[s] /\ CountOf(s, Outcomes) < Runs[s])
    <3>1. result \in [Scenario -> [status : {"none"} \cup Statuses, early_stopped : BOOLEAN]]
      BY DEF IInv, TypeOK
    <3>2. (decided[s] /\ CountOf(s, Outcomes) < Runs[s]) \in BOOLEAN
      BY DEF IInv, TypeOK
    <3>3. QED
      BY <2>2, <2>3, <3>1, <3>2
  <2>5. result'[s].early_stopped <=> \E a \in AttemptsOf(s) : pc[a] = "skipped"
    BY <2>1, <2>4, MadeOrSkipped DEF IInv, SkipsJustified
  <2>6. \A a \in AttemptsOf(s) : pc[a] # "cancelled"
    BY <2>1, MadeOrSkipped
  <2>7. QED
    BY <2>1, <2>4, <2>5, <2>6, ClosesIInv DEF Closes
<1>5. QED
  BY <1>1, <1>2, <1>3, <1>4 DEF Group
-----------------------------------------------------------------------------
(* Every step keeps the invariant. *)
LEMMA NextIInv == IInv /\ [Next]_vars => IInv'
<1> SUFFICES ASSUME IInv, [Next]_vars PROVE IInv'
  OBVIOUS
<1>1. ASSUME NEW s \in Scenario, NEW a \in AttemptsOf(s), Step(s, a) PROVE IInv'
  <2>1. TypeOK /\ SlotsConserved /\ TallyExact /\ OutcomeAtEnd /\ DecisionsJustified
    BY DEF IInv
  <2>2. Effect(s, a)
    BY <1>1, <2>1, StepEffect
  <2>3. TypeOK'
    BY <1>1, <2>1, StepTypeOK
  <2>4. SlotsConserved'
    BY <2>1, <2>2, StepSlots
  <2>5. TallyExact'
    BY <2>1, <2>2, StepTally
  <2>6. DecisionsJustified' /\ (decided[s] => decided'[s])
    BY <2>1, <2>2, StepDecisions
  <2>7. OutcomeAtEnd' /\ SkipsJustified' /\ CancelsJustified' /\ EndsComplete' /\ StopsReported'
    BY <2>2, <2>6, StepPlaces
  <2>8. QED
    BY <2>3, <2>4, <2>5, <2>6, <2>7 DEF IInv
<1>2. ASSUME NEW s \in Scenario, Group(s) \/ CancelScenario(s) PROVE IInv'
  BY <1>2, GroupIInv
<1>3. CASE UNCHANGED vars
  <2>1. UNCHANGED <<pc, conv, replayed, requests, out, passes, fails, decided,
                    group, result, slots, responses>>
    BY <1>3 DEF vars, taskVars, tallyVars, groupVars
  <2>2. TypeOK'
    BY <2>1 DEF IInv, TypeOK
  <2>3. OutcomeAtEnd' /\ SlotsConserved' /\ DecisionsJustified' /\ SkipsJustified'
    BY <2>1 DEF IInv, OutcomeAtEnd, SlotsConserved, DecisionsJustified, SkipsJustified
  <2>4. TallyExact'
    BY <2>1 DEF IInv, TallyExact, CountOf
  <2>5. CancelsJustified' /\ EndsComplete' /\ StopsReported'
    BY <2>1 DEF IInv, CancelsJustified, EndsComplete, AllOver, StopsReported
  <2>6. QED
    BY <2>2, <2>3, <2>4, <2>5 DEF IInv
<1>4. QED
  BY <1>1, <1>2, <1>3 DEF Next

(* The invariant holds in every state of the runner (run_with and its tasks). *)
THEOREM RunnerInvariant == Spec => []IInv
BY InitIInv, NextIInv, PTL DEF Spec

(* Every variable keeps its type, and free permits are never negative. *)
THEOREM TypeCorrect == Spec => []TypeOK
<1>1. IInv => TypeOK
  BY DEF IInv
<1>2. QED
  BY <1>1, RunnerInvariant, PTL

(***************************************************************************)
(* At most run.concurrency requests are in flight, whatever becomes of     *)
(* them (Runner._send, under target_slots).                                *)
(***************************************************************************)
THEOREM SlotsNeverLeak == Spec => []SlotsConserved
<1>1. IInv => SlotsConserved
  BY DEF IInv
<1>2. QED
  BY <1>1, RunnerInvariant, PTL

(* The Stopper's running tally is the one the result counts at the end. *)
THEOREM TallyMatchesRecords == Spec => []TallyExact
<1>1. IInv => TallyExact
  BY DEF IInv
<1>2. QED
  BY <1>1, RunnerInvariant, PTL

(***************************************************************************)
(* A result says early_stopped exactly if an attempt was skipped, and none *)
(* is when the gate is on the corrected rate (RunConfig.early_stop_for).   *)
(***************************************************************************)
THEOREM StopsAreReported == Spec => []StoppedIffSkipped
<1>1. IInv => StoppedIffSkipped
  BY DEF IInv, StopsReported, SkipsJustified, DecisionsJustified, MayStop, StoppedIffSkipped
<1>2. QED
  BY <1>1, RunnerInvariant, PTL
-----------------------------------------------------------------------------
(***************************************************************************)
(* The requests.  Each step of a conversation was sent or replayed, never  *)
(* both, and one more request was sent if the target failed; the bound on  *)
(* the conversation is what the dry run plans for an attempt.              *)
(***************************************************************************)
Errors(a) == IF out[a] = "transport_error" THEN 1 ELSE 0

Accounted(s, a) ==
  /\ Len(conv[a]) <= Len(Script[s])
  /\ pc[a] = "new" => conv[a] = <<>>
  /\ pc[a] \in {"queued", "sending"} \/ out[a] = "transport_error" => Len(conv[a]) < Len(Script[s])
  /\ \/ pc[a] = "judging"
     \/ pc[a] = "recorded" /\ out[a] # "transport_error"
     => Len(conv[a]) = Len(Script[s])
  /\ replayed[a] \subseteq 1 .. Len(conv[a])
  /\ ~Replay => replayed[a] = {}
  /\ Len(requests[a]) + Cardinality(replayed[a]) = Len(conv[a]) + Errors(a)

Accounts == \A s \in Scenario : \A a \in AttemptsOf(s) : Accounted(s, a)

(* Replaying extends a conversation, to the end of the script at most. *)
LEMMA ReplayedExtends ==
  ASSUME NEW s \in Scenario, NEW a, NEW c \in Seq(Text), NEW d \in ReplayedFrom(s, a, c)
  PROVE  /\ d \in Seq(Text) /\ Len(c) <= Len(d) /\ Len(d) <= Len(Script[s])
         /\ ~Replay => d = c
<1>1. PICK n \in 0 .. (Len(Script[s]) - Len(c)) : \E x \in [1 .. n -> Text] : d = c \o x
  BY DEF ReplayedFrom, Extensions
<1>2. Len(Script[s]) \in Nat /\ Len(c) \in Nat /\ n \in Nat
  BY <1>1, RunnerAssumption
<1>3. PICK x \in [1 .. n -> Text] : d = c \o x
  BY <1>1
<1>4. x \in Seq(Text) /\ Len(x) = n
  BY <1>2, IsASeq, LenProperties
<1>5. Len(d) = Len(c) + n
  BY <1>3, <1>4, ConcatProperties
<1>6. ~Replay => d = c
  BY DEF ReplayedFrom
<1>7. QED
  BY <1>1, <1>2, <1>5, <1>6, ReplayedType

(* Going on replays the next responses in order, and none twice. *)
LEMMA ProceedExtends ==
  ASSUME TypeOK, NEW s \in Scenario, NEW a \in Attempt, NEW c \in Seq(Text), NEW reqs, NEW free,
         Proceed(s, a, c, reqs, free)
  PROVE  \E d \in Seq(Text) :
           /\ Len(c) <= Len(d) /\ Len(d) <= Len(Script[s])
           /\ conv' = [conv EXCEPT ![a] = d]
           /\ replayed' = [replayed EXCEPT ![a] = @ \cup ((Len(c) + 1) .. Len(d))]
           /\ pc'[a] \in {"queued", "sending"} => Len(d) < Len(Script[s])
           /\ pc'[a] \in {"judging", "recorded"} => Len(d) = Len(Script[s])
           /\ pc'[a] # "new" /\ out'[a] \in {out[a], "checks", "latency"}
           /\ ~Replay => d = c
<1>1. PICK d \in ReplayedFrom(s, a, c) :
        /\ conv' = [conv EXCEPT ![a] = d]
        /\ replayed' = [replayed EXCEPT ![a] = @ \cup ((Len(c) + 1) .. Len(d))]
        /\ IF Len(d) < Len(Script[s])
             THEN Acquire(a, free) /\ UNCHANGED <<out, tallyVars>>
             ELSE Checked(s, a, reqs) /\ slots' = free
  BY DEF Proceed
<1>2. CASE Len(d) < Len(Script[s])
  <2>1. UNCHANGED out /\ \E p \in {"queued", "sending"} : pc' = [pc EXCEPT ![a] = p]
    BY <1>1, <1>2 DEF Acquire
  <2>2. pc'[a] \in {"queued", "sending"}
    BY <2>1 DEF TypeOK
  <2>3. QED
    BY <1>1, <1>2, <2>1, <2>2, ReplayedExtends
<1>3. CASE ~(Len(d) < Len(Script[s]))
  <2>1. Checked(s, a, reqs)
    BY <1>1, <1>3
  <2>2. /\ \E p \in {"raised", "recorded", "judging"} : pc' = [pc EXCEPT ![a] = p]
        /\ out' = out \/ \E o \in {"checks", "latency"} : out' = [out EXCEPT ![a] = o]
    BY <2>1 DEF Checked, Raised, Recorded
  <2>3. pc'[a] \in {"raised", "recorded", "judging"} /\ out'[a] \in {out[a], "checks", "latency"}
    BY <2>2 DEF TypeOK
  <2>4. Len(d) \in Nat /\ Len(d) = Len(Script[s])
    BY <1>1, <1>3, ReplayedExtends, RunnerAssumption
  <2>5. QED
    BY <1>1, <2>3, <2>4, ReplayedExtends
<1>4. QED
  BY <1>2, <1>3

(* Sets of indices are finite. *)
LEMMA IndicesFinite ==
  ASSUME NEW n \in Nat, NEW R, R \subseteq 1 .. n
  PROVE  IsFiniteSet(R) /\ Cardinality(R) \in Nat
<1>1. IsFiniteSet(1 .. n) /\ R \in SUBSET (1 .. n)
  BY FS_Interval
<1>2. QED
  BY <1>1, FS_Subset, FS_CardinalityType

(* The steps replayed of n, and those with the steps after m up to k. *)
Steps(n) == SUBSET (1 .. n)

Through(R, m, k) == R \cup ((m + 1) .. k)

(* Replaying the steps after m adds just those to the count. *)
LEMMA ReplayedCounted ==
  ASSUME NEW n \in Nat, NEW m \in Nat, NEW k \in Nat, n <= m, m <= k, NEW R \in Steps(n)
  PROVE  /\ Through(R, m, k) \in Steps(k)
         /\ Cardinality(R) \in Nat
         /\ Cardinality(Through(R, m, k)) = Cardinality(R) + (k - m)
<1> USE DEF Steps, Through
<1>1. IsFiniteSet(R) /\ Cardinality(R) \in Nat
  BY IndicesFinite
<1>2. IsFiniteSet((m + 1) .. k) /\ Cardinality((m + 1) .. k) = k - m
  <2>1. m + 1 \in Int /\ k \in Int
    OBVIOUS
  <2>2. IsFiniteSet((m + 1) .. k) /\ Cardinality((m + 1) .. k) = IF m + 1 > k THEN 0 ELSE k - (m + 1) + 1
    BY <2>1, FS_Interval
  <2>3. QED
    BY <2>2
<1>3. R \cap ((m + 1) .. k) = {}
  OBVIOUS
<1>4. Cardinality(R \cup ((m + 1) .. k)) = Cardinality(R) + Cardinality((m + 1) .. k)
  BY <1>1, <1>2, <1>3, DisjointUnion
<1>5. QED
  BY <1>1, <1>2, <1>4

(* An attempt under way has no outcome, and its conversation has a length. *)
LEMMA UnderWay ==
  ASSUME IInv, NEW s \in Scenario, NEW a \in AttemptsOf(s)
  PROVE  /\ a \in Attempt /\ Len(conv[a]) \in Nat /\ Len(requests[a]) \in Nat
         /\ Len(Script[s]) \in Nat \ {0}
         /\ pc[a] \in Live => out[a] = "none"
<1>1. a \in Attempt
  BY AttemptsCounted
<1>2. conv[a] \in Seq(Text) /\ requests[a] \in Seq(Latency)
  BY <1>1 DEF IInv, TypeOK
<1>3. QED
  BY <1>1, <1>2, RunnerAssumption DEF IInv, OutcomeAtEnd, Live

(* Every step of an attempt keeps its own account. *)
LEMMA StepAccounted ==
  ASSUME IInv, NEW s \in Scenario, NEW a \in AttemptsOf(s), Accounted(s, a), Step(s, a)
  PROVE  Accounted(s, a)'
<1>1. /\ TypeOK /\ a \in Attempt /\ Len(conv[a]) \in Nat /\ Len(requests[a]) \in Nat
      /\ Len(Script[s]) \in Nat \ {0}
  BY UnderWay DEF IInv
<1>2. pc[a] \in Live /\ out[a] = "none" /\ pc' = [pc EXCEPT ![a] = pc'[a]]
  BY <1>1, StepEffect, UnderWay DEF Effect
<1>3. Errors(a) = 0 /\ Len(requests[a]) + Cardinality(replayed[a]) = Len(conv[a])
  BY <1>1, <1>2 DEF Errors, Accounted
<1>4. CASE \/ SkipNew(s, a) \/ SkipQueued(s, a) \/ Send(s, a) \/ Misconfigured(s, a)
           \/ Judged(s, a) \/ JudgeCrashed(s, a) \/ FailedLate(s, a) \/ CancelTask(s, a)
  <2>1. UNCHANGED <<conv, replayed, requests>>
    BY <1>4 DEF SkipNew, SkipQueued, Send, Misconfigured, Judged, JudgeCrashed, FailedLate, CancelTask
  <2>2. /\ \/ pc[a] = "queued" /\ pc' = [pc EXCEPT ![a] = "sending"]
           \/ \E p \in Over : pc' = [pc EXCEPT ![a] = p]
        /\ out' = out \/ \E o \in {"pass", "fail", "judge_error"} : out' = [out EXCEPT ![a] = o]
    BY <1>4 DEF SkipNew, SkipQueued, Send, Misconfigured, Judged, JudgeCrashed, FailedLate, CancelTask,
                Raised, Recorded, At, Over
  <2>3. /\ pc'[a] # "new" /\ (pc'[a] \in {"queued", "sending"} => pc[a] = "queued")
        /\ out'[a] # "transport_error" /\ (pc'[a] \in {"judging", "recorded"} => pc[a] = "judging")
    <3>1. pc'[a] \in {"judging", "recorded"} => pc[a] = "judging"
      <4>1. CASE SkipNew(s, a) \/ SkipQueued(s, a) \/ CancelTask(s, a)
        BY <1>1, <4>1 DEF SkipNew, SkipQueued, CancelTask, TypeOK
      <4>2. CASE Send(s, a)
        BY <1>1, <4>2 DEF Send, TypeOK
      <4>3. CASE Misconfigured(s, a)
        BY <1>1, <4>3 DEF Misconfigured, Raised, TypeOK
      <4>4. CASE Judged(s, a) \/ JudgeCrashed(s, a) \/ FailedLate(s, a)
        BY <4>4 DEF Judged, JudgeCrashed, FailedLate, At
      <4>5. QED
        BY <1>4, <4>1, <4>2, <4>3, <4>4
    <3>2. QED
      BY <1>1, <1>2, <2>2, <3>1 DEF TypeOK, Over
  <2>4. QED
    BY <1>1, <1>3, <2>1, <2>3 DEF Accounted, Errors
<1>5. CASE Start(s, a)
  <2> DEFINE c == <<>>
  <2>1. /\ pc[a] = "new" /\ UNCHANGED requests
        /\ c \in Seq(Text) /\ Len(c) = 0 /\ Proceed(s, a, c, <<>>, slots)
    BY <1>5 DEF Start, At
  <2> HIDE DEF c
  <2>2. PICK d \in Seq(Text) :
           /\ Len(c) <= Len(d) /\ Len(d) <= Len(Script[s])
           /\ conv' = [conv EXCEPT ![a] = d]
           /\ replayed' = [replayed EXCEPT ![a] = @ \cup ((Len(c) + 1) .. Len(d))]
           /\ pc'[a] \in {"queued", "sending"} => Len(d) < Len(Script[s])
           /\ pc'[a] \in {"judging", "recorded"} => Len(d) = Len(Script[s])
           /\ pc'[a] # "new" /\ out'[a] \in {out[a], "checks", "latency"}
           /\ ~Replay => d = c
    BY <1>1, <2>1, ProceedExtends
  <2>3. conv[a] = <<>> /\ replayed[a] \subseteq 1 .. 0
    BY <2>1 DEF Accounted
  <2>4. conv'[a] = d /\ replayed'[a] = replayed[a] \cup ((Len(c) + 1) .. Len(d)) /\ Len(d) \in Nat
    BY <1>1, <2>2 DEF TypeOK
  <2>5. /\ replayed'[a] \subseteq 1 .. Len(d) /\ Cardinality(replayed[a]) \in Nat
        /\ Cardinality(replayed'[a]) = Cardinality(replayed[a]) + (Len(d) - Len(c))
    <3> DEFINE n == 0  m == Len(c)  k == Len(d)  r == replayed[a]
    <3>1. /\ n \in Nat /\ m \in Nat /\ k \in Nat /\ n <= m /\ m <= k
          /\ r \in Steps(n)
      BY <2>1, <2>2, <2>3, <2>4 DEF Steps
    <3>2. replayed'[a] = Through(r, m, k)
      BY <2>4 DEF Through
    <3> HIDE DEF n, m, k, r
    <3>3. /\ Through(r, m, k) \in Steps(k) /\ Cardinality(r) \in Nat
          /\ Cardinality(Through(r, m, k)) = Cardinality(r) + (k - m)
      BY ONLY <3>1, ReplayedCounted
    <3>4. QED
      BY <3>2, <3>3 DEF m, k, r, Steps
  <2>6. Errors(a)' = 0 /\ (~Replay => replayed'[a] = {})
    BY <1>2, <2>1, <2>2, <2>3, <2>4 DEF Errors, Accounted
  <2>7. Len(requests'[a]) + Cardinality(replayed'[a]) = Len(conv'[a]) + Errors(a)'
    BY <1>1, <1>3, <2>1, <2>3, <2>4, <2>5, <2>6
  <2>8. QED
    BY <1>2, <2>2, <2>4, <2>5, <2>6, <2>7 DEF Accounted
<1>6. CASE Answered(s, a)
  <2>1. PICK t \in Text, d0 \in {"fast", "slow"} :
          /\ requests' = Requested(a, d0)
          /\ Proceed(s, a, Append(conv[a], t), Requested(a, d0)[a], Released(a))
    BY <1>6 DEF Answered
  <2> DEFINE c == Append(conv[a], t)
  <2>2. c \in Seq(Text) /\ Len(c) = Len(conv[a]) + 1
    BY <1>1 DEF TypeOK
  <2> HIDE DEF c
  <2>3. PICK d \in Seq(Text) :
           /\ Len(c) <= Len(d) /\ Len(d) <= Len(Script[s])
           /\ conv' = [conv EXCEPT ![a] = d]
           /\ replayed' = [replayed EXCEPT ![a] = @ \cup ((Len(c) + 1) .. Len(d))]
           /\ pc'[a] \in {"queued", "sending"} => Len(d) < Len(Script[s])
           /\ pc'[a] \in {"judging", "recorded"} => Len(d) = Len(Script[s])
           /\ pc'[a] # "new" /\ out'[a] \in {out[a], "checks", "latency"}
           /\ ~Replay => d = c
    BY <1>1, <2>1, <2>2, ProceedExtends DEF c
  <2>4. /\ conv'[a] = d /\ replayed'[a] = replayed[a] \cup ((Len(c) + 1) .. Len(d))
        /\ Len(d) \in Nat /\ Len(requests'[a]) = Len(requests[a]) + 1
    BY <1>1, <2>1, <2>3 DEF TypeOK, Requested
  <2>5. replayed[a] \subseteq 1 .. Len(conv[a])
    BY DEF Accounted
  <2>6. /\ replayed'[a] \subseteq 1 .. Len(d) /\ Cardinality(replayed[a]) \in Nat
        /\ Cardinality(replayed'[a]) = Cardinality(replayed[a]) + (Len(d) - Len(c))
    <3> DEFINE n == Len(conv[a])  m == Len(c)  k == Len(d)  r == replayed[a]
    <3>1. /\ n \in Nat /\ m \in Nat /\ k \in Nat /\ n <= m /\ m <= k
          /\ r \in Steps(n)
      BY <1>1, <2>2, <2>3, <2>4, <2>5 DEF Steps
    <3>2. replayed'[a] = Through(r, m, k)
      BY <2>4 DEF Through
    <3> HIDE DEF n, m, k, r
    <3>3. /\ Through(r, m, k) \in Steps(k) /\ Cardinality(r) \in Nat
          /\ Cardinality(Through(r, m, k)) = Cardinality(r) + (k - m)
      BY ONLY <3>1, ReplayedCounted
    <3>4. QED
      BY <3>2, <3>3 DEF m, k, r, Steps
  <2>7. Errors(a)' = 0 /\ (~Replay => replayed'[a] = {})
    BY <1>1, <1>2, <2>2, <2>3, <2>4 DEF Errors, Accounted
  <2>8. Len(requests'[a]) + Cardinality(replayed'[a]) = Len(conv'[a]) + Errors(a)'
    <3>1. /\ Len(requests[a]) + Cardinality(replayed[a]) = Len(conv[a])
          /\ Len(requests[a]) \in Nat /\ Len(conv[a]) \in Nat
      BY <1>1, <1>3, <2>2, <2>6
    <3>2. /\ Len(requests'[a]) = Len(requests[a]) + 1 /\ Len(conv'[a]) = Len(d)
          /\ Len(c) = Len(conv[a]) + 1
      BY <2>2, <2>4
    <3>3. QED
      <4> DEFINE sent == Len(requests[a])  said == Len(conv[a])  kept == Cardinality(replayed[a])
                 says == Len(d)
      <4>1. /\ sent \in Nat /\ said \in Nat /\ kept \in Nat /\ says \in Nat /\ sent + kept = said
            /\ Cardinality(replayed'[a]) = kept + (says - (said + 1))
        BY <2>4, <2>6, <3>1, <3>2
      <4> HIDE DEF sent, said, kept, says
      <4>2. (sent + 1) + (kept + (says - (said + 1))) = says + 0
        BY ONLY <4>1
      <4>3. QED
        BY <2>7, <3>2, <4>1, <4>2 DEF sent, says
  <2>9. QED
    BY <1>2, <2>3, <2>4, <2>6, <2>7, <2>8 DEF Accounted
<1>7. CASE Failed(s, a)
  <2>1. /\ pc[a] = "sending" /\ UNCHANGED <<conv, replayed>>
        /\ requests' = Requested(a, "error") /\ Recorded(s, a, "transport_error")
    BY <1>7 DEF Failed, At
  <2>2. pc'[a] = "recorded" /\ out'[a] = "transport_error"
    BY <1>1, <2>1 DEF Recorded, TypeOK
  <2>3. Len(requests'[a]) = Len(requests[a]) + 1 /\ Errors(a)' = 1
    BY <1>1, <2>1, <2>2 DEF TypeOK, Requested, Errors
  <2>4. Cardinality(replayed[a]) \in Nat
    <3>1. replayed[a] \subseteq 1 .. Len(conv[a])
      BY DEF Accounted
    <3>2. QED
      BY <1>1, <3>1, IndicesFinite
  <2>5. Len(requests'[a]) + Cardinality(replayed'[a]) = Len(conv'[a]) + Errors(a)'
    <3>1. /\ Len(requests[a]) + Cardinality(replayed[a]) = Len(conv[a])
          /\ Len(requests[a]) \in Nat /\ Len(conv[a]) \in Nat
      BY <1>1, <1>3, <2>1, <2>4
    <3>2. Cardinality(replayed'[a]) = Cardinality(replayed[a]) /\ Len(conv'[a]) = Len(conv[a])
      BY <2>1
    <3>3. QED
      BY ONLY <2>3, <2>4, <3>1, <3>2
  <2>6. QED
    BY <2>1, <2>2, <2>5 DEF Accounted
<1>8. QED
  BY <1>4, <1>5, <1>6, <1>7 DEF Step

(* A step of a leaves the conversation of every other attempt alone. *)
LEMMA ConversationIsLocal ==
  ASSUME TypeOK, NEW s \in Scenario, NEW a \in AttemptsOf(s), Step(s, a),
         NEW b \in Attempt, b # a
  PROVE  UNCHANGED <<pc[b], conv[b], replayed[b], requests[b], out[b]>>
<1>1. a \in Attempt
  BY AttemptsCounted
<1>2. pc'[b] = pc[b] /\ out'[b] = out[b]
  BY StepEffect, EffectIsLocal
<1>3. CASE Start(s, a) \/ Answered(s, a)
  <2>1. /\ \E c, reqs, free : Proceed(s, a, c, reqs, free)
        /\ requests' = requests \/ \E d : requests' = Requested(a, d)
    BY <1>3 DEF Start, Answered
  <2>2. QED
    BY <1>2, <2>1 DEF Proceed, Requested, TypeOK
<1>4. CASE ~(Start(s, a) \/ Answered(s, a))
  <2>1. UNCHANGED <<conv, replayed>> /\ requests'[b] = requests[b]
    BY <1>4 DEF Step, SkipNew, SkipQueued, Send, Failed, Requested, Misconfigured, Judged,
                JudgeCrashed, FailedLate, CancelTask, TypeOK
  <2>2. QED
    BY <1>2, <2>1
<1>5. QED
  BY <1>3, <1>4

(* Every step keeps the accounts of all attempts. *)
LEMMA AccountsStep ==
  ASSUME IInv, Accounts, [Next]_vars
  PROVE  Accounts'
<1>1. ASSUME NEW s \in Scenario, NEW a \in AttemptsOf(s), Step(s, a)
      PROVE  Accounts'
  <2> SUFFICES ASSUME NEW t \in Scenario, NEW b \in AttemptsOf(t)
               PROVE  Accounted(t, b)'
    BY DEF Accounts, AttemptsOf
  <2>1. CASE b = a
    <3>1. t = s
      BY <2>1, AttemptsDisjoint
    <3>2. QED
      BY <1>1, <2>1, <3>1, StepAccounted DEF Accounts
  <2>2. CASE b # a
    <3>1. UNCHANGED <<pc[b], conv[b], replayed[b], requests[b], out[b]>>
      BY <1>1, <2>2, AttemptsCounted, ConversationIsLocal DEF IInv
    <3>2. QED
      BY <3>1 DEF Accounts, Accounted, Errors
  <2>3. QED
    BY <2>1, <2>2
<1>2. CASE UNCHANGED taskVars
  BY <1>2 DEF taskVars, Accounts, Accounted, Errors, AttemptsOf
<1>3. ASSUME NEW s \in Scenario, Group(s) \/ CancelScenario(s)
      PROVE  Accounts'
  BY <1>2, <1>3 DEF Group, AbortGroup, GiveUp, Finish, CancelScenario
<1>4. QED
  BY <1>1, <1>2, <1>3 DEF Next, vars

(* The accounts hold at the start. *)
LEMMA InitAccounts == Init => Accounts
<1> SUFFICES ASSUME Init, NEW s \in Scenario, NEW a \in AttemptsOf(s)
             PROVE  Accounted(s, a)
  BY DEF Accounts
<1>1. a \in Attempt /\ Len(Script[s]) \in Nat \ {0}
  BY AttemptsCounted, RunnerAssumption
<1>2. /\ pc[a] = "new" /\ conv[a] = <<>> /\ replayed[a] = {} /\ requests[a] = <<>>
      /\ out[a] = "none"
  BY <1>1 DEF Init
<1>3. QED
  BY <1>1, <1>2, FS_EmptySet DEF Accounted, Errors

(* The accounts hold in every state. *)
LEMMA RequestsInvariant == Spec => []Accounts
BY InitAccounts, AccountsStep, RunnerInvariant, PTL DEF Spec

(***************************************************************************)
(* A record has one request per step that was sent, none for a replayed    *)
(* one, and one for the step at which the target failed.                   *)
(***************************************************************************)
THEOREM RequestsAreAccounted == Spec => []RequestsAccountForSteps
<1>1. Accounts => RequestsAccountForSteps
  BY DEF Accounts, Accounted, Errors, RequestsAccountForSteps, Attempt
<1>2. QED
  BY <1>1, RequestsInvariant, PTL

(***************************************************************************)
(* A sum over all attempts of what is the same for every attempt of a      *)
(* scenario is a sum over the scenarios, once per run.                     *)
(***************************************************************************)
LEMMA SumPerScenario ==
  ASSUME NEW f, NEW w, \A s \in Scenario : w[s] \in Nat /\ \A a \in AttemptsOf(s) : f[a] = w[s],
         NEW g, \A s \in Scenario : g[s] = Runs[s] * w[s]
  PROVE  SumFunctionOnSet(f, Attempt) = SumFunctionOnSet(g, Scenario)
<1> DEFINE A == [s \in Scenario |-> AttemptsOf(s)]
<1>1. \A s \in Scenario : IsFiniteSet(A[s])
  BY AttemptsCounted
<1>2. \A s \in Scenario, t \in Scenario : s # t => A[s] \cap A[t] = {}
  BY AttemptsDisjoint
<1>3. \A s \in Scenario : \A a \in A[s] : f[a] = w[s] /\ f[a] \in Nat
  OBVIOUS
<1>4. ASSUME NEW s \in Scenario
      PROVE  g[s] = SumFunctionOnSet(f, A[s])
  <2>1. w[s] \in Nat /\ \A a \in A[s] : f[a] = w[s]
    BY <1>3
  <2>2. IsFiniteSet(A[s])
    BY <1>1
  <2>3. Cardinality(A[s]) = Runs[s]
    BY AttemptsCounted
  <2> HIDE DEF A
  <2>4. SumFunctionOnSet(f, A[s]) = Cardinality(A[s]) * w[s]
    BY <2>1, <2>2, SumConstant
  <2>5. QED
    BY <2>3, <2>4
<1>5. Attempt = UNION {A[s] : s \in Scenario}
  BY DEF Attempt
<1>6. IsFiniteSet(Scenario) /\ \A s \in Scenario : \A a \in A[s] : f[a] \in Nat
  BY <1>3, RunnerAssumption
<1> HIDE DEF A
<1>7. SumFunctionOnSet(f, UNION {A[s] : s \in Scenario}) = SumFunctionOnSet(g, Scenario)
  BY <1>1, <1>2, <1>4, <1>6, SumFamily
<1>8. QED
  BY <1>5, <1>7

(* The messages of an attempt's scenario, and one for each attempt. *)
Messages == [a \in Attempt |-> Len(Script[a[1]])]

Ones == [a \in Attempt |-> 1]

(***************************************************************************)
(* What the dry run plans is, for each attempt, a request per message of   *)
(* its scenario, and a call of the judge per vote.                         *)
(***************************************************************************)
LEMMA PlannedPerAttempt ==
  /\ Planned = SumFunctionOnSet(Messages, Attempt)
  /\ PlannedCalls(Scenario, Runs, Votes) = Votes * SumFunctionOnSet(Ones, Attempt)
<1>1. Planned = SumFunctionOnSet(Messages, Attempt)
  <2> DEFINE w == [s \in Scenario |-> Len(Script[s])]
             g == [s \in Scenario |-> Runs[s] * Len(Script[s])]
  <2>1. \A s \in Scenario : w[s] \in Nat /\ \A a \in AttemptsOf(s) : Messages[a] = w[s]
    BY AttemptsCounted, RunnerAssumption DEF Messages, AttemptsOf
  <2>2. \A s \in Scenario : g[s] = Runs[s] * w[s]
    OBVIOUS
  <2>3. Planned = SumFunctionOnSet(g, Scenario)
    BY DEF Planned, PlannedRequests, SumFunction
  <2> HIDE DEF w, g
  <2>4. QED
    BY <2>1, <2>2, <2>3, SumPerScenario
<1>2. SumFunctionOnSet(Ones, Attempt) = SumFunctionOnSet(Runs, Scenario)
  <2> DEFINE w == [s \in Scenario |-> 1]
  <2>1. \A s \in Scenario : w[s] \in Nat /\ \A a \in AttemptsOf(s) : Ones[a] = w[s]
    BY AttemptsCounted DEF Ones
  <2>2. \A s \in Scenario : Runs[s] = Runs[s] * w[s]
    BY RunnerAssumption
  <2> HIDE DEF w
  <2>3. QED
    BY <2>1, <2>2, SumPerScenario
<1>3. SumFunctionOnSet(Runs, Scenario) \in Nat
  BY RunnerAssumption, SumLaws
<1>4. QED
  BY <1>1, <1>2, <1>3, PlanningAssumption DEF PlannedCalls, PlannedAttempts

(***************************************************************************)
(* What has been made of an attempt.  Its calls are the requests recorded, *)
(* and the one in flight; one that was cancelled or raised may have lost   *)
(* that record.  Every call but the last was sent again Retries times at   *)
(* most, and the last one tries times.  It asks for its votes once.        *)
(***************************************************************************)
ToJudge == {"pass", "fail", "judge_error"}

Spent(s, a) ==
  /\ calls[a] \in Nat /\ tries[a] \in Nat /\ resent[a] \in Nat /\ gathered[a] \in Nat
  /\ Len(requests[a]) <= calls[a] /\ calls[a] <= Len(Script[s])
  /\ pc[a] \in {"new", "queued", "judging", "recorded", "skipped"} => calls[a] = Len(requests[a])
  /\ pc[a] = "sending" => calls[a] = Len(requests[a]) + 1
  /\ tries[a] <= Retries
  /\ calls[a] = 0 => resent[a] = 0
  /\ calls[a] > 0 => resent[a] + Retries <= calls[a] * Retries + tries[a]
  /\ gathered[a] <= 1
  /\ pc[a] \in {"new", "queued", "sending"} => gathered[a] = 0
  /\ pc[a] = "judging" \/ out[a] \in ToJudge => gathered[a] = 1

Spending ==
  /\ \A s \in Scenario : \A a \in AttemptsOf(s) : Spent(s, a)
  /\ calls \in [Attempt -> Nat] /\ tries \in [Attempt -> Nat]
  /\ resent \in [Attempt -> Nat] /\ gathered \in [Attempt -> Nat]

(* Where a step takes an attempt, and what it does to its requests. *)
LEMMA StepSpends ==
  ASSUME IInv, NEW s \in Scenario, NEW a \in AttemptsOf(s), Accounted(s, a), Step(s, a)
  PROVE  /\ pc[a] \in Live /\ pc'[a] # "new"
         /\ pc'[a] = "sending" => pc[a] \in {"new", "queued", "sending"}
         /\ pc'[a] = "queued" => pc[a] \in {"new", "sending"}
         /\ pc'[a] = "judging" => pc[a] \in {"new", "sending"}
         /\ pc'[a] = "skipped" => pc[a] \in {"new", "queued"}
         /\ out'[a] \in ToJudge => pc[a] = "judging"
         /\ pc[a] # "sending" => requests'[a] = requests[a]
         /\ pc[a] = "sending" => \/ Len(requests'[a]) = Len(requests[a]) + 1
                                 \/ pc'[a] \in {"raised", "cancelled"} /\ requests'[a] = requests[a]
<1>1. TypeOK /\ a \in Attempt /\ Len(requests[a]) \in Nat /\ Len(conv[a]) \in Nat
  BY UnderWay DEF IInv
<1>2. pc[a] \in Live /\ out[a] = "none" /\ out[a] \notin ToJudge
  BY <1>1, StepEffect, UnderWay DEF Effect, ToJudge
<1>3. CASE SkipNew(s, a) \/ SkipQueued(s, a) \/ Send(s, a) \/ Misconfigured(s, a)
           \/ JudgeCrashed(s, a) \/ CancelTask(s, a)
  <2>1. UNCHANGED <<requests, out>>
    BY <1>3 DEF SkipNew, SkipQueued, Send, Misconfigured, JudgeCrashed, CancelTask, Raised
  <2>2. \/ pc[a] = "new" /\ pc'[a] = "skipped"
        \/ pc[a] = "queued" /\ pc'[a] \in {"skipped", "sending"}
        \/ pc'[a] \in {"raised", "cancelled"}
    BY <1>1, <1>3 DEF SkipNew, SkipQueued, Send, Misconfigured, JudgeCrashed, CancelTask, Raised,
                      At, TypeOK
  <2>3. QED
    BY <1>2, <2>1, <2>2
<1>4. CASE Judged(s, a) \/ FailedLate(s, a)
  <2>1. pc[a] = "judging" /\ UNCHANGED requests /\ pc'[a] \in {"recorded", "raised"}
    BY <1>1, <1>4 DEF Judged, FailedLate, Recorded, Raised, At, TypeOK
  <2>2. QED
    BY <1>2, <2>1
<1>5. CASE Failed(s, a)
  <2>1. pc[a] = "sending" /\ requests' = Requested(a, "error") /\ Recorded(s, a, "transport_error")
    BY <1>5 DEF Failed, At
  <2>2. pc'[a] = "recorded" /\ out'[a] = "transport_error"
    BY <1>1, <2>1 DEF Recorded, TypeOK
  <2>3. Len(requests'[a]) = Len(requests[a]) + 1
    BY <1>1, <2>1 DEF TypeOK, Requested
  <2>4. QED
    BY <1>2, <2>1, <2>2, <2>3 DEF ToJudge
<1>6. ASSUME NEW c \in Seq(Text), NEW reqs, NEW free, Proceed(s, a, c, reqs, free)
      PROVE  /\ pc'[a] \in {"queued", "sending", "raised", "recorded", "judging"}
             /\ out'[a] \notin ToJudge
  <2>1. \/ Acquire(a, free) /\ UNCHANGED <<out, tallyVars>>
        \/ Checked(s, a, reqs)
    BY <1>6 DEF Proceed
  <2>2. CASE Acquire(a, free) /\ UNCHANGED <<out, tallyVars>>
    <3>1. \E p \in {"queued", "sending"} : pc' = [pc EXCEPT ![a] = p]
      BY <2>2 DEF Acquire
    <3>2. QED
      BY <1>1, <1>2, <2>2, <3>1 DEF TypeOK
  <2>3. CASE Checked(s, a, reqs)
    <3>1. /\ \E p \in {"raised", "recorded", "judging"} : pc' = [pc EXCEPT ![a] = p]
          /\ out' = out \/ \E o \in {"checks", "latency"} : out' = [out EXCEPT ![a] = o]
      BY <2>3 DEF Checked, Raised, Recorded
    <3>2. QED
      BY <1>1, <1>2, <3>1 DEF TypeOK, ToJudge
  <2>4. QED
    BY <2>1, <2>2, <2>3
<1>7. CASE Start(s, a)
  <2> DEFINE c == <<>>
  <2>1. pc[a] = "new" /\ UNCHANGED requests /\ c \in Seq(Text) /\ Proceed(s, a, c, <<>>, slots)
    BY <1>7 DEF Start, At
  <2>2. QED
    BY <1>2, <1>6, <2>1
<1>8. CASE Answered(s, a)
  <2>1. PICK t \in Text, d \in {"fast", "slow"} :
          /\ requests' = Requested(a, d)
          /\ Proceed(s, a, Append(conv[a], t), Requested(a, d)[a], Released(a))
    BY <1>8 DEF Answered
  <2>2. Append(conv[a], t) \in Seq(Text) /\ Len(requests'[a]) = Len(requests[a]) + 1
    BY <1>1, <2>1 DEF TypeOK, Requested
  <2>3. pc[a] = "sending"
    BY <1>8 DEF Answered, At
  <2>4. QED
    BY <1>2, <1>6, <2>1, <2>2, <2>3
<1>9. QED
  BY <1>3, <1>4, <1>5, <1>7, <1>8 DEF Step

(* A step of a is counted with a, and keeps what has been made of it. *)
LEMMA StepSpent ==
  ASSUME IInv, IInv', Accounts', NEW s \in Scenario, NEW a \in AttemptsOf(s),
         Accounted(s, a), Spent(s, a), Step(s, a), Spending, Counted
  PROVE  Spent(s, a)'
<1>1. /\ a \in Attempt /\ Len(requests[a]) \in Nat /\ Len(Script[s]) \in Nat \ {0}
      /\ calls[a] \in Nat /\ tries[a] \in Nat /\ resent[a] \in Nat /\ gathered[a] \in Nat
      /\ Retries \in Nat
  BY UnderWay, PlanningAssumption DEF Spent
<1>2. /\ Len(requests'[a]) \in Nat /\ Len(conv'[a]) \in Nat /\ Accounted(s, a)'
      /\ pc'[a] \in Live => out'[a] = "none"
  <2>1. conv'[a] \in Seq(Text) /\ requests'[a] \in Seq(Latency)
    BY <1>1 DEF IInv, TypeOK
  <2>2. QED
    BY <1>1, <2>1 DEF IInv, OutcomeAtEnd, Live, Accounts, AttemptsOf
<1>3. /\ calls'[a] = IF Calls(a) THEN calls[a] + 1 ELSE calls[a]
      /\ tries'[a] = IF Calls(a) THEN 0 ELSE tries[a]
      /\ gathered'[a] = IF Gathers(a) THEN gathered[a] + 1 ELSE gathered[a]
      /\ resent'[a] = resent[a]
  BY <1>1 DEF Counted
<1>4. /\ pc[a] \in Live /\ pc'[a] # "new"
      /\ pc'[a] = "sending" => pc[a] \in {"new", "queued", "sending"}
      /\ pc'[a] = "queued" => pc[a] \in {"new", "sending"}
      /\ pc'[a] = "judging" => pc[a] \in {"new", "sending"}
      /\ pc'[a] = "skipped" => pc[a] \in {"new", "queued"}
      /\ out'[a] \in ToJudge => pc[a] = "judging"
      /\ pc[a] # "sending" => requests'[a] = requests[a]
      /\ pc[a] = "sending" => \/ Len(requests'[a]) = Len(requests[a]) + 1
                              \/ pc'[a] \in {"raised", "cancelled"} /\ requests'[a] = requests[a]
  BY StepSpends
<1>5. pc'[a] = "sending" => Len(requests'[a]) < Len(Script[s])
  <2>1. ASSUME pc'[a] = "sending"
        PROVE  Len(conv'[a]) < Len(Script[s]) /\ Errors(a)' = 0 /\ Cardinality(replayed'[a]) \in Nat
    <3>1. replayed'[a] \subseteq 1 .. Len(conv'[a])
      BY <1>2 DEF Accounted
    <3>2. QED
      BY <1>2, <2>1, <3>1, IndicesFinite DEF Accounted, Errors, Live
  <2>2. Len(requests'[a]) + Cardinality(replayed'[a]) = Len(conv'[a]) + Errors(a)'
    BY <1>2 DEF Accounted
  <2>3. QED
    BY <1>1, <1>2, <2>1, <2>2
<1>6. CASE Calls(a)
  <2>1. pc'[a] = "sending" /\ ~Gathers(a) /\ Len(requests'[a]) = calls[a]
    BY <1>1, <1>4, <1>6 DEF Calls, Gathers, Spent
  <2>2. /\ calls'[a] = calls[a] + 1 /\ tries'[a] = 0 /\ gathered'[a] = 0 /\ resent'[a] = resent[a]
        /\ out'[a] = "none"
    BY <1>2, <1>3, <1>4, <1>6, <2>1 DEF Spent, Live
  <2>3. resent'[a] + Retries <= calls'[a] * Retries + tries'[a]
    <3>1. CASE calls[a] = 0
      BY <1>1, <2>2, <3>1 DEF Spent
    <3>2. CASE calls[a] > 0
      <4>1. resent[a] + Retries <= calls[a] * Retries + tries[a] /\ tries[a] <= Retries
        BY <3>2 DEF Spent
      <4>2. calls'[a] * Retries = calls[a] * Retries + Retries /\ calls[a] * Retries \in Nat
        <5> DEFINE n == calls[a]
        <5>1. n \in Nat /\ Retries \in Nat /\ calls'[a] = n + 1
          BY <1>1, <2>2
        <5> HIDE DEF n
        <5>2. (n + 1) * Retries = n * Retries + Retries /\ n * Retries \in Nat
          BY ONLY <5>1
        <5>3. QED
          BY <5>1, <5>2 DEF n
      <4>3. QED
        BY <1>1, <2>2, <4>1, <4>2
    <3>3. QED
      BY <1>1, <3>1, <3>2
  <2>4. QED
    BY <1>1, <1>2, <1>5, <2>1, <2>2, <2>3 DEF Spent, ToJudge
<1>7. CASE ~Calls(a)
  <2>1. calls'[a] = calls[a] /\ tries'[a] = tries[a] /\ resent'[a] = resent[a]
    BY <1>3, <1>7
  <2>2. pc'[a] # "sending"
    <3>1. ASSUME pc'[a] = "sending", pc[a] = "sending"
          PROVE  Calls(a)
      <4>1. Len(requests'[a]) = Len(requests[a]) + 1
        BY <1>4, <3>1
      <4>2. requests'[a] # requests[a]
        BY <1>1, <4>1
      <4>3. QED
        BY <3>1, <4>2 DEF Calls
    <3>2. QED
      BY <1>7, <3>1 DEF Calls
  <2>3. /\ Len(requests'[a]) <= calls'[a] /\ calls'[a] <= Len(Script[s])
        /\ pc'[a] \in {"queued", "judging", "recorded", "skipped"} => calls'[a] = Len(requests'[a])
    BY <1>1, <1>2, <1>4, <2>1 DEF Spent, Live
  <2>4. /\ gathered'[a] \in Nat /\ gathered'[a] <= 1
        /\ pc'[a] = "queued" => gathered'[a] = 0
        /\ pc'[a] = "judging" \/ out'[a] \in ToJudge => gathered'[a] = 1
    <3>1. CASE Gathers(a)
      <4>1. pc'[a] = "judging" /\ gathered[a] = 0
        BY <1>4, <3>1 DEF Gathers, Spent
      <4>2. QED
        BY <1>3, <3>1, <4>1
    <3>2. CASE ~Gathers(a)
      <4>1. pc'[a] # "judging"
        BY <1>4, <3>2 DEF Gathers
      <4>2. QED
        BY <1>1, <1>3, <1>4, <3>2, <4>1 DEF Spent
    <3>3. QED
      BY <3>1, <3>2
  <2>5. QED
    BY <1>1, <1>4, <2>1, <2>2, <2>3, <2>4 DEF Spent
<1>8. QED
  BY <1>6, <1>7

(* What has been made of an attempt stays if nothing of it changes. *)
LEMMA SpentStays ==
  ASSUME NEW s \in Scenario, NEW a \in Attempt, Spent(s, a),
         UNCHANGED <<pc[a], requests[a], out[a]>>,
         \/ Spending /\ Counted
         \/ UNCHANGED <<calls[a], tries[a], resent[a], gathered[a]>>
  PROVE  Spent(s, a)'
<1>1. CASE Spending /\ Counted
  <2>1. ~Calls(a) /\ ~Gathers(a)
    BY DEF Calls, Gathers
  <2>2. UNCHANGED <<calls[a], tries[a], resent[a], gathered[a]>>
    BY <1>1, <2>1 DEF Counted
  <2>3. QED
    BY <2>2 DEF Spent
<1>2. CASE UNCHANGED <<calls[a], tries[a], resent[a], gathered[a]>>
  BY <1>2 DEF Spent
<1>3. QED
  BY <1>1, <1>2

(* Sending the request of an attempt again is counted with its last call. *)
LEMMA ResendSpent ==
  ASSUME IInv, Spending, NEW s \in Scenario, NEW a \in AttemptsOf(s), Resend(s, a)
  PROVE  Spending'
<1>1. a \in Attempt /\ Retries \in Nat /\ Len(requests[a]) \in Nat
  BY UnderWay, PlanningAssumption
<1>2. /\ pc[a] = "sending" /\ tries[a] < Retries
      /\ tries' = [tries EXCEPT ![a] = @ + 1] /\ resent' = [resent EXCEPT ![a] = @ + 1]
      /\ UNCHANGED <<pc, requests, out, calls, gathered>>
  BY DEF Resend, At, vars, taskVars
<1>3. /\ calls' \in [Attempt -> Nat] /\ tries' \in [Attempt -> Nat]
      /\ resent' \in [Attempt -> Nat] /\ gathered' \in [Attempt -> Nat]
  BY <1>1, <1>2 DEF Spending
<1>4. ASSUME NEW t \in Scenario, NEW b \in AttemptsOf(t)
      PROVE  Spent(t, b)'
  <2>1. b \in Attempt /\ Spent(t, b)
    BY AttemptsCounted DEF Spending
  <2>2. CASE b = a
    <3>1. Spent(t, a) /\ tries'[a] = tries[a] + 1 /\ resent'[a] = resent[a] + 1
      BY <1>1, <1>2, <2>1, <2>2 DEF Spending
    <3>2. calls[a] \in Nat /\ calls[a] > 0
      BY <1>1, <1>2, <3>1 DEF Spent
    <3>3. resent'[a] + Retries <= calls'[a] * Retries + tries'[a] /\ tries'[a] <= Retries
      <4> DEFINE most == calls[a] * Retries
      <4>1. most \in Nat
        BY <1>1, <3>2
      <4>2. resent[a] + Retries <= most + tries[a] /\ resent[a] \in Nat /\ tries[a] \in Nat
        BY <3>1, <3>2 DEF Spent
      <4>3. calls'[a] * Retries = most
        BY <1>2
      <4> HIDE DEF most
      <4>4. QED
        BY <1>1, <1>2, <3>1, <4>1, <4>2, <4>3
    <3>4. QED
      BY <1>2, <2>2, <3>1, <3>2, <3>3 DEF Spent
  <2>3. CASE b # a
    <3>1. UNCHANGED <<pc[b], requests[b], out[b], calls[b], tries[b], resent[b], gathered[b]>>
      BY <1>2, <2>1, <2>3 DEF Spending
    <3>2. QED
      BY <2>1, <3>1, SpentStays
  <2>4. QED
    BY <2>2, <2>3
<1>5. QED
  BY <1>3, <1>4 DEF Spending, AttemptsOf

(* Every step of the run keeps what has been made of the attempts. *)
LEMMA SpendingStep ==
  ASSUME IInv, IInv', Accounts, Accounts', Spending, [PlanNext]_<<vars, planVars>>
  PROVE  Spending'
<1>1. ASSUME Next, Counted
      PROVE  Spending'
  <2>1. /\ calls' \in [Attempt -> Nat] /\ tries' \in [Attempt -> Nat]
        /\ resent' \in [Attempt -> Nat] /\ gathered' \in [Attempt -> Nat]
    BY <1>1 DEF Spending, Counted
  <2>2. ASSUME NEW t \in Scenario, NEW b \in AttemptsOf(t)
        PROVE  Spent(t, b)'
    <3>1. b \in Attempt /\ Spent(t, b)
      BY AttemptsCounted DEF Spending
    <3>2. CASE UNCHANGED <<pc[b], requests[b], out[b]>>
      BY <1>1, <3>1, <3>2, SpentStays
    <3>3. ASSUME NEW s \in Scenario, NEW a \in AttemptsOf(s), Step(s, a)
          PROVE  Spent(t, b)'
      <4>1. CASE b = a
        <5>1. t = s
          BY <4>1, AttemptsDisjoint
        <5>2. Accounted(s, a) /\ Spent(s, a)
          BY <3>1, <4>1, <5>1 DEF Accounts
        <5>3. QED
          BY <1>1, <3>3, <4>1, <5>1, <5>2, StepSpent
      <4>2. CASE b # a
        BY <3>1, <3>2, <3>3, <4>2, ConversationIsLocal DEF IInv
      <4>3. QED
        BY <4>1, <4>2
    <3>4. ASSUME NEW s \in Scenario, Group(s) \/ CancelScenario(s)
          PROVE  Spent(t, b)'
      BY <3>2, <3>4 DEF Group, AbortGroup, GiveUp, Finish, CancelScenario, taskVars
    <3>5. QED
      BY <1>1, <3>3, <3>4 DEF Next
  <2>3. QED
    BY <2>1, <2>2 DEF Spending, AttemptsOf
<1>2. CASE UNCHANGED <<vars, planVars>>
  BY <1>2 DEF vars, taskVars, planVars, Spending, Spent, AttemptsOf
<1>3. QED
  BY <1>1, <1>2, ResendSpent DEF PlanNext

(* At the start nothing has been made. *)
LEMMA InitSpending == PlanInit => Spending
<1> SUFFICES ASSUME PlanInit
             PROVE  Spending
  OBVIOUS
<1>1. ASSUME NEW s \in Scenario, NEW a \in AttemptsOf(s)
      PROVE  Spent(s, a)
  <2>1. a \in Attempt /\ Len(Script[s]) \in Nat \ {0} /\ Retries \in Nat
    BY AttemptsCounted, RunnerAssumption, PlanningAssumption
  <2>2. /\ pc[a] = "new" /\ requests[a] = <<>> /\ out[a] = "none"
        /\ calls[a] = 0 /\ tries[a] = 0 /\ resent[a] = 0 /\ gathered[a] = 0
    BY <2>1 DEF PlanInit, Init
  <2>3. QED
    BY <2>1, <2>2 DEF Spent, ToJudge
<1>2. QED
  BY <1>1 DEF PlanInit, Spending

(* A run with its requests counted is a run. *)
LEMMA PlanIsARun == PlanSpec => Spec
<1>1. PlanInit => Init
  BY DEF PlanInit
<1>2. [PlanNext]_<<vars, planVars>> => [Next]_vars
  BY DEF PlanNext, Resend
<1>3. QED
  BY <1>1, <1>2, PTL DEF PlanSpec, Spec

(* What has been made of the attempts, in every state of a run. *)
LEMMA SpendingInvariant == PlanSpec => [](IInv /\ Accounts /\ Spending)
<1>1. PlanSpec => [](IInv /\ Accounts)
  BY PlanIsARun, RunnerInvariant, RequestsInvariant, PTL
<1>2. IInv /\ IInv' /\ Accounts /\ Accounts' /\ Spending /\ [PlanNext]_<<vars, planVars>> => Spending'
  BY SpendingStep
<1>3. QED
  BY <1>1, <1>2, InitSpending, PTL DEF PlanSpec

(***************************************************************************)
(* A run calls the target, and asks the judge for votes, no more often     *)
(* than the dry run plans, and as often if every attempt is made and       *)
(* answered afresh, or judged; and it sends each call again target.retries *)
(* times at most.                                                          *)
(***************************************************************************)
THEOREM PlanIsABound == PlanSpec => []PlanCoversRun
<1>1. ASSUME IInv, Accounts, Spending
      PROVE  PlanCoversRun
  <2> DEFINE sent == [a \in Attempt |-> Len(requests[a])]
  <2>1. /\ InRecords = SumFunctionOnSet(sent, Attempt) /\ Called = SumFunctionOnSet(calls, Attempt)
        /\ Resent = SumFunctionOnSet(resent, Attempt)
        /\ VotesAsked = Votes * SumFunctionOnSet(gathered, Attempt)
    BY <1>1 DEF InRecords, Called, Resent, VotesAsked, SumFunction, Spending
  <2>2. ASSUME NEW a \in Attempt
        PROVE  /\ sent[a] \in Nat /\ calls[a] \in Nat /\ Messages[a] \in Nat
               /\ resent[a] \in Nat /\ gathered[a] \in Nat /\ Ones[a] \in Nat
               /\ sent[a] <= calls[a] /\ calls[a] <= Messages[a]
               /\ resent[a] <= calls[a] * Retries /\ gathered[a] <= Ones[a]
               /\ Uneventful(a) => calls[a] = Messages[a]
               /\ WentToJudge(a) => gathered[a] = Ones[a]
    <3>1. PICK s \in Scenario : a \in AttemptsOf(s)
      BY DEF Attempt
    <3>2. sent[a] = Len(requests[a]) /\ Messages[a] = Len(Script[s]) /\ Ones[a] = 1
      BY <3>1 DEF Messages, Ones, AttemptsOf
    <3>3. /\ Len(conv[a]) \in Nat /\ Len(requests[a]) \in Nat /\ Len(Script[s]) \in Nat \ {0}
          /\ Accounted(s, a) /\ Spent(s, a)
      BY <1>1, <3>1, UnderWay DEF Accounts, Spending
    <3>4. Uneventful(a) => calls[a] = Len(Script[s])
      <4>1. Cardinality(replayed[a]) \in Nat /\ (replayed[a] = {} => Cardinality(replayed[a]) = 0)
        BY <3>3, IndicesFinite, FS_EmptySet DEF Accounted
      <4>2. ASSUME Uneventful(a)
            PROVE  /\ Errors(a) = 0 /\ Cardinality(replayed[a]) = 0 /\ Len(conv[a]) = Len(Script[s])
                   /\ calls[a] = Len(requests[a])
        BY <3>3, <4>1, <4>2 DEF Accounted, Errors, Uneventful, Spent
      <4>3. Len(requests[a]) + Cardinality(replayed[a]) = Len(conv[a]) + Errors(a)
        BY <3>3 DEF Accounted
      <4>4. QED
        BY <3>3, <4>1, <4>2, <4>3
    <3>5. resent[a] <= calls[a] * Retries
      <4>1. calls[a] \in Nat /\ Retries \in Nat /\ resent[a] \in Nat /\ tries[a] \in Nat
        BY <3>3, PlanningAssumption DEF Spent
      <4>2. calls[a] * Retries \in Nat
        BY <4>1
      <4>3. QED
        BY <3>3, <4>1, <4>2 DEF Spent
    <3>6. WentToJudge(a) => gathered[a] = 1
      BY <3>3 DEF WentToJudge, Spent, ToJudge
    <3> HIDE DEF sent
    <3>7. QED
      BY <3>2, <3>3, <3>4, <3>5, <3>6 DEF Spent
  <2> HIDE DEF sent
  <2>3. /\ SumFunctionOnSet(sent, Attempt) <= SumFunctionOnSet(calls, Attempt)
        /\ SumFunctionOnSet(calls, Attempt) <= SumFunctionOnSet(Messages, Attempt)
        /\ SumFunctionOnSet(gathered, Attempt) <= SumFunctionOnSet(Ones, Attempt)
    BY <2>2, AttemptFinite, SumMonotone
  <2>4. SumFunctionOnSet(resent, Attempt) <= SumFunctionOnSet(calls, Attempt) * Retries
    BY <2>2, AttemptFinite, SumScaled, PlanningAssumption
  <2>5. ASSUME \A a \in Attempt : Uneventful(a)
        PROVE  SumFunctionOnSet(calls, Attempt) = SumFunctionOnSet(Messages, Attempt)
    BY <2>2, <2>5, AttemptFinite, SumSame
  <2>6. ASSUME \A a \in Attempt : WentToJudge(a)
        PROVE  SumFunctionOnSet(gathered, Attempt) = SumFunctionOnSet(Ones, Attempt)
    BY <2>2, <2>6, AttemptFinite, SumSame
  <2>7. Votes * SumFunctionOnSet(gathered, Attempt) <= Votes * SumFunctionOnSet(Ones, Attempt)
    <3> DEFINE g == SumFunctionOnSet(gathered, Attempt)  n == SumFunctionOnSet(Ones, Attempt)
    <3>1. g \in Nat /\ n \in Nat /\ g <= n /\ Votes \in Nat
      BY <2>2, <2>3, AttemptFinite, SumLaws, PlanningAssumption
    <3> HIDE DEF g, n
    <3>2. PICK k \in Nat : n = g + k
      <4>1. n - g \in Nat /\ n = g + (n - g)
        BY <3>1
      <4>2. QED
        BY <4>1
    <3>3. Votes * n = Votes * g + Votes * k /\ Votes * k \in Nat /\ Votes * g \in Nat
      BY <3>1, <3>2
    <3>4. QED
      BY <3>3 DEF g, n
  <2>8. QED
    BY <2>1, <2>3, <2>4, <2>5, <2>6, <2>7, PlannedPerAttempt DEF PlanCoversRun
<1>2. QED
  BY <1>1, SpendingInvariant, PTL

(* An attempt under way that sent and replayed nothing is still starting. *)
LEMMA NothingSent ==
  ASSUME IInv, Accounts, ~Replay, NEW s \in Scenario, NEW a \in AttemptsOf(s),
         pc[a] \in Live, requests[a] = <<>>
  PROVE  Starting(a)
<1>1. a \in Attempt /\ Len(conv[a]) \in Nat /\ out[a] = "none"
  BY UnderWay
<1>2. Accounted(s, a) /\ Errors(a) = 0
  BY <1>1 DEF Accounts, Errors
<1>3. Len(conv[a]) = 0
  <2>1. replayed[a] = {} /\ Len(requests[a]) + Cardinality(replayed[a]) = Len(conv[a])
    BY <1>1, <1>2 DEF Accounted
  <2>2. Cardinality(replayed[a]) = 0 /\ Len(requests[a]) = 0
    BY <2>1, FS_EmptySet
  <2>3. QED
    BY <2>1, <2>2
<1>4. conv[a] \in Seq(Text)
  BY <1>1 DEF IInv, TypeOK
<1>5. QED
  BY <1>3, <1>4, EmptySeq DEF Starting

(***************************************************************************)
(* Without cached responses, no attempt sends its first request once its   *)
(* gate is decided.  With them the code only promises it of attempts that  *)
(* have no answer yet, so the hypothesis is needed: an attempt whose first *)
(* step was replayed has sent nothing and goes on all the same.            *)
(***************************************************************************)
THEOREM DecidedMeansUnsent == ~Replay => (Spec => NoFirstRequestOnceDecided)
<1> SUFFICES ASSUME ~Replay PROVE Spec => NoFirstRequestOnceDecided
  OBVIOUS
<1> DEFINE Unsent == \A s \in Scenario : \A a \in AttemptsOf(s) :
      (decided[s] /\ requests[a] = <<>> /\ pc[a] # "sending") => pc'[a] # "sending"
<1>1. IInv /\ Accounts /\ [Next]_vars => [Unsent]_vars
  <2> SUFFICES ASSUME IInv, Accounts, [Next]_vars PROVE [Unsent]_vars
    OBVIOUS
  <2>1. ASSUME NEW s \in Scenario, NEW a \in AttemptsOf(s), decided[s], requests[a] = <<>>,
               pc[a] # "sending", NEW t \in Scenario, NEW b \in AttemptsOf(t), Step(t, b)
        PROVE  pc'[a] # "sending"
    <3>1. TypeOK /\ a \in Attempt
      BY AttemptsCounted DEF IInv
    <3>2. CASE b # a
      BY <2>1, <3>1, <3>2, ConversationIsLocal
    <3>3. CASE b = a
      <4>1. t = s
        BY <3>3, AttemptsDisjoint
      <4>2. Starting(a)
        BY <2>1, <3>1, <3>3, <4>1, StepEffect, NothingSent DEF Effect
      <4>3. \E p \in Over : pc' = [pc EXCEPT ![a] = p]
        BY <2>1, <3>3, <4>1, <4>2
        DEF Step, SkipNew, Start, SkipQueued, Send, Answered, Failed, Misconfigured, Judged,
            JudgeCrashed, FailedLate, CancelTask, At, Skippable, Recorded, Raised, Over
      <4>4. QED
        BY <3>1, <4>3 DEF TypeOK, Over
    <3>4. QED
      BY <3>2, <3>3
  <2>2. ASSUME NEW s \in Scenario, Group(s) \/ CancelScenario(s) PROVE UNCHANGED pc
    BY <2>2 DEF Group, AbortGroup, GiveUp, Finish, CancelScenario, taskVars
  <2>3. QED
    BY <2>1, <2>2 DEF Next
<1>2. QED
  BY <1>1, RequestsInvariant, RunnerInvariant, PTL DEF Spec, NoFirstRequestOnceDecided
-----------------------------------------------------------------------------
(***************************************************************************)
(* What RaiseIsReported says short of its liveness: a scenario with an     *)
(* attempt that raised has no other end than raised, and an attempt that   *)
(* raised stays one.                                                       *)
(***************************************************************************)
NoErrorLost == \A s \in Scenario : RaisedAttempt(s) => group[s] \notin {"finished", "cancelled"}

RaisedStays == [][\A a \in Attempt : pc[a] = "raised" => pc'[a] = "raised"]_vars

(* A task that is over stays as it is, and its group goes on without it. *)
LEMMA ErrorKept ==
  ASSUME IInv, NoErrorLost, [Next]_vars
  PROVE  NoErrorLost' /\ \A a \in Attempt : pc[a] = "raised" => pc'[a] = "raised"
<1>1. ASSUME NEW s \in Scenario, NEW a \in AttemptsOf(s), Step(s, a)
      PROVE  NoErrorLost' /\ \A b \in Attempt : pc[b] = "raised" => pc'[b] = "raised"
  <2>1. /\ pc[a] \in Live /\ pc' = [pc EXCEPT ![a] = pc'[a]] /\ group' = group
        /\ pc \in [Attempt -> Live \cup Over]
    BY <1>1, StepEffect DEF Effect, IInv, groupVars, TypeOK, Live, Over
  <2>2. \A b \in Attempt : b # a => pc'[b] = pc[b]
    BY <2>1
  <2>3. group[s] \notin {"finished", "cancelled"}
    BY <2>1 DEF IInv, EndsComplete, AllOver, Live, Over
  <2>4. \A t \in Scenario : t # s => \A b \in AttemptsOf(t) : b # a /\ b \in Attempt
    BY AttemptsDisjoint, AttemptsCounted
  <2>5. NoErrorLost'
    BY <2>1, <2>2, <2>3, <2>4 DEF NoErrorLost, RaisedAttempt
  <2>6. QED
    BY <2>1, <2>2, <2>5 DEF Live
<1>2. ASSUME NEW s \in Scenario, Group(s) \/ CancelScenario(s)
      PROVE  NoErrorLost' /\ \A b \in Attempt : pc[b] = "raised" => pc'[b] = "raised"
  <2>1. pc' = pc /\ \E g : /\ group' = [group EXCEPT ![s] = g]
                           /\ RaisedAttempt(s) => g \notin {"finished", "cancelled"}
    BY <1>2 DEF Group, AbortGroup, GiveUp, EndWithoutResult, Finish, CancelScenario, taskVars
  <2>2. group \in [Scenario -> {"running", "aborting", "cancelling",
                                "finished", "raised", "cancelled"}]
    BY DEF IInv, TypeOK
  <2>3. QED
    BY <2>1, <2>2 DEF NoErrorLost, RaisedAttempt
<1>3. CASE UNCHANGED vars
  BY <1>3 DEF vars, taskVars, groupVars, NoErrorLost, RaisedAttempt
<1>4. QED
  BY <1>1, <1>2, <1>3 DEF Next

(***************************************************************************)
(* An error is never lost: once an attempt has raised, its scenario can    *)
(* only end as raised, whoever cancels it meanwhile (run_with).            *)
(***************************************************************************)
THEOREM ErrorsAreNotLost == Spec => []NoErrorLost /\ RaisedStays
<1>1. Init => NoErrorLost
  BY AttemptsCounted DEF Init, NoErrorLost, RaisedAttempt
<1>2. IInv /\ NoErrorLost /\ [Next]_vars => NoErrorLost'
  BY ErrorKept
<1> DEFINE Stays == \A a \in Attempt : pc[a] = "raised" => pc'[a] = "raised"
<1>3. IInv /\ NoErrorLost /\ [Next]_vars => [Stays]_vars
  BY ErrorKept
<1>4. Spec => []NoErrorLost /\ [][Stays]_vars
  <2> HIDE DEF Stays
  <2>1. QED
    BY <1>1, <1>2, <1>3, RunnerInvariant, PTL DEF Spec
<1>5. QED
  BY <1>4 DEF RaisedStays
-----------------------------------------------------------------------------
(***************************************************************************)
(* Runner implements Sampling.                                             *)
(***************************************************************************)
LEMMA SameAttempts ==
  /\ Abs!Attempt = Attempt
  /\ \A s \in Scenario : Abs!AttemptsOf(s) = AttemptsOf(s)
BY DEF Abs!Attempt, Abs!AttemptsOf, Attempt, AttemptsOf

(* The operators that Abs takes from library modules are the library's. *)
LEMMA SameCardinality == \A S : Abs!Cardinality(S) = Cardinality(S)
BY DEF Abs!Cardinality, Cardinality

(* The tallies of Sampling are those of the Stopper. *)
LEMMA SameTally ==
  ASSUME IInv, NEW s \in Scenario
  PROVE  /\ Abs!Tally(s, "pass") = CountOf(s, PassOutcomes)
         /\ Abs!Tally(s, "fail") = CountOf(s, FailOutcomes)
         /\ Abs!Tally(s, "error") = CountOf(s, ErrorOutcomes)
<1>1. \A a \in AttemptsOf(s) :
        /\ OutcomeOf(a) = "pass" <=> out[a] \in PassOutcomes
        /\ OutcomeOf(a) = "fail" <=> out[a] \in FailOutcomes
        /\ OutcomeOf(a) = "error" <=> out[a] \in ErrorOutcomes
  <2> SUFFICES ASSUME NEW a \in AttemptsOf(s)
               PROVE  /\ OutcomeOf(a) = "pass" <=> out[a] \in PassOutcomes
                      /\ OutcomeOf(a) = "fail" <=> out[a] \in FailOutcomes
                      /\ OutcomeOf(a) = "error" <=> out[a] \in ErrorOutcomes
    OBVIOUS
  <2>1. a \in Attempt /\ out[a] \in {"none"} \cup Outcomes /\ pc[a] \in Live \cup Over
    BY AttemptsCounted DEF IInv, TypeOK
  <2>2. CASE pc[a] = "recorded"
    BY <2>1, <2>2
    DEF IInv, OutcomeAtEnd, OutcomeOf, Outcomes, PassOutcomes, FailOutcomes, ErrorOutcomes
  <2>3. CASE pc[a] # "recorded"
    <3>1. out[a] = "none"
      BY <2>1, <2>3 DEF IInv, OutcomeAtEnd
    <3>2. OutcomeOf(a) \in {"skipped", "dropped", "open"}
      BY <2>1, <2>3 DEF OutcomeOf, Live, Over
    <3>3. QED
      BY <3>1, <3>2 DEF PassOutcomes, FailOutcomes, ErrorOutcomes
  <2>4. QED
    BY <2>2, <2>3
<1>2. AttemptsOf(s) \subseteq Attempt /\ Abs!AttemptsOf(s) = AttemptsOf(s)
  BY SameAttempts, AttemptsCounted
<1>3. \A o : Abs!Ended(s, o) = {a \in AttemptsOf(s) : OutcomeOf(a) = o}
  BY <1>2 DEF Abs!Ended
<1>4. Abs!Ended(s, "pass") = Chosen(AttemptsOf(s), out, PassOutcomes)
  BY <1>1, <1>3 DEF Chosen
<1>5. Abs!Ended(s, "fail") = Chosen(AttemptsOf(s), out, FailOutcomes)
  BY <1>1, <1>3 DEF Chosen
<1>6. Abs!Ended(s, "error") = Chosen(AttemptsOf(s), out, ErrorOutcomes)
  BY <1>1, <1>3 DEF Chosen
<1>7. \A o : Abs!Tally(s, o) = Cardinality(Abs!Ended(s, o))
  BY SameCardinality DEF Abs!Tally
<1>8. \A O : CountOf(s, O) = Cardinality(Chosen(AttemptsOf(s), out, O))
  BY CountOfIsCount DEF Count
<1>9. QED
  BY <1>4, <1>5, <1>6, <1>7, <1>8

AbsOutcome == [a \in Attempt |-> OutcomeOf(a)]
AbsVerdict == [s \in Scenario |-> VerdictOf(s)]

(* The initial states are those of Sampling. *)
LEMMA InitRefines == Init => Abs!Init
<1> SUFFICES ASSUME Init PROVE Abs!Init
  OBVIOUS
<1>1. \A a \in Attempt : OutcomeOf(a) = "open"
  BY DEF Init, OutcomeOf
<1>2. \A s \in Scenario : VerdictOf(s) = "open"
  BY DEF Init, VerdictOf
<1>3. QED
  BY <1>1, <1>2, SameAttempts DEF Abs!Init

(* Every effect of a task is a step of Sampling or none. *)
LEMMA StepRefines ==
  ASSUME IInv, NEW s \in Scenario, NEW a \in AttemptsOf(s), Effect(s, a)
  PROVE  Abs!Next \/ UNCHANGED Abs!vars
<1>1. TypeOK /\ a \in Attempt /\ a \in Abs!AttemptsOf(s)
  BY AttemptsCounted, SameAttempts DEF IInv
<1>2. AbsVerdict' = AbsVerdict
  <2>1. \A t \in Scenario : VerdictOf(t)' = VerdictOf(t)
    BY DEF Effect, groupVars, VerdictOf
  <2>2. QED
    BY <2>1 DEF AbsVerdict
<1>3. \A b \in Attempt : b # a => OutcomeOf(b)' = OutcomeOf(b)
  BY <1>1, EffectIsLocal DEF OutcomeOf
<1>4. AbsOutcome' = [AbsOutcome EXCEPT ![a] = OutcomeOf(a)']
  BY <1>1, <1>3 DEF AbsOutcome
<1>5. AbsOutcome[a] = "open" /\ OutcomeOf(a) = "open"
  <2>1. OutcomeOf(a) = "open"
    BY DEF Effect, OutcomeOf, Live
  <2>2. QED
    BY <1>1, <2>1 DEF AbsOutcome
<1>6. group[s] \in Unfinished => AbsVerdict[s] = "open"
  BY DEF Unfinished, AbsVerdict, VerdictOf
<1>7. CASE pc'[a] = "recorded" /\ group[s] \in Unfinished /\ out'[a] \in Outcomes
  <2>1. OutcomeOf(a)' \in Abs!Outcomes
    BY <1>7 DEF OutcomeOf, Abs!Outcomes
  <2>2. Abs!Settle(s, a)
    BY <1>2, <1>4, <1>5, <1>6, <1>7, <2>1 DEF Abs!Settle, AbsOutcome, AbsVerdict
  <2>3. QED
    BY <1>1, <2>2 DEF Abs!Next
<1>8. CASE pc'[a] \in Live
  <2>1. OutcomeOf(a)' = "open"
    BY <1>8 DEF OutcomeOf, Live
  <2>2. AbsOutcome' = AbsOutcome
    BY <1>3, <1>5, <2>1 DEF AbsOutcome
  <2>3. QED
    BY <1>2, <2>2 DEF Abs!vars, AbsOutcome, AbsVerdict
<1>9. CASE pc'[a] \in {"raised", "cancelled"} /\ group[s] \in Unfinished
  <2>1. OutcomeOf(a)' = "dropped"
    BY <1>9 DEF OutcomeOf
  <2>2. Abs!Drop(s, a)
    BY <1>2, <1>4, <1>5, <1>6, <1>9, <2>1 DEF Abs!Drop, AbsOutcome, AbsVerdict
  <2>3. QED
    BY <1>1, <2>2 DEF Abs!Next
<1>10. CASE pc'[a] = "skipped" /\ group[s] = "running" /\ decided[s]
  <2>1. OutcomeOf(a)' = "skipped"
    BY <1>10 DEF OutcomeOf
  <2>2. /\ MayStop /\ GateDecided(Runs[s], Misses[s], passes[s], fails[s])
        /\ passes[s] = Abs!Tally(s, "pass") /\ fails[s] = Abs!Tally(s, "fail")
    BY <1>10, SameTally DEF IInv, DecisionsJustified, TallyExact
  <2>3. Abs!GateDecided(Runs[s], Misses[s], Abs!Tally(s, "pass"), Abs!Tally(s, "fail"))
    BY <2>2 DEF GateDecided, PassesNeeded, Abs!GateDecided, Abs!PassesNeeded
  <2>4. Abs!Skip(s, a)
    BY <1>2, <1>4, <1>5, <1>6, <1>10, <2>1, <2>2, <2>3 DEF Abs!Skip, AbsOutcome, AbsVerdict, Unfinished
  <2>5. QED
    BY <1>1, <2>4 DEF Abs!Next
<1>11. QED
  BY <1>1, <1>7, <1>8, <1>9, <1>10, EffectCases DEF Unfinished

(* The end of a scenario is a step of Sampling or none. *)
LEMMA GroupRefines ==
  ASSUME IInv, NEW s \in Scenario, Group(s) \/ CancelScenario(s)
  PROVE  Abs!Next \/ UNCHANGED Abs!vars
<1>1. AbsOutcome' = AbsOutcome
  <2>1. UNCHANGED <<pc, out>>
    BY DEF Group, AbortGroup, GiveUp, Finish, CancelScenario, taskVars
  <2>2. \A a \in Attempt : OutcomeOf(a)' = OutcomeOf(a)
    BY <2>1 DEF OutcomeOf
  <2>3. QED
    BY <2>2 DEF AbsOutcome
<1>2. ASSUME NEW g, group' = [group EXCEPT ![s] = g]
      PROVE  \A t \in Scenario : group'[t] = IF t = s THEN g ELSE group[t]
  BY <1>2 DEF IInv, TypeOK
<1>3. CASE AbortGroup(s) \/ CancelScenario(s)
  <2>1. PICK g \in {"aborting", "cancelling"} : group' = [group EXCEPT ![s] = g]
    BY <1>3 DEF AbortGroup, CancelScenario
  <2>2. group[s] \in {"running", "aborting", "cancelling"} /\ result' = result
    BY <1>3 DEF AbortGroup, CancelScenario
  <2>3. \A t \in Scenario : VerdictOf(t)' = VerdictOf(t)
    BY <1>2, <2>1, <2>2 DEF VerdictOf
  <2>4. AbsVerdict' = AbsVerdict
    BY <2>3 DEF AbsVerdict
  <2>5. QED
    BY <1>1, <2>4 DEF Abs!vars, AbsOutcome, AbsVerdict
<1>4. CASE GiveUp(s)
  <2>1. PICK g \in {"raised", "cancelled"} : group' = [group EXCEPT ![s] = g]
    BY <1>4 DEF GiveUp, EndWithoutResult
  <2>2. /\ group[s] \in Unfinished /\ result' = result
        /\ \A a \in AttemptsOf(s) : pc[a] \in Over
    BY <1>4 DEF GiveUp, AllOver, Unfinished
  <2>3. VerdictOf(s) = "open" /\ VerdictOf(s)' = "withdrawn"
    BY <1>2, <2>1, <2>2 DEF VerdictOf, Unfinished
  <2>4. \A t \in Scenario : t # s => VerdictOf(t)' = VerdictOf(t)
    BY <1>2, <2>1, <2>2 DEF VerdictOf
  <2>5. AbsVerdict[s] = "open" /\ AbsVerdict' = [AbsVerdict EXCEPT ![s] = "withdrawn"]
    BY <2>3, <2>4 DEF AbsVerdict
  <2>6. \A a \in Abs!AttemptsOf(s) : AbsOutcome[a] # "open"
    BY <2>2, SameAttempts, AttemptsCounted DEF AbsOutcome, OutcomeOf, Over
  <2>7. Abs!Withdraw(s)
    BY <1>1, <2>5, <2>6 DEF Abs!Withdraw, AbsOutcome, AbsVerdict
  <2>8. QED
    BY <2>7 DEF Abs!Next
<1>5. CASE Finish(s)
  <2> DEFINE passed == CountOf(s, PassOutcomes)
             failed == CountOf(s, FailOutcomes)
             errors == CountOf(s, ErrorOutcomes)
  <2>1. /\ group[s] = "running" /\ AllOver(s)
        /\ \A a \in AttemptsOf(s) : pc[a] # "raised"
        /\ group' = [group EXCEPT ![s] = "finished"]
    BY <1>5 DEF Finish, EarlyStopped, RaisedAttempt
  <2>2. PICK met \in Quality(s, passed, CountOf(s, Outcomes) - errors) :
          result' = [result EXCEPT ![s] =
                       [status |-> Status(errors, met),
                        early_stopped |-> decided[s] /\ CountOf(s, Outcomes) < Runs[s]]]
    BY <1>5 DEF Finish, EarlyStopped, RaisedAttempt
  <2>3. CountOf(s, Outcomes) - errors = passed + failed
    <3>1. CountOf(s, Outcomes) = CountOf(s, PassOutcomes \cup FailOutcomes) + errors
      <4>1. (PassOutcomes \cup FailOutcomes) \cap ErrorOutcomes = {}
        BY DEF PassOutcomes, FailOutcomes, ErrorOutcomes
      <4>2. QED
        BY <4>1, CountOfIsCount, CountSplit, AttemptsCounted DEF Outcomes
    <3>2. CountOf(s, PassOutcomes \cup FailOutcomes) = passed + failed
      <4>1. PassOutcomes \cap FailOutcomes = {}
        BY DEF PassOutcomes, FailOutcomes
      <4>2. QED
        BY <4>1, CountOfIsCount, CountSplit, AttemptsCounted
    <3>3. passed \in Nat /\ failed \in Nat /\ errors \in Nat
      BY CountOfIsCount
    <3> HIDE DEF passed, failed, errors
    <3>4. QED
      BY <3>1, <3>2, <3>3
  <2>4. result'[s].status = Status(errors, met) /\ \A t \in Scenario : t # s => result'[t] = result[t]
    BY <2>2 DEF IInv, TypeOK
  <2>5. VerdictOf(s) = "open" /\ VerdictOf(s)' = Status(errors, met)
    <3>1. group[s] \notin {"finished", "raised", "cancelled"} /\ group'[s] = "finished"
      BY <1>2, <2>1
    <3>2. VerdictOf(s) = "open"
      BY <3>1 DEF VerdictOf
    <3>3. VerdictOf(s)' = result'[s].status
      BY <3>1 DEF VerdictOf
    <3>4. QED
      BY <2>4, <3>2, <3>3
  <2>6. \A t \in Scenario : t # s => VerdictOf(t)' = VerdictOf(t)
    BY <1>2, <2>1, <2>4 DEF VerdictOf
  <2>7. AbsVerdict[s] = "open" /\ AbsVerdict' = [AbsVerdict EXCEPT ![s] = Status(errors, met)]
    BY <2>5, <2>6 DEF AbsVerdict
  <2>8. \A a \in Abs!AttemptsOf(s) : AbsOutcome[a] \in Abs!Outcomes \cup {"skipped"}
    BY <2>1, MadeOrSkipped, SameAttempts, AttemptsCounted DEF AbsOutcome, OutcomeOf, Abs!Outcomes
  <2>9. /\ Abs!Tally(s, "pass") = passed /\ Abs!Tally(s, "fail") = failed
        /\ Abs!Tally(s, "error") = errors
    BY SameTally
  <2>10. met \in Abs!Quality(Misses[s], Abs!Tally(s, "pass"),
                             Abs!Tally(s, "pass") + Abs!Tally(s, "fail"))
    <3>1. Abs!Quality(Misses[s], passed, passed + failed) = Quality(s, passed, passed + failed)
      BY DEF Abs!Quality, Abs!Met, Quality, Met
    <3>2. QED
      BY <2>2, <2>3, <2>9, <3>1
  <2>11. Abs!Status(Abs!Tally(s, "error"), met) = Status(errors, met)
    BY <2>9 DEF Abs!Status, Status
  <2>12. Abs!Conclude(s)
    BY <1>1, <2>7, <2>8, <2>10, <2>11 DEF Abs!Conclude, AbsOutcome, AbsVerdict
  <2>13. QED
    BY <2>12 DEF Abs!Next
<1>6. QED
  BY <1>3, <1>4, <1>5 DEF Group

(***************************************************************************)
(* The runner, with its tasks, slots, conversations and cache, does what   *)
(* Sampling says of outcomes, skips and verdicts: an attempt is skipped    *)
(* only when the verdicts of the records decide the gate, and a result     *)
(* counts every attempt made.                                              *)
(***************************************************************************)
THEOREM RunnerSamples == Spec => Samples
<1>1. IInv /\ [Next]_vars => [Abs!Next]_(Abs!vars)
  <2> SUFFICES ASSUME IInv, [Next]_vars PROVE Abs!Next \/ UNCHANGED Abs!vars
    OBVIOUS
  <2>1. ASSUME NEW s \in Scenario, NEW a \in AttemptsOf(s), Step(s, a)
        PROVE  Abs!Next \/ UNCHANGED Abs!vars
    BY <2>1, StepEffect, StepRefines DEF IInv
  <2>2. ASSUME NEW s \in Scenario, Group(s) \/ CancelScenario(s)
        PROVE  Abs!Next \/ UNCHANGED Abs!vars
    BY <2>2, GroupRefines
  <2>3. CASE UNCHANGED vars
    BY <2>3 DEF vars, taskVars, groupVars, Abs!vars, OutcomeOf, VerdictOf
  <2>4. QED
    BY <2>1, <2>2, <2>3 DEF Next
<1>2. QED
  BY <1>1, InitRefines, RunnerInvariant, PTL DEF Spec, Samples, Abs!Spec
-----------------------------------------------------------------------------
(***************************************************************************)
(* What SamplingProofs proves of Sampling, of the runner's attempts.  How  *)
(* reports are compared plays no part: the defaults stand in.              *)
(***************************************************************************)
Stopping == INSTANCE SamplingProofs WITH
              Alpha <- [num |-> 1, den |-> 20],
              MinEffect <- [num |-> 1, den |-> 10],
              Corrected <- GateOn = "corrected",
              outcome <- [a \in Attempt |-> OutcomeOf(a)],
              verdict <- [s \in Scenario |-> VerdictOf(s)]

(* The two instances of FiniteSets mean the same. *)
LEMMA SameFinite == \A S : Stopping!IsFiniteSet(S) = IsFiniteSet(S)
BY DEF Stopping!IsFiniteSet, IsFiniteSet

(* The assumption of Sampling follows from that of Runner. *)
LEMMA RunnerMeetsAssumption == Stopping!SamplingAssumption /\ Stopping!ComparisonAssumption
<1>1. Stopping!SamplingAssumption
  BY RunnerAssumption, SameFinite
  DEF Stopping!SamplingAssumption, Stopping!GateBuilds, GateBuilds, MayStop
<1>2. Stopping!ComparisonAssumption
  BY DEF Stopping!ComparisonAssumption
<1>3. QED
  BY <1>1, <1>2

(***************************************************************************)
(* Stopping is Abs again, together with its theorems.                      *)
(***************************************************************************)
LEMMA SameSpecification ==
  /\ Abs!Init = Stopping!Init
  /\ Abs!Next = Stopping!Next
  /\ Abs!StoppedVerdictSound = Stopping!StoppedVerdictSound
<1>1. /\ Abs!Attempt = Stopping!Attempt
      /\ \A s : Abs!AttemptsOf(s) = Stopping!AttemptsOf(s)
  BY DEF Abs!Attempt, Abs!AttemptsOf, Stopping!Attempt, Stopping!AttemptsOf
<1>2. \A s, o : Abs!Tally(s, o) = Stopping!Tally(s, o)
  <2>1. \A S : Abs!Cardinality(S) = Stopping!Cardinality(S)
    BY DEF Abs!Cardinality, Stopping!Cardinality
  <2>2. \A s, o : Abs!Ended(s, o) = Stopping!Ended(s, o)
    BY <1>1 DEF Abs!Ended, Stopping!Ended
  <2>3. QED
    BY <2>1, <2>2 DEF Abs!Tally, Stopping!Tally
<1>3. /\ \A r, m, p, f : Abs!GateDecided(r, m, p, f) = Stopping!GateDecided(r, m, p, f)
      /\ \A m, p, n : Abs!Met(m, p, n) = Stopping!Met(m, p, n)
      /\ \A m, p, n : Abs!Quality(m, p, n) = Stopping!Quality(m, p, n)
      /\ \A e, m : Abs!Status(e, m) = Stopping!Status(e, m)
      /\ Abs!Statuses = Stopping!Statuses
      /\ Abs!Outcomes = Stopping!Outcomes
  BY DEF Abs!GateDecided, Abs!PassesNeeded, Stopping!GateDecided, Stopping!PassesNeeded,
         Abs!Met, Stopping!Met, Abs!Quality, Stopping!Quality, Abs!Status, Stopping!Status,
         Abs!Statuses, Stopping!Statuses, Abs!Outcomes, Stopping!Outcomes
<1>4. Abs!Init = Stopping!Init
  BY <1>1 DEF Abs!Init, Stopping!Init
<1>5. \A s, a : /\ Abs!Settle(s, a) = Stopping!Settle(s, a)
                /\ Abs!Skip(s, a) = Stopping!Skip(s, a)
                /\ Abs!Drop(s, a) = Stopping!Drop(s, a)
  BY <1>2, <1>3 DEF Abs!Settle, Stopping!Settle, Abs!Skip, Stopping!Skip, Abs!Drop, Stopping!Drop
<1>6. \A s : /\ Abs!Conclude(s) = Stopping!Conclude(s)
             /\ Abs!Withdraw(s) = Stopping!Withdraw(s)
  BY <1>1, <1>2, <1>3
  DEF Abs!Conclude, Stopping!Conclude, Abs!Withdraw, Stopping!Withdraw
<1>7. Abs!Next = Stopping!Next
  BY <1>1, <1>5, <1>6 DEF Abs!Next, Stopping!Next
<1>8. Abs!StoppedVerdictSound = Stopping!StoppedVerdictSound
  BY <1>1, <1>2, <1>3
  DEF Abs!StoppedVerdictSound, Stopping!StoppedVerdictSound,
      Abs!FullSampling, Stopping!FullSampling
<1>9. QED
  BY <1>4, <1>7, <1>8

(***************************************************************************)
(* The verdict of every finished scenario of the runner is the verdict of  *)
(* full sampling, however the attempts it skipped would have gone.         *)
(***************************************************************************)
THEOREM RunnerStopsSoundly == Spec => []StoppedVerdictSound
<1>1. Stopping!Spec => []Stopping!StoppedVerdictSound
  BY RunnerMeetsAssumption, Stopping!EarlyStopSound
<1>2. Abs!Init => Stopping!Init
  BY SameSpecification
<1>3. [Abs!Next]_(Abs!vars) => [Stopping!Next]_(Stopping!vars)
  <2>1. UNCHANGED Abs!vars => UNCHANGED Stopping!vars
    BY DEF Abs!vars, Stopping!vars
  <2>2. QED
    BY <2>1, SameSpecification
<1>4. Stopping!StoppedVerdictSound => StoppedVerdictSound
  BY SameSpecification DEF StoppedVerdictSound
<1>5. QED
  BY <1>1, <1>2, <1>3, <1>4, RunnerSamples, PTL DEF Samples, Abs!Spec, Stopping!Spec
=============================================================================
