------------------------------- MODULE Runner -------------------------------
(***************************************************************************)
(* juried.runner: the attempts of every submitted scenario run as tasks of *)
(* one event loop.  An attempt holds the conversation turn by turn, each   *)
(* turn a request to the target made while holding one of the target       *)
(* slots, then has its final response checked and judged, and is tallied   *)
(* by the scenario's Stopper.  What an attempt does between two awaits is  *)
(* one action.                                                             *)
(*                                                                         *)
(* The judge is abstract here: an attempt under judgement comes back with  *)
(* any result the votes can have.  Module Jury models the votes.           *)
(***************************************************************************)
EXTENDS Gate, FiniteSets, Sequences

CONSTANTS
  Scenario,        (* the scenarios submitted to the loop                    *)
  Runs, Misses,    (* the gate of each scenario (Runner.gate_for)            *)
  Script,          (* Script[s]: the scripted turns of s, then its message   *)
  LatencyChecked,  (* the scenarios with a max_latency_ms check              *)
  TargetCap,       (* run.concurrency                                        *)
  EarlyStop,       (* run.early_stop                                         *)
  GateOn,          (* "observed" or "corrected", as resolve_gate settled it  *)
  Replay,          (* run.cache_responses, with the cache enabled            *)
  Text,            (* the texts the target may reply with                    *)
  Recordings       (* what earlier runs may have left in the response cache  *)

VARIABLES
  pc,              (* pc[a]: where the task of attempt a is                  *)
  conv,            (* conv[a]: the replies of a so far                       *)
  replayed,        (* replayed[a]: the steps of a answered from the cache    *)
  requests,        (* requests[a]: RunRecord.requests, by their latency      *)
  out,             (* out[a]: RunRecord.outcome, "none" before there is one  *)
  passes, fails,   (* the tally of each scenario's Stopper                   *)
  decided,         (* Stopper.decided                                        *)
  group,           (* group[s]: the task group of s                          *)
  result,          (* result[s]: the ScenarioResult, status "none" before it *)
  slots,           (* free permits of Resources.target_slots                 *)
  responses        (* the response cache                                     *)

taskVars == <<pc, conv, replayed, requests, out>>
tallyVars == <<passes, fails, decided>>
groupVars == <<group, result>>
vars == <<taskVars, tallyVars, groupVars, slots, responses>>

AttemptsOf(s) == {s} \X (1 .. Runs[s])
Attempt == UNION {AttemptsOf(s) : s \in Scenario}

Latency == {"fast", "slow", "error"}

(* A check decides "checks" and "latency" without a judge. *)
PassOutcomes == {"pass"}
FailOutcomes == {"fail", "checks", "latency"}
ErrorOutcomes == {"transport_error", "judge_error"}
Outcomes == PassOutcomes \cup FailOutcomes \cup ErrorOutcomes

ASSUME RunnerAssumption ==
  /\ IsFiniteSet(Scenario)
  /\ Runs \in [Scenario -> Nat]
  /\ Misses \in [Scenario -> Nat]
  /\ \A s \in Scenario : GateBuilds(Runs[s], Misses[s])
  /\ \A s \in Scenario : Len(Script[s]) \in Nat \ {0}
  /\ LatencyChecked \subseteq Scenario
  /\ TargetCap \in Nat \ {0}
  /\ EarlyStop \in BOOLEAN /\ Replay \in BOOLEAN
  /\ GateOn \in {"observed", "corrected"}
  /\ \A R \in Recordings : \A e \in R : e.text \in Text

(***************************************************************************)
(* RunConfig.early_stop_for: the corrected rate needs every attempt.       *)
(***************************************************************************)
StopsAnyGate == EarlyStop  (* Mutant: the corrected rate is stopped too. *)

MayStop == EarlyStop /\ GateOn # "corrected"

(***************************************************************************)
(* The cache key of the step that follows the replies c: everything said   *)
(* to the target and heard from it so far, and the attempt number.         *)
(***************************************************************************)
StepKey(s, a, c) == [said |-> SubSeq(Script[s], 1, Len(c) + 1), attempt |-> a[2], heard |-> c]

Cached(k) == {e \in responses : e.key = k}

Put(k, t) == {e \in responses : e.key # k} \cup {[key |-> k, text |-> t]}

(***************************************************************************)
(* Where the conversation c gets to by replaying cached replies: the steps *)
(* follow each other without an await, up to the first one not cached.     *)
(***************************************************************************)
Extensions(s, c) ==
  UNION {{c \o x : x \in [1 .. n -> Text]} : n \in 0 .. (Len(Script[s]) - Len(c))}

ReplayedFrom(s, a, c) ==
  {d \in Extensions(s, c) :
     IF Replay
       THEN /\ \A i \in (Len(c) + 1) .. Len(d) :
                 [key |-> StepKey(s, a, SubSeq(d, 1, i - 1)), text |-> d[i]] \in responses
            /\ Len(d) < Len(Script[s]) => Cached(StepKey(s, a, d)) = {}
       ELSE d = c}

Init ==
  /\ pc = [a \in Attempt |-> "new"]
  /\ conv = [a \in Attempt |-> <<>>]
  /\ replayed = [a \in Attempt |-> {}]
  /\ requests = [a \in Attempt |-> <<>>]
  /\ out = [a \in Attempt |-> "none"]
  /\ passes = [s \in Scenario |-> 0]
  /\ fails = [s \in Scenario |-> 0]
  /\ decided = [s \in Scenario |-> FALSE]
  /\ group = [s \in Scenario |-> "running"]
  /\ result = [s \in Scenario |-> [status |-> "none", early_stopped |-> FALSE]]
  /\ slots = TargetCap
  /\ responses \in Recordings
-----------------------------------------------------------------------------
(***************************************************************************)
(* The end of an attempt: the record has its outcome and Stopper.record    *)
(* tallies it.                                                             *)
(***************************************************************************)
RecordedErrorAsFail(s, a, o) ==  (* Mutant: every record not passed is a fail. *)
  LET p == passes[s] + (IF o \in PassOutcomes THEN 1 ELSE 0)
      f == fails[s] + (IF o \notin PassOutcomes THEN 1 ELSE 0)
  IN  /\ pc' = [pc EXCEPT ![a] = "recorded"]
      /\ out' = [out EXCEPT ![a] = o]
      /\ passes' = [passes EXCEPT ![s] = p]
      /\ fails' = [fails EXCEPT ![s] = f]
      /\ decided' = [decided EXCEPT ![s] =
                       @ \/ (MayStop /\ GateDecided(Runs[s], Misses[s], p, f))]

Recorded(s, a, o) ==
  LET p == passes[s] + (IF o \in PassOutcomes THEN 1 ELSE 0)
      f == fails[s] + (IF o \in FailOutcomes THEN 1 ELSE 0)
  IN  /\ pc' = [pc EXCEPT ![a] = "recorded"]
      /\ out' = [out EXCEPT ![a] = o]
      /\ passes' = [passes EXCEPT ![s] = p]
      /\ fails' = [fails EXCEPT ![s] = f]
      /\ decided' = [decided EXCEPT ![s] =
                       @ \/ (MayStop /\ GateDecided(Runs[s], Misses[s], p, f))]

(* The task of a raises; its task group has not heard of it yet. *)
Raised(a) ==
  /\ pc' = [pc EXCEPT ![a] = "raised"]
  /\ UNCHANGED <<out, tallyVars>>

(***************************************************************************)
(* run_checks on the final response, with the latency of the last request  *)
(* recorded.  A check that cannot be evaluated is a CheckError; a failed   *)
(* one is the verdict, and the judge is not called.                        *)
(***************************************************************************)
FinalLatency(reqs) == IF reqs = <<>> THEN "unmeasured" ELSE reqs[Len(reqs)]

TooSlow(s, reqs) == s \in LatencyChecked /\ FinalLatency(reqs) = "slow"

(* The checks of its text: a json_schema may be missing or not be a schema. *)
TextChecks == {"passed", "failed", "unusable"}

Checked(s, a, reqs) ==
  \E text \in TextChecks :
    \/ text = "unusable" /\ Raised(a)
    \/ text = "failed" /\ Recorded(s, a, "checks")
    \/ text = "passed" /\ TooSlow(s, reqs) /\ Recorded(s, a, "latency")
    \/ /\ text = "passed" /\ ~TooSlow(s, reqs)
       /\ pc' = [pc EXCEPT ![a] = "judging"]
       /\ UNCHANGED <<out, tallyVars>>

(***************************************************************************)
(* Entering target_slots when `free` permits are: at once if there is one  *)
(* and nobody waits for it, else in the queue.                             *)
(***************************************************************************)
AcquireEagerly(a, free) ==  (* Mutant: a waiter counts as a holder. *)
  /\ pc' = [pc EXCEPT ![a] = IF free > 0 THEN "sending" ELSE "queued"]
  /\ slots' = free - 1

Acquire(a, free) ==
  IF free > 0 /\ \A b \in Attempt : pc[b] # "queued"
    THEN pc' = [pc EXCEPT ![a] = "sending"] /\ slots' = free - 1
    ELSE pc' = [pc EXCEPT ![a] = "queued"] /\ slots' = free

(* Leaving target_slots, in whatever way the block is left. *)
Kept(a) == slots  (* Mutant: an exception leaves the slot taken. *)

Released(a) == IF pc[a] = "sending" THEN slots + 1 ELSE slots

(* The requests of an attempt, after one with latency or error d. *)
RequestedIfAnswered(a, d) ==  (* Mutant: a request that failed is not recorded. *)
  IF d = "error" THEN requests ELSE [requests EXCEPT ![a] = Append(@, d)]

Requested(a, d) == [requests EXCEPT ![a] = Append(@, d)]

(***************************************************************************)
(* _run_attempt after the replies c: replay what is cached, then request   *)
(* the next step or check the final response.                              *)
(***************************************************************************)
Proceed(s, a, c, reqs, free) ==
  \E d \in ReplayedFrom(s, a, c) :
    /\ conv' = [conv EXCEPT ![a] = d]
    /\ replayed' = [replayed EXCEPT ![a] = @ \cup ((Len(c) + 1) .. Len(d))]
    /\ IF Len(d) < Len(Script[s])
         THEN Acquire(a, free) /\ UNCHANGED <<out, tallyVars>>
         ELSE Checked(s, a, reqs) /\ slots' = free

(***************************************************************************)
(* A live task of a scenario whose group has not been aborted.             *)
(***************************************************************************)
At(s, a, place) == pc[a] = place /\ group[s] = "running"

(* An attempt is starting until its first step has an answer. *)
Starting(a) == conv[a] = <<>>

SkippableIfNew(s, a) ==  (* Mutant: not checked again after the wait for a slot. *)
  Starting(a) /\ decided[s] /\ pc[a] = "new"

Skippable(s, a) == Starting(a) /\ decided[s]
-----------------------------------------------------------------------------
(***************************************************************************)
(* The first step of the task: _attempt, up to its first await.            *)
(***************************************************************************)
SkipNew(s, a) ==
  /\ At(s, a, "new")
  /\ Skippable(s, a)
  /\ pc' = [pc EXCEPT ![a] = "skipped"]
  /\ UNCHANGED <<conv, replayed, requests, out, tallyVars, groupVars, slots, responses>>

Start(s, a) ==
  /\ At(s, a, "new")
  /\ ~Skippable(s, a)
  /\ Proceed(s, a, <<>>, <<>>, slots)
  /\ UNCHANGED <<requests, groupVars, responses>>

(***************************************************************************)
(* A waiting task is given a target slot.  The gate may have been decided  *)
(* while it waited: a starting attempt then gives the slot back at once.   *)
(***************************************************************************)
SkipQueued(s, a) ==
  /\ At(s, a, "queued")
  /\ slots > 0
  /\ Skippable(s, a)
  /\ pc' = [pc EXCEPT ![a] = "skipped"]
  /\ UNCHANGED <<conv, replayed, requests, out, tallyVars, groupVars, slots, responses>>

Send(s, a) ==
  /\ At(s, a, "queued")
  /\ slots > 0
  /\ ~Skippable(s, a)
  /\ pc' = [pc EXCEPT ![a] = "sending"]
  /\ slots' = slots - 1
  /\ UNCHANGED <<conv, replayed, requests, out, tallyVars, groupVars, responses>>

(***************************************************************************)
(* The target answers: the rest of _send, and of _run_attempt up to an     *)
(* await.  The latency is left open only where a check reads it.           *)
(***************************************************************************)
Answered(s, a) ==
  /\ At(s, a, "sending")
  /\ \E t \in Text, d \in (IF s \in LatencyChecked THEN {"fast", "slow"} ELSE {"fast"}) :
       /\ requests' = Requested(a, d)
       /\ responses' = IF Replay THEN Put(StepKey(s, a, conv[a]), t) ELSE responses
       /\ Proceed(s, a, Append(conv[a], t), Requested(a, d)[a], Released(a))
  /\ UNCHANGED groupVars

(* TransportFailure: the retries are used up, or the reply is unusable. *)
Failed(s, a) ==
  /\ At(s, a, "sending")
  /\ slots' = Released(a)
  /\ requests' = Requested(a, "error")
  /\ Recorded(s, a, "transport_error")
  /\ UNCHANGED <<conv, replayed, groupVars, responses>>

(* TargetConfigError: response_path selects no string. *)
Misconfigured(s, a) ==
  /\ At(s, a, "sending")
  /\ slots' = Released(a)
  /\ Raised(a)
  /\ UNCHANGED <<conv, replayed, requests, groupVars, responses>>

(* The votes are in, or one of them failed. *)
Judged(s, a) ==
  /\ At(s, a, "judging")
  /\ \E o \in {"pass", "fail", "judge_error"} : Recorded(s, a, o)
  /\ UNCHANGED <<conv, replayed, requests, groupVars, slots, responses>>

(* An exception that is no ProviderError and no TransportFailure. *)
JudgeCrashed(s, a) ==
  /\ At(s, a, "judging")
  /\ Raised(a)
  /\ UNCHANGED <<conv, replayed, requests, groupVars, slots, responses>>

(***************************************************************************)
(* The attempt is cancelled just after one of several votes failed: gather *)
(* raises the failure, and the cancellation is lost.                       *)
(***************************************************************************)
FailedLate(s, a) ==
  /\ pc[a] = "judging"
  /\ group[s] \in {"aborting", "cancelling"}
  /\ Recorded(s, a, "judge_error") \/ Raised(a)
  /\ UNCHANGED <<conv, replayed, requests, groupVars, slots, responses>>
-----------------------------------------------------------------------------
(***************************************************************************)
(* The task group of a scenario.  It aborts when it hears of an attempt    *)
(* that raised, or when the session cancels the scenario; every task that  *)
(* has not ended is then cancelled at the await it is at, giving back the  *)
(* slot it holds.                                                          *)
(***************************************************************************)
Live == {"new", "queued", "sending", "judging"}
Over == {"recorded", "skipped", "cancelled", "raised"}
Unfinished == {"running", "aborting", "cancelling"}

RaisedAttempt(s) == \E a \in AttemptsOf(s) : pc[a] = "raised"

AbortGroup(s) ==
  /\ group[s] = "running"
  /\ RaisedAttempt(s)
  /\ group' = [group EXCEPT ![s] = "aborting"]
  /\ UNCHANGED <<taskVars, tallyVars, result, slots, responses>>

(* Session._shutdown, or an interrupt: external to the runner. *)
CancelScenario(s) ==
  /\ group[s] \in {"running", "aborting"}
  /\ group' = [group EXCEPT ![s] = "cancelling"]
  /\ UNCHANGED <<taskVars, tallyVars, result, slots, responses>>

CancelTask(s, a) ==
  /\ pc[a] \in Live
  /\ group[s] \in {"aborting", "cancelling"}
  /\ pc' = [pc EXCEPT ![a] = "cancelled"]
  /\ slots' = Released(a)
  /\ UNCHANGED <<conv, replayed, requests, out, tallyVars, groupVars, responses>>

(***************************************************************************)
(* The group is left once every task is over.  A task that raised makes    *)
(* run_with raise, else a cancelled group passes the cancellation on.      *)
(* Otherwise the records of the attempts made become the result, whose     *)
(* passes, errors and status are counted over them.                        *)
(***************************************************************************)
CountOf(s, O) == Cardinality({a \in AttemptsOf(s) : out[a] \in O})

AllOver(s) == \A a \in AttemptsOf(s) : pc[a] \in Over

EndOfCancelled(s) ==  (* Mutant: a cancellation hides the error. *)
  IF group[s] = "cancelling" THEN "cancelled" ELSE "raised"

EndWithoutResult(s) == IF RaisedAttempt(s) THEN "raised" ELSE "cancelled"

GiveUp(s) ==
  /\ group[s] \in Unfinished
  /\ AllOver(s)
  /\ RaisedAttempt(s) \/ group[s] = "cancelling"
  /\ group' = [group EXCEPT ![s] = EndWithoutResult(s)]
  /\ UNCHANGED <<taskVars, tallyVars, result, slots, responses>>

(* ScenarioResult.quality_met; the corrected interval is left open. *)
Quality(s, passed, judged) ==
  IF GateOn = "corrected" /\ judged > 0 THEN BOOLEAN ELSE {Met(Misses[s], passed, judged)}

StoppedIfDecided(s, made) == decided[s]  (* Mutant: whether or not any was skipped. *)

EarlyStopped(s, made) == decided[s] /\ made < Runs[s]

Finish(s) ==
  LET made   == CountOf(s, Outcomes)
      errors == CountOf(s, ErrorOutcomes)
      passed == CountOf(s, PassOutcomes)
  IN  /\ group[s] = "running"
      /\ AllOver(s)
      /\ ~RaisedAttempt(s)
      /\ group' = [group EXCEPT ![s] = "finished"]
      /\ \E met \in Quality(s, passed, made - errors) :
           result' = [result EXCEPT ![s] =
                        [status |-> Status(errors, met),
                         early_stopped |-> EarlyStopped(s, made)]]
      /\ UNCHANGED <<taskVars, tallyVars, slots, responses>>
-----------------------------------------------------------------------------
Step(s, a) ==
  \/ SkipNew(s, a) \/ Start(s, a)
  \/ SkipQueued(s, a) \/ Send(s, a)
  \/ Answered(s, a) \/ Failed(s, a) \/ Misconfigured(s, a)
  \/ Judged(s, a) \/ JudgeCrashed(s, a) \/ FailedLate(s, a)
  \/ CancelTask(s, a)

Group(s) == AbortGroup(s) \/ GiveUp(s) \/ Finish(s)

Next ==
  \E s \in Scenario :
    \/ \E a \in AttemptsOf(s) : Step(s, a)
    \/ Group(s)
    \/ CancelScenario(s)

Spec == Init /\ [][Next]_vars

(***************************************************************************)
(* The loop runs every task that can run; requests end because the HTTP    *)
(* client and the judge's have timeouts, and the semaphore serves its      *)
(* waiters first in, first out.  Nothing has to cancel a scenario.         *)
(***************************************************************************)
Fairness ==
  \A s \in Scenario :
    /\ WF_vars(Group(s))
    /\ \A a \in AttemptsOf(s) : WF_vars(Step(s, a))

FairSpec == Spec /\ Fairness
-----------------------------------------------------------------------------
(***************************************************************************)
(* Types.                                                                  *)
(***************************************************************************)
TypeOK ==
  /\ pc \in [Attempt -> Live \cup Over]
  /\ conv \in [Attempt -> Seq(Text)]
  /\ replayed \in [Attempt -> SUBSET Nat]
  /\ requests \in [Attempt -> Seq(Latency)]
  /\ out \in [Attempt -> {"none"} \cup Outcomes]
  /\ passes \in [Scenario -> Nat] /\ fails \in [Scenario -> Nat]
  /\ decided \in [Scenario -> BOOLEAN]
  /\ group \in [Scenario -> {"running", "aborting", "cancelling",
                             "finished", "raised", "cancelled"}]
  /\ result \in [Scenario -> [status : {"none"} \cup Statuses, early_stopped : BOOLEAN]]
  /\ slots \in Nat
  /\ \A e \in responses : e.text \in Text

(***************************************************************************)
(* run.concurrency caps the requests in flight, and no permit is lost on   *)
(* any way out of a request: an answer, an error or a cancellation.        *)
(***************************************************************************)
SlotsConserved == slots + Cardinality({a \in Attempt : pc[a] = "sending"}) = TargetCap

(***************************************************************************)
(* The Stopper's tally, kept as records arrive, is what the result counts  *)
(* over its records at the end.                                            *)
(***************************************************************************)
TallyExact ==
  \A s \in Scenario :
    /\ passes[s] = CountOf(s, PassOutcomes)
    /\ fails[s] = CountOf(s, FailOutcomes)

(***************************************************************************)
(* early_stopped says exactly that attempts were skipped (docs/runs.md,    *)
(* "Early stopping"), and none is skipped when the gate is on the          *)
(* corrected rate, which needs full sampling.                              *)
(***************************************************************************)
StoppedIffSkipped ==
  \A s \in Scenario :
    /\ group[s] = "finished" =>
         (result[s].early_stopped <=> \E a \in AttemptsOf(s) : pc[a] = "skipped")
    /\ GateOn = "corrected" => \A a \in AttemptsOf(s) : pc[a] # "skipped"

(***************************************************************************)
(* RunRecord.requests has one entry per step that was sent, and none for a *)
(* replayed one: it is what the run's cost and latencies are summed from.  *)
(***************************************************************************)
RequestsAccountForSteps ==
  \A a \in Attempt :
    Len(requests[a]) + Cardinality(replayed[a])
      = Len(conv[a]) + (IF out[a] = "transport_error" THEN 1 ELSE 0)

(***************************************************************************)
(* "Once the gate is decided, attempts that have not sent anything are     *)
(* skipped" (the comment on Runner._attempt): none of them sends its first *)
(* request afterwards.                                                     *)
(***************************************************************************)
NoFirstRequestOnceDecided ==
  [][\A s \in Scenario : \A a \in AttemptsOf(s) :
       (decided[s] /\ requests[a] = <<>> /\ pc[a] # "sending") => pc'[a] # "sending"]_vars

(***************************************************************************)
(* Every submitted scenario comes to an end, whatever the target, the      *)
(* judge and the other scenarios do, so no pytest item waits for ever.     *)
(***************************************************************************)
EveryScenarioEnds ==
  \A s \in Scenario : <>(group[s] \in {"finished", "raised", "cancelled"})

(***************************************************************************)
(* An error that stops a scenario is reported: an attempt that raised ends *)
(* the scenario with an exception, even when the session cancels it too.   *)
(***************************************************************************)
RaiseIsReported ==
  \A s \in Scenario :
    (\E a \in AttemptsOf(s) : pc[a] = "raised") ~> (group[s] = "raised")

(***************************************************************************)
(* The runner samples scenarios as module Sampling says.                   *)
(***************************************************************************)
OutcomeOf(a) ==
  CASE pc[a] = "recorded" -> (IF out[a] \in PassOutcomes THEN "pass"
                              ELSE IF out[a] \in FailOutcomes THEN "fail" ELSE "error")
    [] pc[a] = "skipped" -> "skipped"
    [] pc[a] \in {"cancelled", "raised"} -> "dropped"
    [] OTHER -> "open"

VerdictOf(s) ==
  CASE group[s] = "finished" -> result[s].status
    [] group[s] \in {"raised", "cancelled"} -> "withdrawn"
    [] OTHER -> "open"

Abs == INSTANCE Sampling WITH
         Corrected <- GateOn = "corrected",
         outcome <- [a \in Attempt |-> OutcomeOf(a)],
         verdict <- [s \in Scenario |-> VerdictOf(s)]

Samples == Abs!Spec

(* "A stopped scenario's gate verdict is sound" (docs/runs.md). *)
StoppedVerdictSound == Abs!StoppedVerdictSound
=============================================================================
