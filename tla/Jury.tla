-------------------------------- MODULE Jury --------------------------------
(***************************************************************************)
(* The judging of responses: Runner._run_attempt from the point where the  *)
(* final response passed its checks, Runner._vote, the judge's providers   *)
(* and the closing of the Session.  The votes of an attempt are gathered   *)
(* as tasks of their own.  A vote that fails ends the gathering at once    *)
(* and leaves the other votes of the attempt running, orphaned.            *)
(***************************************************************************)
EXTENDS Integers, FiniteSets

CONSTANTS
  Attempt,    (* the attempts whose responses are judged                    *)
  Ballot,     (* the votes asked for an attempt, judge.votes of them        *)
  JudgeCap,   (* judge.concurrency                                          *)
  CacheOn,    (* Cache.enabled                                              *)
  Content,    (* what a verdict's key is computed from: criterion,          *)
              (* scenario, conversation and response, word for word         *)
  Recordings  (* what earlier runs may have left in the verdict cache       *)

ASSUME JuryAssumption ==
  /\ IsFiniteSet(Attempt)
  /\ IsFiniteSet(Ballot) /\ Cardinality(Ballot) % 2 = 1
  /\ JudgeCap \in Nat \ {0}
  /\ CacheOn \in BOOLEAN
  /\ Recordings \subseteq [Content -> {"pass", "fail", "none"}]

VARIABLES
  state,      (* state[a]: the task of attempt a                            *)
  content,    (* content[a]: what a is judged on                            *)
  trouble,    (* trouble[a]: how the first vote of a to fail did            *)
  place,      (* place[v]: the task of vote v                               *)
  doomed,     (* the votes whose task has been told to cancel               *)
  ballot,     (* ballot[v]: the verdict of v, "none" before there is one    *)
  cached,     (* the votes answered from the verdict cache                  *)
  slots,      (* free permits of Resources.judge_slots                      *)
  verdicts,   (* verdicts[c]: the verdict cached for c, or "none"           *)
  billed,     (* the votes for which the judge sent a response it bills     *)
  record,     (* record[a]: the verdict and the fresh votes of RunRecord    *)
  session     (* "open", "closing", "closed" or "stopped"                   *)

voteVars == <<place, doomed, ballot, cached, billed>>
attemptVars == <<state, content, record>>
vars == <<voteVars, attemptVars, trouble, slots, verdicts, session>>

Vote == Attempt \X Ballot
VotesOf(a) == {a} \X Ballot

Verdicts == {"pass", "fail"}
Pending == {"new", "queued", "judging"}
VoteOver == {"done", "failed", "crashed", "cancelled"}
Places == {"idle"} \cup Pending \cup VoteOver
States == {"sampling", "gathering", "cancelling", "judged", "judge_error", "raised", "cancelled"}
Ended == {"judged", "judge_error", "raised", "cancelled"}

(***************************************************************************)
(* Votes measure how much the judge wavers, so verdicts are only cached    *)
(* when there is a single one.                                             *)
(***************************************************************************)
Votes == Cardinality(Ballot)

CachesAnyVotes == CacheOn  (* Mutant: several votes are answered from the cache too. *)

UseCache == CacheOn /\ Votes = 1

PutUnderAnyKey(c, d) ==  (* Mutant: the key leaves the response out. *)
  IF UseCache THEN [x \in Content |-> d] ELSE verdicts

Put(c, d) == IF UseCache THEN [verdicts EXCEPT ![c] = d] ELSE verdicts

Lookup(c) == IF UseCache THEN verdicts[c] ELSE "none"

Init ==
  /\ state = [a \in Attempt |-> "sampling"]
  /\ content \in [Attempt -> Content]
  /\ trouble = [a \in Attempt |-> "none"]
  /\ place = [v \in Vote |-> "idle"]
  /\ doomed = {}
  /\ ballot = [v \in Vote |-> "none"]
  /\ cached = {}
  /\ slots = JudgeCap
  /\ verdicts \in Recordings
  /\ billed = {}
  /\ record = [a \in Attempt |-> [verdict |-> "none", fresh |-> {}]]
  /\ session = "open"
-----------------------------------------------------------------------------
(* The response is there and passed its checks: gather the votes. *)
Gather(a) ==
  /\ state[a] = "sampling"
  /\ state' = [state EXCEPT ![a] = "gathering"]
  /\ place' = [v \in Vote |-> IF v \in VotesOf(a) THEN "new" ELSE place[v]]
  /\ UNCHANGED <<content, record, trouble, doomed, ballot, cached, billed, slots, verdicts, session>>

(***************************************************************************)
(* A vote runs until it is over, cancelled with the gathering, or stopped  *)
(* with the event loop.  Nothing else ends it: not even the end of the     *)
(* attempt.                                                                *)
(***************************************************************************)
Runs(v, p) ==
  /\ place[v] = p
  /\ v \notin doomed
  /\ session # "stopped"

(* Leaving judge_slots, in whatever way the block is left. *)
KeptIfCancelled(v) ==  (* Mutant: a cancelled vote keeps its slot. *)
  IF place[v] = "judging" /\ v \notin doomed THEN slots + 1 ELSE slots

Released(v) == IF place[v] = "judging" THEN slots + 1 ELSE slots

(* The first failed vote is the exception that gather raises. *)
FailsUnheard(v, kind) ==  (* Mutant: nobody hears of it. *)
  /\ place' = [place EXCEPT ![v] = kind]
  /\ UNCHANGED trouble

Fails(v, kind) ==
  /\ place' = [place EXCEPT ![v] = kind]
  /\ trouble' = [trouble EXCEPT ![v[1]] = IF @ = "none" THEN kind ELSE @]

(* _vote up to its first await: answered from the cache, or in for a slot. *)
Replayed(v) ==
  /\ Runs(v, "new")
  /\ Lookup(content[v[1]]) # "none"
  /\ place' = [place EXCEPT ![v] = "done"]
  /\ ballot' = [ballot EXCEPT ![v] = Lookup(content[v[1]])]
  /\ cached' = cached \cup {v}
  /\ UNCHANGED <<attemptVars, trouble, doomed, billed, slots, verdicts, session>>

Enter(v) ==
  /\ Runs(v, "new")
  /\ Lookup(content[v[1]]) = "none"
  /\ IF slots > 0 /\ \A w \in Vote : place[w] # "queued"
       THEN place' = [place EXCEPT ![v] = "judging"] /\ slots' = slots - 1
       ELSE place' = [place EXCEPT ![v] = "queued"] /\ UNCHANGED slots
  /\ UNCHANGED <<attemptVars, trouble, doomed, ballot, cached, billed, verdicts, session>>

TakeSlotUncapped(v) ==  (* Mutant: a waiter goes on without a permit. *)
  /\ Runs(v, "queued")
  /\ place' = [place EXCEPT ![v] = "judging"]
  /\ slots' = slots - 1
  /\ UNCHANGED <<attemptVars, trouble, doomed, ballot, cached, billed, verdicts, session>>

TakeSlot(v) ==
  /\ Runs(v, "queued")
  /\ slots > 0
  /\ place' = [place EXCEPT ![v] = "judging"]
  /\ slots' = slots - 1
  /\ UNCHANGED <<attemptVars, trouble, doomed, ballot, cached, billed, verdicts, session>>

(***************************************************************************)
(* The judge's answer: a verdict; a response that is none (a refusal, no   *)
(* tokens left, no boolean "pass"), which is a ProviderError; no response  *)
(* (no key, or the retries used up); or one whose body is not the JSON     *)
(* that complete_json takes for granted.  The votes of an attempt start    *)
(* together, before an answer can come; a missing key takes no answer.     *)
(***************************************************************************)
AllStarted(a) == \A v \in VotesOf(a) : place[v] # "new"

Asked(v) == Runs(v, "judging") /\ AllStarted(v[1])

Answer(v) ==
  /\ Asked(v)
  /\ \E d \in Verdicts :
       /\ ballot' = [ballot EXCEPT ![v] = d]
       /\ verdicts' = Put(content[v[1]], d)
  /\ place' = [place EXCEPT ![v] = "done"]
  /\ billed' = billed \cup {v}
  /\ slots' = Released(v)
  /\ UNCHANGED <<attemptVars, trouble, doomed, cached, session>>

Refusal(v) ==
  /\ Asked(v)
  /\ Fails(v, "failed")
  /\ billed' = billed \cup {v}
  /\ slots' = Released(v)
  /\ UNCHANGED <<attemptVars, doomed, ballot, cached, verdicts, session>>

NoAnswer(v) ==
  /\ Runs(v, "judging")
  /\ Fails(v, "failed")
  /\ slots' = Released(v)
  /\ UNCHANGED <<attemptVars, doomed, ballot, cached, billed, verdicts, session>>

Garbled(v) ==
  /\ Asked(v)
  /\ Fails(v, "crashed")
  /\ slots' = Released(v)
  /\ UNCHANGED <<attemptVars, doomed, ballot, cached, billed, verdicts, session>>

(* A vote told to cancel does so at the await it is at. *)
CancelVote(v) ==
  /\ v \in doomed
  /\ place[v] \in Pending
  /\ session # "stopped"
  /\ place' = [place EXCEPT ![v] = "cancelled"]
  /\ slots' = Released(v)
  /\ UNCHANGED <<attemptVars, trouble, doomed, ballot, cached, billed, verdicts, session>>
-----------------------------------------------------------------------------
(***************************************************************************)
(* majority_verdict, of an odd number of votes.                            *)
(***************************************************************************)
Majority(V) ==
  IF Cardinality({v \in V : ballot[v] = "pass"}) * 2 > Cardinality(V) THEN "pass" ELSE "fail"

(* The votes that RunRecord.fresh_votes selects. *)
Unfiltered(a) == VotesOf(a)  (* Mutant: votes from the cache are among them. *)

Fresh(a) == VotesOf(a) \ cached

(* All votes are in: the record takes the verdict and the fresh votes. *)
Gathered(a) ==
  /\ state[a] = "gathering"
  /\ \A v \in VotesOf(a) : place[v] = "done"
  /\ state' = [state EXCEPT ![a] = "judged"]
  /\ record' = [record EXCEPT ![a] = [verdict |-> Majority(VotesOf(a)), fresh |-> Fresh(a)]]
  /\ UNCHANGED <<content, voteVars, trouble, slots, verdicts, session>>

(***************************************************************************)
(* A vote failed.  A ProviderError or TransportFailure is the record's     *)
(* judge_error; any other exception is raised to the task group.  So it    *)
(* goes even if the attempt is cancelled before gather has heard of the    *)
(* failure, as long as another vote is there to take the cancellation.     *)
(***************************************************************************)
GatherFailed(a) ==
  /\ state[a] \in {"gathering", "cancelling"}
  /\ AllStarted(a) \/ state[a] = "cancelling"
  /\ trouble[a] # "none"
  /\ state' = [state EXCEPT ![a] = IF trouble[a] = "failed" THEN "judge_error" ELSE "raised"]
  /\ UNCHANGED <<content, record, voteVars, trouble, slots, verdicts, session>>

(***************************************************************************)
(* The task group of the attempt aborts, or its scenario is cancelled:     *)
(* module Runner says when.  Cancelling the attempt cancels the votes it   *)
(* gathers, if there are any left and gather has not heard of a failure    *)
(* yet; else it ends the attempt, and leaves the votes alone.              *)
(***************************************************************************)
PendingVotes(a) == {v \in VotesOf(a) : place[v] \in Pending}

CancelGathering(a) ==
  /\ state[a] = "gathering"
  /\ PendingVotes(a) # {}
  /\ state' = [state EXCEPT ![a] = "cancelling"]
  /\ doomed' = doomed \cup PendingVotes(a)
  /\ UNCHANGED <<content, record, place, ballot, cached, billed, trouble, slots, verdicts, session>>

CancelAttempt(a) ==
  /\ \/ state[a] = "sampling"
     \/ state[a] = "gathering" /\ (PendingVotes(a) = {} \/ trouble[a] # "none")
  /\ state' = [state EXCEPT ![a] = "cancelled"]
  /\ UNCHANGED <<content, record, voteVars, trouble, slots, verdicts, session>>

(* The first vote cancelled ends the gathering. *)
Cancelled(a) ==
  /\ state[a] = "cancelling"
  /\ trouble[a] = "none"
  /\ \E v \in VotesOf(a) : place[v] = "cancelled"
  /\ state' = [state EXCEPT ![a] = "cancelled"]
  /\ UNCHANGED <<content, record, voteVars, trouble, slots, verdicts, session>>

(***************************************************************************)
(* Session.__exit__: _shutdown has the scenarios still running cancelled,  *)
(* awaits them, and closes the client and the provider; then the loop is   *)
(* stopped, with whatever still runs on it.                                *)
(***************************************************************************)
Shutdown ==
  /\ session = "open"
  /\ session' = "closing"
  /\ UNCHANGED <<voteVars, attemptVars, trouble, slots, verdicts>>

AtOnce == TRUE  (* Mutant: whether the attempts have ended or not. *)

AllEnded == \A a \in Attempt : state[a] \in Ended

CloseClients ==
  /\ session = "closing"
  /\ AllEnded
  /\ session' = "closed"
  /\ UNCHANGED <<voteVars, attemptVars, trouble, slots, verdicts>>

StopLoop ==
  /\ session = "closed"
  /\ session' = "stopped"
  /\ UNCHANGED <<voteVars, attemptVars, trouble, slots, verdicts>>
-----------------------------------------------------------------------------
VoteStep(v) ==
  \/ Replayed(v) \/ Enter(v) \/ TakeSlot(v)
  \/ Answer(v) \/ Refusal(v) \/ NoAnswer(v) \/ Garbled(v)
  \/ CancelVote(v)

AttemptStep(a) == Gathered(a) \/ GatherFailed(a) \/ Cancelled(a)

Next ==
  \/ \E v \in Vote : VoteStep(v)
  \/ \E a \in Attempt :
       Gather(a) \/ AttemptStep(a) \/ CancelGathering(a) \/ CancelAttempt(a)
  \/ Shutdown \/ CloseClients \/ StopLoop

Spec == Init /\ [][Next]_vars

(***************************************************************************)
(* The loop runs what can run, and the judge's client times out.  Nothing  *)
(* has to be sampled, cancelled or shut down.                              *)
(***************************************************************************)
Fairness ==
  /\ \A v \in Vote : WF_vars(VoteStep(v))
  /\ \A a \in Attempt : WF_vars(AttemptStep(a))

FairSpec == Spec /\ Fairness
-----------------------------------------------------------------------------
(***************************************************************************)
(* Types.                                                                  *)
(***************************************************************************)
TypeOK ==
  /\ state \in [Attempt -> States]
  /\ content \in [Attempt -> Content]
  /\ trouble \in [Attempt -> {"none", "failed", "crashed"}]
  /\ place \in [Vote -> Places]
  /\ ballot \in [Vote -> Verdicts \cup {"none"}]
  /\ doomed \subseteq Vote /\ cached \subseteq Vote /\ billed \subseteq Vote
  /\ slots \in Nat
  /\ verdicts \in [Content -> Verdicts \cup {"none"}]
  /\ record \in [Attempt -> [verdict : Verdicts \cup {"none"}, fresh : SUBSET Vote]]
  /\ session \in {"open", "closing", "closed", "stopped"}

(***************************************************************************)
(* judge.concurrency caps the requests to the judge, those of orphaned and *)
(* of cancelled votes included, and no permit is lost.                     *)
(***************************************************************************)
JudgeSlotsConserved == slots + Cardinality({v \in Vote : place[v] = "judging"}) = JudgeCap

(***************************************************************************)
(* "Cached verdicts cost nothing and are not counted" (docs/costs.md): the *)
(* fresh votes of the records are requests the judge billed for, one each, *)
(* and a judged attempt counts every vote that it did not get for nothing. *)
(***************************************************************************)
FreshVotesBilled ==
  \A a \in Attempt :
    /\ record[a].fresh \subseteq billed
    /\ state[a] = "judged" => record[a].fresh = billed \cap VotesOf(a)

(***************************************************************************)
(* "Verdicts are not cached at all when votes is above 1, since the point  *)
(* of votes is to re-measure agreement" (docs/runs.md): more than half the *)
(* votes asked for, all of them answers of the judge in this run, stand    *)
(* behind the verdict of an attempt.                                       *)
(***************************************************************************)
VotesAreMeasured ==
  Votes > 1 =>
    \A a \in Attempt :
      state[a] = "judged" =>
        Cardinality({v \in billed \cap VotesOf(a) : ballot[v] = record[a].verdict}) * 2 > Votes

(***************************************************************************)
(* Attempts judged on the same content, word for word, get the same        *)
(* verdict, of this run or of an earlier one: unless the judge was asked   *)
(* twice, which takes two votes that both looked before either was in.     *)
(***************************************************************************)
SameContentSameVerdict ==
  UseCache =>
    \A v, w \in Vote :
      (/\ content[v[1]] = content[w[1]]
       /\ {ballot[v], ballot[w]} = Verdicts)
        => Cardinality({u \in billed : content[u[1]] = content[v[1]]}) > 1

(***************************************************************************)
(* Gathering comes to an end, whatever the judge answers and whenever the  *)
(* attempt is cancelled.                                                   *)
(***************************************************************************)
GatheringEnds ==
  \A a \in Attempt : (state[a] = "gathering") ~> (state[a] \in Ended)

(***************************************************************************)
(* "Cancel whatever pytest never asked for [...] before the client and     *)
(* provider close" (Session._shutdown): the votes still at the judge when  *)
(* they do were told to cancel, or are those that gather left to           *)
(* themselves beside one that failed.                                      *)
(***************************************************************************)
OnlyOrphansOutliveClients ==
  session \in {"closed", "stopped"} =>
    \A v \in Vote \ doomed : place[v] = "judging" => trouble[v[1]] # "none"
=============================================================================
