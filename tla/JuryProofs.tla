----------------------------- MODULE JuryProofs -----------------------------
(***************************************************************************)
(* Proofs about Jury, for any number of attempts, votes and judge slots:   *)
(* its types, the cap on requests to the judge, the count of the votes     *)
(* that cost something, which votes outlive the clients, and what the      *)
(* verdicts of the records and of the cache rest on.                       *)
(***************************************************************************)
EXTENDS Jury, Counting

(* There are finitely many votes, and each is of one attempt. *)
LEMMA VotesFinite ==
  /\ IsFiniteSet(Vote)
  /\ \A a \in Attempt : VotesOf(a) \subseteq Vote
  /\ \A v \in Vote : v[1] \in Attempt
  /\ \A v \in Vote, a \in Attempt : v \in VotesOf(a) <=> v[1] = a
<1>1. IsFiniteSet(Attempt \X Ballot)
  BY FS_Product, JuryAssumption
<1>2. QED
  BY <1>1 DEF Vote, VotesOf
-----------------------------------------------------------------------------
(***************************************************************************)
(* What a step of a vote does, whichever action it is: it goes on or is    *)
(* over, gives back the slot it held unless it takes one, and is done      *)
(* either from the cache or at the judge's expense.                        *)
(***************************************************************************)
Holds(p) == IF p = "judging" THEN 1 ELSE 0

Onward == (Pending \ {"new"}) \cup VoteOver

VoteEffect(v) ==
  /\ place[v] \in Pending
  /\ place' = [place EXCEPT ![v] = place'[v]] /\ place'[v] \in Onward
  /\ slots' \in Nat /\ slots' = slots + Holds(place[v]) - Holds(place'[v])
  /\ UNCHANGED <<attemptVars, doomed, session>>
  /\ \/ place'[v] = "done" /\ cached' = cached \cup {v} /\ billed' = billed
     \/ place'[v] \in {"done", "failed"} /\ billed' = billed \cup {v} /\ cached' = cached
     \/ place'[v] # "done" /\ UNCHANGED <<cached, billed>>

(* Every step of a vote has this effect. *)
LEMMA VoteStepEffect ==
  ASSUME TypeOK, NEW v \in Vote, VoteStep(v)
  PROVE  VoteEffect(v)
<1>1. slots \in Nat /\ place \in [Vote -> Places]
  BY DEF TypeOK
<1>2. \A p \in Onward : place' = [place EXCEPT ![v] = p] => place'[v] = p
  BY <1>1
<1>3. CASE Replayed(v)
  <2>1. /\ place[v] = "new" /\ place' = [place EXCEPT ![v] = "done"] /\ slots' = slots
        /\ cached' = cached \cup {v} /\ UNCHANGED <<attemptVars, doomed, billed, session>>
    BY <1>3 DEF Replayed, Runs
  <2>2. place'[v] = "done"
    BY <1>1, <2>1
  <2>3. QED
    BY <1>1, <2>1, <2>2 DEF VoteEffect, Holds, Pending, Onward, VoteOver
<1>4. CASE Enter(v) \/ TakeSlot(v)
  <2>1. /\ place[v] \in {"new", "queued"} /\ UNCHANGED <<attemptVars, doomed, cached, billed, session>>
        /\ \/ place' = [place EXCEPT ![v] = "judging"] /\ slots > 0 /\ slots' = slots - 1
           \/ place' = [place EXCEPT ![v] = "queued"] /\ slots' = slots
    BY <1>4 DEF Enter, TakeSlot, Runs
  <2>2. CASE place' = [place EXCEPT ![v] = "judging"] /\ slots > 0 /\ slots' = slots - 1
    <3>1. place'[v] = "judging"
      BY <1>1, <2>2
    <3>2. QED
      BY <1>1, <2>1, <2>2, <3>1 DEF VoteEffect, Holds, Pending, Onward
  <2>3. CASE place' = [place EXCEPT ![v] = "queued"] /\ slots' = slots
    <3>1. place'[v] = "queued"
      BY <1>1, <2>3
    <3>2. QED
      BY <1>1, <2>1, <2>3, <3>1 DEF VoteEffect, Holds, Pending, Onward
  <2>4. QED
    BY <2>1, <2>2, <2>3
<1>5. CASE Answer(v)
  <2>1. /\ place[v] = "judging" /\ place' = [place EXCEPT ![v] = "done"] /\ slots' = slots + 1
        /\ billed' = billed \cup {v} /\ UNCHANGED <<attemptVars, doomed, cached, session>>
    BY <1>5 DEF Answer, Asked, Runs, Released
  <2>2. place'[v] = "done"
    BY <1>1, <2>1
  <2>3. QED
    BY <1>1, <2>1, <2>2 DEF VoteEffect, Holds, Pending, Onward, VoteOver
<1>6. CASE Refusal(v)
  <2>1. /\ place[v] = "judging" /\ place' = [place EXCEPT ![v] = "failed"] /\ slots' = slots + 1
        /\ billed' = billed \cup {v} /\ UNCHANGED <<attemptVars, doomed, cached, session>>
    BY <1>6 DEF Refusal, Asked, Runs, Released, Fails
  <2>2. place'[v] = "failed"
    BY <1>1, <2>1
  <2>3. QED
    BY <1>1, <2>1, <2>2 DEF VoteEffect, Holds, Pending, Onward, VoteOver
<1>7. CASE NoAnswer(v) \/ Garbled(v)
  <2>1. /\ place[v] = "judging" /\ slots' = slots + 1
        /\ \E p \in {"failed", "crashed"} : place' = [place EXCEPT ![v] = p]
        /\ UNCHANGED <<attemptVars, doomed, cached, billed, session>>
    BY <1>7 DEF NoAnswer, Garbled, Asked, Runs, Released, Fails
  <2>2. place'[v] \in {"failed", "crashed"} /\ place' = [place EXCEPT ![v] = place'[v]]
    BY <1>1, <2>1
  <2>3. QED
    BY <1>1, <2>1, <2>2 DEF VoteEffect, Holds, Pending, Onward, VoteOver
<1>8. CASE CancelVote(v)
  <2>1. /\ place[v] \in Pending /\ place' = [place EXCEPT ![v] = "cancelled"]
        /\ slots' = (IF place[v] = "judging" THEN slots + 1 ELSE slots)
        /\ UNCHANGED <<attemptVars, doomed, cached, billed, session>>
    BY <1>8 DEF CancelVote, Released, Pending
  <2>2. place'[v] = "cancelled"
    BY <1>1, <2>1
  <2>3. QED
    BY <1>1, <2>1, <2>2 DEF VoteEffect, Holds, Onward, VoteOver
<1>9. QED
  BY <1>3, <1>4, <1>5, <1>6, <1>7, <1>8 DEF VoteStep

(* A step of v leaves every other vote where it is. *)
LEMMA VoteEffectIsLocal ==
  ASSUME TypeOK, NEW v \in Vote, VoteEffect(v)
  PROVE  /\ \A w \in Vote : w # v => place'[w] = place[w]
         /\ cached' \ {v} = cached \ {v} /\ billed' \ {v} = billed \ {v}
<1>1. place \in [Vote -> Places] /\ place' = [place EXCEPT ![v] = place'[v]]
  BY DEF TypeOK, VoteEffect
<1>2. \A w \in Vote : w # v => place'[w] = place[w]
  BY <1>1
<1>3. QED
  BY <1>2 DEF VoteEffect
-----------------------------------------------------------------------------
(***************************************************************************)
(* The invariant.  An attempt not gathered yet has idle votes; a vote done *)
(* was either replayed or billed, not both; a judged attempt has all of    *)
(* its votes and counts those that were not replayed.                      *)
(***************************************************************************)
IdleUntilGathered ==
  \A v \in Vote : state[v[1]] = "sampling" => place[v] = "idle"

DoneOneWay ==
  \A v \in Vote :
    /\ v \in cached => place[v] = "done" /\ v \notin billed
    /\ v \in billed => place[v] \in {"done", "failed"}
    /\ place[v] = "done" => v \in cached \cup billed

JudgedOnAllVotes ==
  \A a \in Attempt :
    IF state[a] = "judged"
      THEN record[a].fresh = VotesOf(a) \ cached /\ \A v \in VotesOf(a) : place[v] = "done"
      ELSE record[a].fresh = {}

IInv == TypeOK /\ JudgeSlotsConserved /\ IdleUntilGathered /\ DoneOneWay /\ JudgedOnAllVotes

Judging == {"judging"}

(* JudgeSlotsConserved in terms of Count. *)
LEMMA SlotsAreCounted ==
  /\ JudgeSlotsConserved <=> slots + Count(Vote, place, Judging) = JudgeCap
  /\ JudgeSlotsConserved' <=> slots' + Count(Vote, place', Judging) = JudgeCap
BY DEF JudgeSlotsConserved, Count, Chosen, Judging

(* The invariant holds at the start, and each group of actions keeps it. *)
LEMMA InitIInv == Init => IInv
<1> SUFFICES ASSUME Init PROVE IInv
  OBVIOUS
<1>1. TypeOK
  BY JuryAssumption DEF Init, TypeOK, States, Places, Pending, VoteOver, Verdicts
<1>2. JudgeSlotsConserved
  <2>1. \A v \in Vote : place[v] \notin Judging
    BY DEF Init, Judging
  <2>2. Count(Vote, place, Judging) = 0
    BY <2>1, CountZero, VotesFinite
  <2>3. QED
    BY <2>2, SlotsAreCounted, JuryAssumption DEF Init
<1>3. IdleUntilGathered /\ DoneOneWay
  BY DEF Init, IdleUntilGathered, DoneOneWay
<1>4. JudgedOnAllVotes
  BY DEF Init, JudgedOnAllVotes
<1>5. QED
  BY <1>1, <1>2, <1>3, <1>4 DEF IInv
-----------------------------------------------------------------------------
(* The verdicts in the cache and on the ballots are verdicts. *)
LEMMA VoteTypes ==
  ASSUME TypeOK, NEW v \in Vote, VoteStep(v)
  PROVE  /\ ballot' \in [Vote -> Verdicts \cup {"none"}]
         /\ verdicts' \in [Content -> Verdicts \cup {"none"}]
         /\ trouble' \in [Attempt -> {"none", "failed", "crashed"}]
<1>1. v[1] \in Attempt /\ content[v[1]] \in Content
  BY VotesFinite DEF TypeOK
<1>2. CASE Replayed(v)
  <2>1. ballot' = [ballot EXCEPT ![v] = Lookup(content[v[1]])] /\ UNCHANGED <<verdicts, trouble>>
    BY <1>2 DEF Replayed
  <2>2. Lookup(content[v[1]]) \in Verdicts \cup {"none"}
    BY <1>1 DEF Lookup, TypeOK
  <2>3. QED
    BY <2>1, <2>2 DEF TypeOK
<1>3. CASE Answer(v)
  <2>1. PICK d \in Verdicts : ballot' = [ballot EXCEPT ![v] = d] /\ verdicts' = Put(content[v[1]], d)
    BY <1>3 DEF Answer
  <2>2. UNCHANGED trouble
    BY <1>3 DEF Answer
  <2>3. QED
    BY <1>1, <2>1, <2>2 DEF TypeOK, Put
<1>4. CASE Refusal(v) \/ NoAnswer(v) \/ Garbled(v)
  <2>1. \E k \in {"failed", "crashed"} : Fails(v, k)
    BY <1>4 DEF Refusal, NoAnswer, Garbled
  <2>2. trouble' \in [Attempt -> {"none", "failed", "crashed"}]
    BY <1>1, <2>1 DEF Fails, TypeOK
  <2>3. UNCHANGED <<ballot, verdicts>>
    BY <1>4 DEF Refusal, NoAnswer, Garbled
  <2>4. QED
    BY <2>2, <2>3 DEF TypeOK
<1>5. CASE Enter(v) \/ TakeSlot(v) \/ CancelVote(v)
  BY <1>5 DEF Enter, TakeSlot, CancelVote, TypeOK
<1>6. QED
  BY <1>2, <1>3, <1>4, <1>5 DEF VoteStep

(* A step of a vote keeps the invariant. *)
LEMMA VoteStepIInv ==
  ASSUME IInv, NEW v \in Vote, VoteStep(v)
  PROVE  IInv'
<1>1. TypeOK /\ VoteEffect(v)
  BY VoteStepEffect DEF IInv
<1>2. UNCHANGED <<state, content, record, doomed, session>>
  BY <1>1 DEF VoteEffect, attemptVars
<1>3. /\ place[v] \in Pending /\ place'[v] \in Onward
      /\ \A w \in Vote : w # v => place'[w] = place[w]
  BY <1>1, VoteEffectIsLocal DEF VoteEffect
<1>4. TypeOK'
  <2>1. place' \in [Vote -> Places]
    <3>1. place \in [Vote -> Places] /\ place' = [place EXCEPT ![v] = place'[v]]
      BY <1>1 DEF TypeOK, VoteEffect
    <3>2. place'[v] \in Places
      BY <1>3 DEF Onward, Pending, VoteOver, Places
    <3>3. QED
      BY <3>1, <3>2
  <2>2. cached' \subseteq Vote /\ billed' \subseteq Vote /\ slots' \in Nat
    BY <1>1 DEF TypeOK, VoteEffect
  <2>3. QED
    BY <1>1, <1>2, <2>1, <2>2, VoteTypes DEF TypeOK
<1>5. JudgeSlotsConserved'
  <2>1. IsFiniteSet(Vote) /\ slots + Count(Vote, place, Judging) = JudgeCap
    BY VotesFinite, SlotsAreCounted DEF IInv
  <2>2. slots' = slots + Holds(place[v]) - Holds(place'[v])
    BY <1>1 DEF VoteEffect
  <2> DEFINE now == Count(Vote, place, Judging)
             next == Count(Vote, place', Judging)
  <2>3. now \in Nat /\ next \in Nat /\ slots \in Nat /\ JudgeCap \in Nat
    BY <1>1, <2>1, CountType, JuryAssumption DEF TypeOK
  <2>4. CASE place[v] = "judging" /\ place'[v] # "judging"
    <3>1. next = now - 1
      <4>1. \A w \in Vote : w # v => (place[w] \in Judging <=> place'[w] \in Judging)
        BY <1>3
      <4>2. place[v] \in Judging /\ place'[v] \notin Judging
        BY <2>4 DEF Judging
      <4>3. QED
        BY <2>1, <4>1, <4>2, CountDecrement
    <3>2. slots' = slots + 1 - 0
      BY <2>2, <2>4 DEF Holds
    <3> HIDE DEF now, next
    <3>3. slots' + next = slots + now
      BY <2>3, <3>1, <3>2
    <3>4. QED
      BY <2>1, <3>3, SlotsAreCounted DEF now, next
  <2>5. CASE place[v] # "judging" /\ place'[v] = "judging"
    <3>1. next = now + 1
      BY <1>3, <2>1, <2>5, CountIncrement DEF Judging
    <3>2. slots' = slots + 0 - 1
      BY <2>2, <2>5 DEF Holds
    <3> HIDE DEF now, next
    <3>3. slots' + next = slots + now
      BY <2>3, <3>1, <3>2
    <3>4. QED
      BY <2>1, <3>3, SlotsAreCounted DEF now, next
  <2>6. CASE (place[v] = "judging") <=> (place'[v] = "judging")
    <3>1. \A w \in Vote : place[w] \in Judging <=> place'[w] \in Judging
      BY <1>3, <2>6 DEF Judging
    <3>2. next = now
      BY <3>1, CountSame
    <3>3. slots' = slots
      BY <2>2, <2>3, <2>6 DEF Holds
    <3>4. QED
      BY <2>1, <3>2, <3>3, SlotsAreCounted
  <2>7. QED
    BY <2>4, <2>5, <2>6
<1>6. IdleUntilGathered'
  <2>1. state[v[1]] # "sampling"
    BY <1>3 DEF IInv, IdleUntilGathered, Pending
  <2>2. QED
    BY <1>2, <1>3, <2>1 DEF IInv, IdleUntilGathered
<1>7. v \notin cached /\ v \notin billed
  BY <1>3 DEF IInv, DoneOneWay, Pending
<1>8. DoneOneWay'
  <2>1. \A w \in Vote : w # v => /\ w \in cached' <=> w \in cached
                                 /\ w \in billed' <=> w \in billed
    BY <1>1 DEF VoteEffect
  <2>2. ASSUME NEW w \in Vote
        PROVE  /\ w \in cached' => place'[w] = "done" /\ w \notin billed'
               /\ w \in billed' => place'[w] \in {"done", "failed"}
               /\ place'[w] = "done" => w \in cached' \cup billed'
    <3>1. CASE w # v
      BY <1>3, <2>1, <3>1 DEF IInv, DoneOneWay
    <3>2. CASE w = v
      BY <1>1, <1>7, <3>2 DEF VoteEffect
    <3>3. QED
      BY <3>1, <3>2
  <2>3. QED
    BY <2>2 DEF DoneOneWay
<1>9. JudgedOnAllVotes'
  <2>1. SUFFICES ASSUME NEW a \in Attempt, state[a] = "judged"
                 PROVE  /\ record[a].fresh = VotesOf(a) \ cached'
                        /\ \A w \in VotesOf(a) : place'[w] = "done"
    BY <1>2 DEF IInv, JudgedOnAllVotes, VotesOf
  <2>2. \A w \in VotesOf(a) : place[w] = "done" /\ w \in Vote
    BY <2>1, VotesFinite DEF IInv, JudgedOnAllVotes
  <2>3. v \notin VotesOf(a)
    BY <1>3, <2>2 DEF Pending
  <2>4. \A w \in VotesOf(a) : w \in cached' <=> w \in cached
    BY <1>1, <2>3 DEF VoteEffect
  <2>5. record[a].fresh = VotesOf(a) \ cached
    BY <2>1 DEF IInv, JudgedOnAllVotes
  <2>6. QED
    BY <1>3, <2>2, <2>3, <2>4, <2>5
<1>10. QED
  BY <1>4, <1>5, <1>6, <1>8, <1>9 DEF IInv
-----------------------------------------------------------------------------
(***************************************************************************)
(* The steps of an attempt but its first: the votes stay where they are,   *)
(* told to cancel or not.                                                  *)
(***************************************************************************)
Resolves(a) == AttemptStep(a) \/ CancelGathering(a) \/ CancelAttempt(a)

(* An attempt whose gathering ends keeps the invariant. *)
LEMMA ResolvesIInv ==
  ASSUME IInv, NEW a \in Attempt, Resolves(a)
  PROVE  IInv'
<1>1. UNCHANGED <<content, place, ballot, cached, billed, trouble, slots, verdicts, session>>
  BY DEF Resolves, AttemptStep, Gathered, GatherFailed, Cancelled, CancelGathering, CancelAttempt, voteVars
<1>2. TypeOK /\ doomed' \subseteq Vote
  <2>1. doomed' \in {doomed, doomed \cup PendingVotes(a)}
    BY DEF Resolves, AttemptStep, Gathered, GatherFailed, Cancelled, CancelGathering, CancelAttempt, voteVars
  <2>2. PendingVotes(a) \subseteq Vote
    BY VotesFinite DEF PendingVotes
  <2>3. QED
    BY <2>1, <2>2 DEF IInv, TypeOK
<1>3. PICK st \in States \ {"sampling"} : state' = [state EXCEPT ![a] = st]
  BY DEF Resolves, AttemptStep, Gathered, GatherFailed, Cancelled, CancelGathering, CancelAttempt, States
<1>4. state[a] # "judged"
  BY DEF Resolves, AttemptStep, Gathered, GatherFailed, Cancelled, CancelGathering, CancelAttempt
<1>5. \A b \in Attempt : state'[b] = IF b = a THEN st ELSE state[b]
  BY <1>2, <1>3 DEF TypeOK
<1>6. IdleUntilGathered' /\ JudgeSlotsConserved' /\ DoneOneWay'
  <2>1. \A v \in Vote : state'[v[1]] = "sampling" => state[v[1]] = "sampling"
    BY <1>3, <1>5, VotesFinite
  <2>2. IdleUntilGathered'
    BY <1>1, <2>1 DEF IInv, IdleUntilGathered
  <2>3. QED
    BY <1>1, <2>2 DEF IInv, JudgeSlotsConserved, DoneOneWay
<1>7. CASE Gathered(a)
  <2>1. /\ record' = [record EXCEPT ![a] = [verdict |-> Majority(VotesOf(a)), fresh |-> Fresh(a)]]
        /\ \A v \in VotesOf(a) : place[v] = "done"
        /\ state' = [state EXCEPT ![a] = "judged"]
    BY <1>7 DEF Gathered
  <2>2. Majority(VotesOf(a)) \in Verdicts \cup {"none"} /\ Fresh(a) \in SUBSET Vote
    BY VotesFinite DEF Majority, Verdicts, Fresh
  <2>3. TypeOK'
    BY <1>1, <1>2, <1>3, <2>1, <2>2 DEF TypeOK
  <2>4. /\ record'[a].fresh = Fresh(a) /\ state'[a] = "judged"
        /\ \A b \in Attempt : b # a => record'[b] = record[b]
    BY <1>2, <2>1 DEF TypeOK
  <2>5. JudgedOnAllVotes'
    BY <1>1, <1>5, <2>1, <2>4 DEF IInv, JudgedOnAllVotes, Fresh, VotesOf
  <2>6. QED
    BY <1>6, <2>3, <2>5 DEF IInv
<1>8. CASE ~Gathered(a)
  <2>1. UNCHANGED record /\ state'[a] # "judged"
    BY <1>2, <1>8 DEF Resolves, AttemptStep, GatherFailed, Cancelled, CancelGathering, CancelAttempt, TypeOK
  <2>2. TypeOK'
    BY <1>1, <1>2, <1>3, <2>1 DEF TypeOK
  <2>3. JudgedOnAllVotes'
    BY <1>1, <1>4, <1>5, <2>1 DEF IInv, JudgedOnAllVotes, VotesOf
  <2>4. QED
    BY <1>6, <2>2, <2>3 DEF IInv
<1>9. QED
  BY <1>7, <1>8

(* An attempt that starts its votes keeps the invariant. *)
LEMMA GatherIInv ==
  ASSUME IInv, NEW a \in Attempt, Gather(a)
  PROVE  IInv'
<1>1. /\ state[a] = "sampling" /\ state' = [state EXCEPT ![a] = "gathering"]
      /\ place' = [v \in Vote |-> IF v \in VotesOf(a) THEN "new" ELSE place[v]]
      /\ UNCHANGED <<content, record, trouble, doomed, ballot, cached, billed, slots, verdicts, session>>
  BY DEF Gather
<1>2. TypeOK
  BY DEF IInv
<1>3. \A b \in Attempt : state'[b] = IF b = a THEN "gathering" ELSE state[b]
  BY <1>1, <1>2 DEF TypeOK
<1>4. \A v \in VotesOf(a) : v \in Vote /\ place[v] = "idle"
  BY <1>1, VotesFinite DEF IInv, IdleUntilGathered
<1>5. TypeOK'
  BY <1>1, <1>2 DEF TypeOK, States, Places, Pending
<1>6. JudgeSlotsConserved'
  <2>1. \A v \in Vote : place[v] \in Judging <=> place'[v] \in Judging
    BY <1>1, <1>4 DEF Judging
  <2>2. Count(Vote, place', Judging) = Count(Vote, place, Judging)
    BY <2>1, CountSame
  <2>3. QED
    BY <1>1, <2>2, SlotsAreCounted DEF IInv
<1>7. IdleUntilGathered'
  <2>1. \A v \in Vote : v[1] # a => v \notin VotesOf(a) /\ v[1] \in Attempt
    BY VotesFinite
  <2>2. QED
    BY <1>1, <1>3, <2>1 DEF IInv, IdleUntilGathered
<1>8. DoneOneWay'
  BY <1>1, <1>4 DEF IInv, DoneOneWay
<1>9. JudgedOnAllVotes'
  <2>1. \A b \in Attempt : b # a => \A v \in VotesOf(b) : v \in Vote /\ v \notin VotesOf(a)
    BY VotesFinite
  <2>2. \A b \in Attempt : b # a => \A v \in VotesOf(b) : place'[v] = place[v]
    BY <1>1, <2>1
  <2>3. QED
    BY <1>1, <1>3, <2>2 DEF IInv, JudgedOnAllVotes, VotesOf
<1>10. QED
  BY <1>5, <1>6, <1>7, <1>8, <1>9 DEF IInv

(* Shutting down touches no vote and no attempt by itself. *)
LEMMA SessionIInv ==
  ASSUME IInv, Shutdown \/ CloseClients \/ StopLoop
  PROVE  IInv'
<1>1. UNCHANGED <<attemptVars, voteVars, trouble, slots, verdicts>>
  BY DEF Shutdown, CloseClients, StopLoop
<1>2. session' \in {"open", "closing", "closed", "stopped"}
  BY DEF Shutdown, CloseClients, StopLoop
<1>3. TypeOK'
  BY <1>1, <1>2 DEF IInv, TypeOK, voteVars, attemptVars
<1>4. QED
  BY <1>1, <1>3 DEF IInv, JudgeSlotsConserved, IdleUntilGathered, DoneOneWay,
                    JudgedOnAllVotes, VotesOf, voteVars, attemptVars

(* Every step keeps the invariant. *)
LEMMA NextIInv == IInv /\ [Next]_vars => IInv'
<1> SUFFICES ASSUME IInv, [Next]_vars PROVE IInv'
  OBVIOUS
<1>1. CASE \E v \in Vote : VoteStep(v)
  BY <1>1, VoteStepIInv
<1>2. CASE \E a \in Attempt : Gather(a)
  BY <1>2, GatherIInv
<1>3. CASE \E a \in Attempt : AttemptStep(a) \/ CancelGathering(a) \/ CancelAttempt(a)
  BY <1>3, ResolvesIInv DEF Resolves
<1>4. CASE Shutdown \/ CloseClients \/ StopLoop
  BY <1>4, SessionIInv
<1>5. CASE UNCHANGED vars
  BY <1>5 DEF vars, voteVars, attemptVars, IInv, TypeOK, JudgeSlotsConserved,
              IdleUntilGathered, DoneOneWay, JudgedOnAllVotes, VotesOf
<1>6. QED
  BY <1>1, <1>2, <1>3, <1>4, <1>5 DEF Next
-----------------------------------------------------------------------------
(* The invariant holds of every behaviour of the jury. *)
THEOREM JuryInvariant == Spec => []IInv
BY InitIInv, NextIInv, PTL DEF Spec

(* Every state of the jury is of its types. *)
THEOREM JuryTypeCorrect == Spec => []TypeOK
<1>1. IInv => TypeOK
  BY DEF IInv
<1>2. QED
  BY <1>1, JuryInvariant, PTL

(***************************************************************************)
(* The requests at the judge and the free permits add up to                *)
(* judge.concurrency, orphaned and cancelled votes included.               *)
(***************************************************************************)
THEOREM JudgeSlotsNeverLeak == Spec => []JudgeSlotsConserved
<1>1. IInv => JudgeSlotsConserved
  BY DEF IInv
<1>2. QED
  BY <1>1, JuryInvariant, PTL

(***************************************************************************)
(* A record counts the votes that cost something, each once, and a judged  *)
(* attempt counts them all.                                                *)
(***************************************************************************)
THEOREM RecordsCountFreshVotes == Spec => []FreshVotesBilled
<1>1. IInv => FreshVotesBilled
  <2> SUFFICES ASSUME IInv, NEW a \in Attempt
               PROVE  /\ record[a].fresh \subseteq billed
                      /\ state[a] = "judged" => record[a].fresh = billed \cap VotesOf(a)
    BY DEF FreshVotesBilled
  <2>1. CASE state[a] = "judged"
    <3>1. /\ record[a].fresh = VotesOf(a) \ cached
          /\ \A v \in VotesOf(a) : place[v] = "done" /\ v \in Vote
      BY <2>1, VotesFinite DEF IInv, JudgedOnAllVotes
    <3>2. \A v \in VotesOf(a) : v \in billed <=> v \notin cached
      BY <3>1 DEF IInv, DoneOneWay
    <3>3. QED
      BY <3>1, <3>2
  <2>2. CASE state[a] # "judged"
    BY <2>2 DEF IInv, JudgedOnAllVotes
  <2>3. QED
    BY <2>1, <2>2
<1>2. QED
  BY <1>1, JuryInvariant, PTL
-----------------------------------------------------------------------------
(***************************************************************************)
(* Orphans.  A vote under way that was not told to cancel is still         *)
(* gathered, or gather has heard of a failure of its attempt: cancelling   *)
(* dooms all votes under way, and an attempt ends without a failure only   *)
(* when none is left.  The clients outlive the attempts.                   *)
(***************************************************************************)
OrphansHaveTrouble ==
  \A v \in Vote \ doomed :
    place[v] \in Pending => state[v[1]] = "gathering" \/ trouble[v[1]] # "none"

ClientsOutliveAttempts == session \in {"closed", "stopped"} => AllEnded

(* A failure of an attempt is never forgotten. *)
LEMMA TroubleStays ==
  ASSUME TypeOK, NEW v \in Vote, VoteStep(v), NEW a \in Attempt, trouble[a] # "none"
  PROVE  trouble'[a] # "none"
<1>1. CASE Refusal(v) \/ NoAnswer(v) \/ Garbled(v)
  <2>1. PICK k \in {"failed", "crashed"} : Fails(v, k)
    BY <1>1 DEF Refusal, NoAnswer, Garbled
  <2>2. QED
    BY <2>1, VotesFinite DEF Fails, TypeOK
<1>2. CASE ~(Refusal(v) \/ NoAnswer(v) \/ Garbled(v))
  BY <1>2 DEF VoteStep, Replayed, Enter, TakeSlot, Answer, CancelVote
<1>3. QED
  BY <1>1, <1>2

(* Every step keeps what is known of votes that outlive their gathering. *)
LEMMA OrphansStep ==
  ASSUME IInv, OrphansHaveTrouble, [Next]_vars
  PROVE  OrphansHaveTrouble'
<1>1. TypeOK
  BY DEF IInv
<1>2. CASE \E v \in Vote : VoteStep(v)
  <2>1. PICK v \in Vote : VoteStep(v)
    BY <1>2
  <2>2. /\ VoteEffect(v) /\ UNCHANGED <<state, doomed>> /\ place[v] \in Pending
        /\ \A w \in Vote : w # v => place'[w] = place[w]
    BY <1>1, <2>1, VoteStepEffect, VoteEffectIsLocal DEF VoteEffect, attemptVars
  <2>3. \A w \in Vote : trouble[w[1]] # "none" => trouble'[w[1]] # "none"
    BY <1>1, <2>1, TroubleStays, VotesFinite
  <2>4. QED
    BY <2>2, <2>3 DEF OrphansHaveTrouble
<1>3. CASE \E a \in Attempt : Gather(a)
  <2>1. PICK a \in Attempt : Gather(a)
    BY <1>3
  <2>2. /\ state' = [state EXCEPT ![a] = "gathering"]
        /\ place' = [v \in Vote |-> IF v \in VotesOf(a) THEN "new" ELSE place[v]]
        /\ UNCHANGED <<doomed, trouble>>
    BY <2>1 DEF Gather
  <2>3. ASSUME NEW v \in Vote, v \notin doomed, place'[v] \in Pending
        PROVE  state'[v[1]] = "gathering" \/ trouble[v[1]] # "none"
    <3>1. CASE v[1] = a
      BY <1>1, <2>2, <3>1 DEF TypeOK
    <3>2. CASE v[1] # a
      BY <1>1, <2>2, <2>3, <3>2, VotesFinite DEF OrphansHaveTrouble, TypeOK
    <3>3. QED
      BY <3>1, <3>2
  <2>4. QED
    BY <2>2, <2>3 DEF OrphansHaveTrouble
<1>4. CASE \E a \in Attempt : Resolves(a)
  <2>1. PICK a \in Attempt : Resolves(a)
    BY <1>4
  <2>2. /\ UNCHANGED <<place, trouble>> /\ doomed \subseteq doomed'
        /\ \A b \in Attempt : b # a => state'[b] = state[b]
    BY <1>1, <2>1 DEF Resolves, AttemptStep, Gathered, GatherFailed, Cancelled,
                      CancelGathering, CancelAttempt, voteVars, TypeOK
  <2>3. ASSUME NEW v \in VotesOf(a), v \notin doomed', place[v] \in Pending
        PROVE  trouble[a] # "none"
    <3>1. v \in Vote /\ v[1] = a /\ v \in PendingVotes(a) /\ v \notin doomed
      BY <2>2, <2>3, VotesFinite DEF PendingVotes
    <3>2. state[a] = "gathering" \/ trouble[a] # "none"
      BY <2>3, <3>1 DEF OrphansHaveTrouble
    <3>3. ~Gathered(a)
      BY <2>3 DEF Gathered, Pending
    <3>4. ~CancelGathering(a)
      BY <2>3, <3>1 DEF CancelGathering
    <3>5. CASE GatherFailed(a) \/ Cancelled(a)
      BY <3>2, <3>5 DEF GatherFailed, Cancelled
    <3>6. CASE CancelAttempt(a)
      BY <3>1, <3>2, <3>6 DEF CancelAttempt
    <3>7. QED
      BY <2>1, <3>3, <3>4, <3>5, <3>6 DEF Resolves, AttemptStep
  <2>4. QED
    BY <2>2, <2>3, VotesFinite DEF OrphansHaveTrouble
<1>5. CASE Shutdown \/ CloseClients \/ StopLoop
  BY <1>5 DEF Shutdown, CloseClients, StopLoop, voteVars, attemptVars, OrphansHaveTrouble
<1>6. CASE UNCHANGED vars
  BY <1>6 DEF vars, voteVars, attemptVars, OrphansHaveTrouble
<1>7. QED
  BY <1>2, <1>3, <1>4, <1>5, <1>6 DEF Next, Resolves

(* An attempt that has ended stays as it is. *)
LEMMA EndedStays ==
  ASSUME TypeOK, [Next]_vars, NEW a \in Attempt, state[a] \in Ended
  PROVE  state'[a] = state[a]
<1>1. CASE \E v \in Vote : VoteStep(v)
  BY <1>1, VoteStepEffect DEF VoteEffect, attemptVars
<1>2. CASE \E b \in Attempt : Gather(b) \/ AttemptStep(b) \/ CancelGathering(b) \/ CancelAttempt(b)
  <2>1. PICK b \in Attempt : Gather(b) \/ AttemptStep(b) \/ CancelGathering(b) \/ CancelAttempt(b)
    BY <1>2
  <2>2. state[b] \notin Ended /\ \E s \in States : state' = [state EXCEPT ![b] = s]
    BY <2>1 DEF Gather, AttemptStep, Gathered, GatherFailed, Cancelled, CancelGathering,
                CancelAttempt, Ended, States
  <2>3. QED
    BY <2>2 DEF TypeOK
<1>3. CASE Shutdown \/ CloseClients \/ StopLoop \/ UNCHANGED vars
  BY <1>3 DEF Shutdown, CloseClients, StopLoop, vars, attemptVars
<1>4. QED
  BY <1>1, <1>2, <1>3 DEF Next

(* No step opens an attempt once the clients are closed. *)
LEMMA ClientsStep ==
  ASSUME TypeOK, ClientsOutliveAttempts, [Next]_vars
  PROVE  ClientsOutliveAttempts'
<1>1. AllEnded => AllEnded'
  BY EndedStays DEF AllEnded
<1>2. session' = session \/ CloseClients \/ session \in {"closed", "stopped"} \/ Shutdown
  <2>1. CASE \E v \in Vote : VoteStep(v)
    BY <2>1, VoteStepEffect DEF VoteEffect
  <2>2. CASE ~\E v \in Vote : VoteStep(v)
    BY <2>2 DEF Next, vars, Gather, AttemptStep, Gathered, GatherFailed, Cancelled,
                CancelGathering, CancelAttempt, StopLoop
  <2>3. QED
    BY <2>1, <2>2
<1>3. QED
  BY <1>1, <1>2 DEF ClientsOutliveAttempts, CloseClients, Shutdown

(***************************************************************************)
(* What is still at the judge when its client closes was told to cancel,   *)
(* or was left alone beside a vote that failed.                            *)
(***************************************************************************)
THEOREM OrphansExplained == Spec => []OnlyOrphansOutliveClients
<1>1. Init => OrphansHaveTrouble /\ ClientsOutliveAttempts
  BY DEF Init, OrphansHaveTrouble, ClientsOutliveAttempts, Pending
<1>2. IInv /\ OrphansHaveTrouble /\ ClientsOutliveAttempts /\ [Next]_vars
        => (OrphansHaveTrouble /\ ClientsOutliveAttempts)'
  BY OrphansStep, ClientsStep DEF IInv
<1>3. OrphansHaveTrouble /\ ClientsOutliveAttempts => OnlyOrphansOutliveClients
  BY VotesFinite DEF OrphansHaveTrouble, ClientsOutliveAttempts, OnlyOrphansOutliveClients,
                     AllEnded, Ended, Pending
<1>4. QED
  BY <1>1, <1>2, <1>3, JuryInvariant, PTL DEF Spec
-----------------------------------------------------------------------------
(***************************************************************************)
(* Verdicts.  Several votes are never answered from the cache, a vote done *)
(* has cast its ballot for good, and a judged attempt has the verdict of   *)
(* the majority of its ballots.                                            *)
(***************************************************************************)
SeveralVotesUncached == Votes > 1 => cached = {}

BallotOfDone == \A v \in Vote : place[v] = "done" => ballot[v] \in Verdicts

VerdictOfMajority ==
  \A a \in Attempt : state[a] = "judged" => record[a].verdict = Majority(VotesOf(a))

Verdict == SeveralVotesUncached /\ BallotOfDone /\ VerdictOfMajority

(* A vote casts its ballot when it is done, and touches no other. *)
LEMMA BallotEffect ==
  ASSUME TypeOK, NEW v \in Vote, VoteStep(v)
  PROVE  /\ \A w \in Vote : w # v => ballot'[w] = ballot[w]
         /\ place'[v] = "done" => ballot'[v] \in Verdicts
         /\ cached' = cached \/ UseCache
<1>1. CASE Replayed(v)
  <2>1. Lookup(content[v[1]]) \in Verdicts
    <3>1. content[v[1]] \in Content
      BY VotesFinite DEF TypeOK
    <3>2. QED
      BY <1>1, <3>1 DEF Replayed, Lookup, TypeOK
  <2>2. UseCache
    BY <1>1 DEF Replayed, Lookup
  <2>3. QED
    BY <1>1, <2>1, <2>2 DEF Replayed, TypeOK
<1>2. CASE Answer(v)
  BY <1>2 DEF Answer, TypeOK
<1>3. CASE ~Replayed(v) /\ ~Answer(v)
  <2>1. \E p \in Places \ {"done"} : place' = [place EXCEPT ![v] = p]
    BY <1>3 DEF VoteStep, Enter, TakeSlot, Refusal, NoAnswer, Garbled, Fails, CancelVote,
                Places, Pending, VoteOver
  <2>2. UNCHANGED <<ballot, cached>>
    BY <1>3 DEF VoteStep, Enter, TakeSlot, Refusal, NoAnswer, Garbled, CancelVote
  <2>3. QED
    BY <2>1, <2>2 DEF TypeOK
<1>4. QED
  BY <1>1, <1>2, <1>3

(* Every step keeps what verdicts rest on. *)
LEMMA VerdictStep ==
  ASSUME IInv, Verdict, [Next]_vars
  PROVE  Verdict'
<1>1. TypeOK
  BY DEF IInv
<1>2. CASE \E v \in Vote : VoteStep(v)
  <2>1. PICK v \in Vote : VoteStep(v)
    BY <1>2
  <2>2. /\ UNCHANGED <<state, record>> /\ place[v] \in Pending
        /\ \A w \in Vote : w # v => place'[w] = place[w] /\ ballot'[w] = ballot[w]
        /\ place'[v] = "done" => ballot'[v] \in Verdicts
    BY <1>1, <2>1, VoteStepEffect, VoteEffectIsLocal, BallotEffect DEF VoteEffect, attemptVars
  <2>3. SeveralVotesUncached'
    BY <1>1, <2>1, BallotEffect DEF Verdict, SeveralVotesUncached, UseCache, Votes
  <2>4. BallotOfDone'
    BY <2>2 DEF Verdict, BallotOfDone
  <2>5. ASSUME NEW a \in Attempt, state[a] = "judged"
        PROVE  record[a].verdict = Majority(VotesOf(a))'
    <3>1. \A w \in VotesOf(a) : w \in Vote /\ w # v
      BY <2>2, <2>5, VotesFinite DEF IInv, JudgedOnAllVotes, Pending
    <3>2. {w \in VotesOf(a) : ballot'[w] = "pass"} = {w \in VotesOf(a) : ballot[w] = "pass"}
      BY <2>2, <3>1
    <3>3. Majority(VotesOf(a))' = Majority(VotesOf(a))
      BY <3>2 DEF Majority, VotesOf
    <3>4. QED
      BY <2>5, <3>3 DEF Verdict, VerdictOfMajority
  <2>6. QED
    BY <2>2, <2>3, <2>4, <2>5 DEF Verdict, VerdictOfMajority
<1>3. CASE \E a \in Attempt : Gather(a)
  <2>1. PICK a \in Attempt : Gather(a)
    BY <1>3
  <2>2. /\ state' = [state EXCEPT ![a] = "gathering"]
        /\ place' = [v \in Vote |-> IF v \in VotesOf(a) THEN "new" ELSE place[v]]
        /\ UNCHANGED <<record, ballot, cached>>
    BY <2>1 DEF Gather
  <2>3. SeveralVotesUncached' /\ BallotOfDone'
    BY <2>2 DEF Verdict, SeveralVotesUncached, BallotOfDone, Votes
  <2>4. VerdictOfMajority'
    BY <1>1, <2>2 DEF Verdict, VerdictOfMajority, Majority, VotesOf, TypeOK
  <2>5. QED
    BY <2>3, <2>4 DEF Verdict
<1>4. CASE \E a \in Attempt : Resolves(a)
  <2>1. PICK a \in Attempt : Resolves(a)
    BY <1>4
  <2>2. UNCHANGED <<place, ballot, cached>>
    BY <2>1 DEF Resolves, AttemptStep, Gathered, GatherFailed, Cancelled,
                CancelGathering, CancelAttempt, voteVars
  <2>3. SeveralVotesUncached' /\ BallotOfDone'
    BY <2>2 DEF Verdict, SeveralVotesUncached, BallotOfDone, Votes
  <2>4. VerdictOfMajority'
    <3>1. CASE Gathered(a)
      <4>1. /\ state' = [state EXCEPT ![a] = "judged"]
            /\ record' = [record EXCEPT ![a] = [verdict |-> Majority(VotesOf(a)), fresh |-> Fresh(a)]]
        BY <3>1 DEF Gathered
      <4>2. \A b \in Attempt : Majority(VotesOf(b))' = Majority(VotesOf(b))
        BY <2>2 DEF Majority, VotesOf
      <4>3. record'[a].verdict = Majority(VotesOf(a))
        BY <1>1, <4>1 DEF TypeOK
      <4>4. \A b \in Attempt : b # a => state'[b] = state[b] /\ record'[b] = record[b]
        BY <1>1, <4>1 DEF TypeOK
      <4>5. QED
        BY <4>2, <4>3, <4>4 DEF Verdict, VerdictOfMajority
    <3>2. CASE ~Gathered(a)
      <4>1. UNCHANGED record /\ \E s \in States \ {"judged"} : state' = [state EXCEPT ![a] = s]
        BY <2>1, <3>2 DEF Resolves, AttemptStep, GatherFailed, Cancelled, CancelGathering,
                          CancelAttempt, States
      <4>2. QED
        BY <1>1, <2>2, <4>1 DEF Verdict, VerdictOfMajority, Majority, VotesOf, TypeOK
    <3>3. QED
      BY <3>1, <3>2
  <2>5. QED
    BY <2>3, <2>4 DEF Verdict
<1>5. CASE Shutdown \/ CloseClients \/ StopLoop \/ UNCHANGED vars
  <2>1. UNCHANGED <<voteVars, attemptVars>>
    BY <1>5 DEF Shutdown, CloseClients, StopLoop, vars
  <2>2. QED
    BY <2>1 DEF voteVars, attemptVars, Verdict, SeveralVotesUncached, BallotOfDone,
                VerdictOfMajority, Majority, VotesOf, Votes
<1>6. QED
  BY <1>2, <1>3, <1>4, <1>5 DEF Next, Resolves

(* An attempt has as many votes as are asked for, an odd number. *)
LEMMA VotesAreOdd ==
  ASSUME NEW a \in Attempt
  PROVE  /\ IsFiniteSet(VotesOf(a))
         /\ Cardinality(VotesOf(a)) = Votes
         /\ Votes \in Nat /\ Votes % 2 = 1
<1>1. IsFiniteSet({a}) /\ Cardinality({a}) = 1
  BY FS_Singleton
<1>2. /\ IsFiniteSet(VotesOf(a))
      /\ Cardinality(VotesOf(a)) = Cardinality({a}) * Cardinality(Ballot)
  BY <1>1, FS_Product, JuryAssumption DEF VotesOf
<1>3. Cardinality(Ballot) \in Nat
  BY FS_CardinalityType, JuryAssumption
<1>4. QED
  BY <1>1, <1>2, <1>3, JuryAssumption DEF Votes

(* The majority is more than half, as the votes are odd. *)
LEMMA MajorityIsMoreThanHalf ==
  ASSUME NEW a \in Attempt, \A v \in VotesOf(a) : ballot[v] \in Verdicts
  PROVE  Cardinality({v \in VotesOf(a) : ballot[v] = Majority(VotesOf(a))}) * 2 > Votes
<1> DEFINE For(d) == {v \in VotesOf(a) : ballot[v] = d}
           passes == Cardinality(For("pass"))
           fails == Cardinality(For("fail"))
<1>1. IsFiniteSet(For("pass")) /\ IsFiniteSet(For("fail"))
  <2>1. For("pass") \in SUBSET VotesOf(a) /\ For("fail") \in SUBSET VotesOf(a)
    OBVIOUS
  <2>2. QED
    BY <2>1, VotesAreOdd, FS_Subset
<1>2. For("pass") \cap For("fail") = {} /\ For("pass") \cup For("fail") = VotesOf(a)
  BY DEF Verdicts
<1>3. passes \in Nat /\ fails \in Nat
  BY <1>1, FS_CardinalityType
<1>4. passes + fails = Votes
  <2>1. Cardinality(For("pass") \cup For("fail")) = passes + fails
    BY <1>1, <1>2, DisjointUnion
  <2>2. QED
    BY <1>2, <2>1, VotesAreOdd
<1>5. Majority(VotesOf(a)) = IF passes * 2 > Votes THEN "pass" ELSE "fail"
  BY VotesAreOdd DEF Majority
<1> HIDE DEF passes, fails
<1>6. CASE passes * 2 > Votes
  BY <1>5, <1>6 DEF passes
<1>7. CASE ~(passes * 2 > Votes)
  <2>1. fails * 2 > Votes
    BY <1>3, <1>4, <1>7, VotesAreOdd
  <2>2. QED
    BY <1>5, <1>7, <2>1 DEF fails
<1>8. QED
  BY <1>6, <1>7

(***************************************************************************)
(* More than half the votes of a judged attempt, all of them answers of    *)
(* this run's judge, stand behind its verdict, if several are asked for.   *)
(***************************************************************************)
THEOREM VerdictsAreMeasured == Spec => []VotesAreMeasured
<1>1. Init => Verdict
  BY DEF Init, Verdict, SeveralVotesUncached, BallotOfDone, VerdictOfMajority
<1>2. IInv /\ Verdict /\ [Next]_vars => Verdict'
  BY VerdictStep
<1>3. IInv /\ Verdict => VotesAreMeasured
  <2> SUFFICES ASSUME IInv, Verdict, Votes > 1, NEW a \in Attempt, state[a] = "judged"
               PROVE  Cardinality({v \in billed \cap VotesOf(a) : ballot[v] = record[a].verdict}) * 2 > Votes
    BY DEF VotesAreMeasured
  <2>1. \A v \in VotesOf(a) : v \in Vote /\ place[v] = "done" /\ v \in billed
    BY VotesFinite DEF IInv, JudgedOnAllVotes, DoneOneWay, Verdict, SeveralVotesUncached
  <2>2. \A v \in VotesOf(a) : ballot[v] \in Verdicts
    BY <2>1 DEF Verdict, BallotOfDone
  <2>3. record[a].verdict = Majority(VotesOf(a))
    BY DEF Verdict, VerdictOfMajority
  <2>4. {v \in billed \cap VotesOf(a) : ballot[v] = record[a].verdict}
          = {v \in VotesOf(a) : ballot[v] = Majority(VotesOf(a))}
    BY <2>1, <2>3
  <2>5. QED
    BY <2>2, <2>4, MajorityIsMoreThanHalf
<1>4. QED
  BY <1>1, <1>2, <1>3, JuryInvariant, PTL DEF Spec
-----------------------------------------------------------------------------
(***************************************************************************)
(* The verdict cache.  While the judge billed for at most one vote on a    *)
(* content, every ballot on that content is the verdict cached for it; and *)
(* while it billed for none, a vote is on its way to the judge only if     *)
(* there is no verdict.  The second part makes the first inductive: the    *)
(* first answer finds no ballot that it could contradict.                  *)
(***************************************************************************)
AskedFor(c) == {u \in billed : content[u[1]] = c}

AskedTwice(c) == \E u, w \in AskedFor(c) : u # w

BallotsAreCached ==
  UseCache =>
    \A v \in Vote :
      ballot[v] # "none" /\ ~AskedTwice(content[v[1]]) => ballot[v] = verdicts[content[v[1]]]

AskedForWant ==
  UseCache =>
    \A v \in Vote :
      place[v] \in {"queued", "judging"} /\ AskedFor(content[v[1]]) = {}
        => verdicts[content[v[1]]] = "none"

Remembered == BallotsAreCached /\ AskedForWant

(* The judge's answer to v: any ballot before it was on another content. *)
LEMMA AnswerIsRemembered ==
  ASSUME IInv, Remembered, UseCache, NEW v \in Vote, Answer(v)
  PROVE  Remembered'
<1> DEFINE c == content[v[1]]
<1>1. PICK d \in Verdicts : ballot' = [ballot EXCEPT ![v] = d] /\ verdicts' = [verdicts EXCEPT ![c] = d]
  BY DEF Answer, Put
<1>2. /\ place[v] = "judging" /\ place' = [place EXCEPT ![v] = "done"]
      /\ billed' = billed \cup {v} /\ v \notin billed /\ UNCHANGED content
  BY DEF Answer, Asked, Runs, attemptVars, IInv, DoneOneWay
<1>3. TypeOK /\ c \in Content /\ \A w \in Vote : content[w[1]] \in Content
  BY VotesFinite DEF IInv, TypeOK
<1>4. \A k \in Content : verdicts'[k] = IF k = c THEN d ELSE verdicts[k]
  BY <1>1, <1>3 DEF TypeOK
<1>5. \A w \in Vote : ballot'[w] = IF w = v THEN d ELSE ballot[w]
  BY <1>1, <1>3 DEF TypeOK
<1>6. \A w \in Vote : place'[w] = IF w = v THEN "done" ELSE place[w]
  BY <1>2, <1>3 DEF TypeOK
<1>7. v \in AskedFor(c)' /\ \A k : AskedFor(k) \subseteq AskedFor(k)'
  BY <1>2 DEF AskedFor
<1>8. ~AskedTwice(c)' => AskedFor(c) = {}
  <2>1. ASSUME NEW u \in AskedFor(c)
        PROVE  AskedTwice(c)'
    <3>1. u \in AskedFor(c)' /\ u # v
      BY <1>2, <1>7 DEF AskedFor
    <3>2. QED
      BY <1>7, <3>1 DEF AskedTwice
  <2>2. QED
    BY <2>1
<1>9. ASSUME NEW w \in Vote, ballot'[w] # "none", ~AskedTwice(content[w[1]])'
      PROVE  ballot'[w] = verdicts'[content[w[1]]]
  <2>1. ~AskedTwice(content[w[1]])
    BY <1>2, <1>9 DEF AskedTwice, AskedFor
  <2>2. CASE content[w[1]] = c /\ w # v
    <3>1. AskedFor(c) = {} /\ verdicts[c] = "none"
      BY <1>2, <1>8, <1>9, <2>2 DEF Remembered, AskedForWant
    <3>2. QED
      BY <1>5, <1>9, <2>1, <2>2, <3>1 DEF Remembered, BallotsAreCached
  <2>3. CASE content[w[1]] # c
    BY <1>3, <1>4, <1>5, <1>9, <2>1, <2>3 DEF Remembered, BallotsAreCached
  <2>4. CASE w = v
    BY <1>3, <1>4, <1>5, <2>4
  <2>5. QED
    BY <2>2, <2>3, <2>4
<1>10. ASSUME NEW w \in Vote, place'[w] \in {"queued", "judging"}, AskedFor(content[w[1]])' = {}
       PROVE  verdicts'[content[w[1]]] = "none"
  <2>1. content[w[1]] # c /\ AskedFor(content[w[1]]) = {} /\ place[w] \in {"queued", "judging"}
    BY <1>2, <1>6, <1>10 DEF AskedFor
  <2>2. QED
    BY <1>3, <1>4, <2>1 DEF Remembered, AskedForWant
<1>11. QED
  BY <1>2, <1>9, <1>10 DEF Remembered, BallotsAreCached, AskedForWant

(* Any other step of a vote leaves the cached verdicts alone. *)
LEMMA OtherStepIsRemembered ==
  ASSUME IInv, Remembered, UseCache, NEW v \in Vote, VoteStep(v), ~Answer(v)
  PROVE  Remembered'
<1>1. TypeOK /\ UNCHANGED <<content, verdicts>> /\ billed \subseteq billed'
  <2>1. UNCHANGED verdicts
    BY DEF VoteStep, Replayed, Enter, TakeSlot, Refusal, NoAnswer, Garbled, CancelVote
  <2>2. QED
    BY <2>1, VoteStepEffect DEF IInv, VoteEffect, attemptVars
<1>2. \A k : (AskedFor(k)' = {} => AskedFor(k) = {}) /\ (AskedTwice(k) => AskedTwice(k)')
  BY <1>1 DEF AskedFor, AskedTwice
<1>3. /\ \A w \in Vote : w # v => place'[w] = place[w] /\ ballot'[w] = ballot[w]
      /\ \/ ballot'[v] = ballot[v]
         \/ ballot'[v] = verdicts[content[v[1]]]
      /\ \/ place'[v] \notin {"queued", "judging"}
         \/ place[v] \in {"queued", "judging"}
         \/ verdicts[content[v[1]]] = "none"
  <2>1. \A w \in Vote : w # v => place'[w] = place[w] /\ ballot'[w] = ballot[w]
    BY <1>1, VoteStepEffect, VoteEffectIsLocal, BallotEffect
  <2>2. CASE Replayed(v)
    BY <1>1, <2>1, <2>2 DEF Replayed, Lookup, TypeOK
  <2>3. CASE Enter(v)
    BY <1>1, <2>1, <2>3 DEF Enter, Lookup, TypeOK
  <2>4. CASE TakeSlot(v)
    BY <1>1, <2>1, <2>4 DEF TakeSlot, Runs, TypeOK
  <2>5. CASE Refusal(v) \/ NoAnswer(v) \/ Garbled(v) \/ CancelVote(v)
    <3>1. ballot' = ballot /\ \E p \in VoteOver : place' = [place EXCEPT ![v] = p]
      BY <2>5 DEF Refusal, NoAnswer, Garbled, CancelVote, Fails, VoteOver
    <3>2. place'[v] \notin {"queued", "judging"}
      BY <1>1, <3>1 DEF TypeOK, VoteOver
    <3>3. QED
      BY <2>1, <3>1, <3>2
  <2>6. QED
    BY <2>2, <2>3, <2>4, <2>5 DEF VoteStep
<1>4. BallotsAreCached'
  BY <1>1, <1>2, <1>3 DEF Remembered, BallotsAreCached
<1>5. AskedForWant'
  BY <1>1, <1>2, <1>3 DEF Remembered, AskedForWant
<1>6. QED
  BY <1>4, <1>5 DEF Remembered

(* Every step keeps what the cache remembers. *)
LEMMA RememberedStep ==
  ASSUME IInv, Remembered, [Next]_vars
  PROVE  Remembered'
<1> USE DEF UseCache, Votes
<1>1. SUFFICES ASSUME UseCache PROVE Remembered'
  BY DEF Remembered, BallotsAreCached, AskedForWant
<1>2. CASE \E v \in Vote : VoteStep(v)
  BY <1>1, <1>2, AnswerIsRemembered, OtherStepIsRemembered
<1>3. CASE ~\E v \in Vote : VoteStep(v)
  <2>1. UNCHANGED <<content, ballot, billed, verdicts>>
    BY <1>3 DEF Next, Gather, AttemptStep, Gathered, GatherFailed, Cancelled, CancelGathering,
                CancelAttempt, Shutdown, CloseClients, StopLoop, vars, voteVars, attemptVars
  <2>2. \A v \in Vote : place'[v] \in {"queued", "judging"} => place'[v] = place[v]
    <3>1. CASE \E a \in Attempt : Gather(a)
      BY <3>1 DEF Gather
    <3>2. CASE ~\E a \in Attempt : Gather(a)
      BY <1>3, <3>2 DEF Next, AttemptStep, Gathered, GatherFailed, Cancelled, CancelGathering,
                  CancelAttempt, Shutdown, CloseClients, StopLoop, vars, voteVars
    <3>3. QED
      BY <3>1, <3>2
  <2>3. QED
    BY <2>1, <2>2 DEF Remembered, BallotsAreCached, AskedForWant, AskedFor, AskedTwice
<1>4. QED
  BY <1>2, <1>3

(***************************************************************************)
(* Attempts judged on the same content get the same verdict, of this run   *)
(* or of an earlier one, unless the judge was asked for it twice.          *)
(***************************************************************************)
THEOREM CachedVerdictsAgree == Spec => []SameContentSameVerdict
<1>1. Init => Remembered
  BY DEF Init, Remembered, BallotsAreCached, AskedForWant
<1>2. IInv /\ Remembered /\ [Next]_vars => Remembered'
  BY RememberedStep
<1>3. IInv /\ Remembered => SameContentSameVerdict
  <2> SUFFICES ASSUME IInv, Remembered, UseCache, NEW v \in Vote, NEW w \in Vote,
                      content[v[1]] = content[w[1]], {ballot[v], ballot[w]} = Verdicts
               PROVE  Cardinality(AskedFor(content[v[1]])) > 1
    BY DEF SameContentSameVerdict, AskedFor
  <2> DEFINE c == content[v[1]]
  <2>1. ballot[v] # "none" /\ ballot[w] # "none" /\ ballot[v] # ballot[w]
    BY DEF Verdicts
  <2>2. AskedTwice(c)
    BY <2>1 DEF Remembered, BallotsAreCached
  <2>3. PICK x \in AskedFor(c), y \in AskedFor(c) : x # y
    BY <2>2 DEF AskedTwice
  <2>4. IsFiniteSet(AskedFor(c))
    <3>1. AskedFor(c) \in SUBSET Vote
      BY DEF IInv, TypeOK, AskedFor
    <3>2. QED
      BY <3>1, VotesFinite, FS_Subset
  <2>5. IsFiniteSet(AskedFor(c) \ {x}) /\ Cardinality(AskedFor(c) \ {x}) = Cardinality(AskedFor(c)) - 1
    BY <2>3, <2>4, FS_RemoveElement
  <2>6. Cardinality(AskedFor(c) \ {x}) \in Nat /\ Cardinality(AskedFor(c) \ {x}) # 0
    <3>1. y \in AskedFor(c) \ {x}
      BY <2>3
    <3>2. QED
      BY <2>5, <3>1, FS_CardinalityType, FS_EmptySet
  <2>7. Cardinality(AskedFor(c)) \in Nat
    BY <2>4, FS_CardinalityType
  <2>8. QED
    BY <2>5, <2>6, <2>7
<1>4. QED
  BY <1>1, <1>2, <1>3, JuryInvariant, PTL DEF Spec
=============================================================================
