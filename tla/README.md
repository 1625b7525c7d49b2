# TLA+ models of juried

juried tests a feature that answers in natural language. A *scenario* is sampled by
several *attempts*; each attempt holds a conversation with the *target* (the feature under
test), its final response is checked by deterministic checks and then judged by a language
model, possibly by several votes; and the *gate* of the scenario (`runs`, `misses`) turns
the attempts into a verdict. All scenarios of a run are sampled at once on one asyncio
event loop, behind two concurrency caps, and a scenario stops sampling once its gate is
decided. Around the run are commands that share files with it: labelled cases measure the
judge, a queue of responses waits for labels, scenario files are generated, and reports
are compared.

These modules model all of that as state machines and as exact arithmetic. TLC checks small
instances; TLAPS proves the safety properties, all but one, for every number of scenarios, attempts,
votes, slots, retries, workers, items, labelled cases and queued responses. Paths below are relative to the repository's
`src/juried`, those of documents to the repository.

## The system

| Component | State | Operations | Correct when |
|---|---|---|---|
| Gate and stopping: `stats.py`, `Stopper` and `ScenarioResult` in `runner.py` | passes, fails, decided | `build_gate`, `Gate.met`, `Stopper.record`, `status` | the verdict of a stopped scenario is that of full sampling |
| Runner: `runner.py` 429-675 | tasks of attempts, conversations, records, task group, target slots | `run_with`, `_attempt`, `_run_attempt`, `_send` | every scenario ends; no slot is lost; skips, tallies and results agree; an error is reported |
| Judging: `_vote` and the end of `_run_attempt` in `runner.py`, `judge/` | tasks of votes, judge slots, verdict cache, usage | gather, `_vote`, `complete_json`, `majority_verdict` | the majority is measured, counted and billed once; failures are judge errors |
| Transport and HTTP target: `transport.py`, `targets/http.py` | retries, the open response, the event being read | `request_json`, `stream_response`, `send`, `iter_events` | resends are bounded; a streamed reply is the whole stream; responses that are read are closed; trouble is an error of the attempt |
| Session: `runner.py` 715-766, `pytest_plugin.py` 275-345 | thread, loop, scenario tasks, futures | `submit`, `_tracked`, `_shutdown`, `__exit__`, `runtest` | every item gets its own result; shutting down leaves nothing running |
| Workers: `pytest_plugin.py` 42-70, 508-525 | caps, report and queue of each worker | `per_worker`, `pytest_sessionfinish` | the caps together are what the file says; scenarios are split across workers |
| Checks: `checks.py` | none | `run_checks`, `evaluate` | a check is of the final response |
| Cache and log: `cache.py` | files by key, JSON lines | `get`, `put`, `append_log` | a reader sees a whole value; lines of workers do not mix |
| Label queue: `label.py`, `cli.py` 497-533 | queue file, calibration files, sheets | `build_queue`, `merge_queue`, `run_session`, `import_marks` | nothing queued is lost, nothing is labelled twice |
| Calibration: `correction.py`, `calibrate.py` | calibration report | `resolve_gate`, `rogan_gladen`, `run_calibration` | a rate is corrected by the errors of the judge that gave it |
| Generation: `generate.py`, `adversarial/` | scenario files | `generate_scenarios`, `drafts_to_scenarios` | ids are distinct; kept files are kept |
| Comparison: `compare.py` | none | `classify`, `check_full_sampling` | a regression is reported, and only a regression |
| Estimate: `estimate.py` | none | `expected_attempts`, `plan_run` | the plan bounds the calls of the run; the expectation is the average |
| Command line: `cli.py` | project files | the commands | each leaves the files it should |
| Reports, prompts, stub judge | none | formatting | not modelled beyond which results a report holds |

How they interact. `pytest_runtestloop` opens a `Session`, which starts a thread with the
event loop, and submits every scenario before the first item waits for its result. Each
scenario is a task that opens a task group with one task per attempt. Attempts share the
target semaphore, the judge semaphore, the caches and, within a scenario, the `Stopper`;
they meet nowhere else. The task group hears of exceptions and cancels the attempts left;
the session cancels scenarios when pytest is done with them. Under pytest-xdist every worker
process has all of this for itself and shares only files. The commands share files with each
other and with the end of a run, without locks: each reads when it starts and writes when it ends,
and the label queue is written in place.

What is hard here is the sharing: the gate is decided while attempts wait for a slot, are
at the target or at the judge; a scenario that raises or is cancelled must give back the
slots that others wait for; votes run as tasks of their own and may outlive the attempt
that asked for them; caches and files are read before an await, a question to a human or a
long request to a model, and written after it. `PROJECT.json` lists these hazards at their
lines, with the properties that watch them.

## Modules

| Module | What it is |
|---|---|
| `Gate` | the gate's pure operators |
| `Sampling` | abstract specification: what sampling a scenario promises |
| `Runner` | the attempts of all scenarios, as tasks of one event loop |
| `Jury` | the votes on the responses of attempts, and the end of the session |
| `Transport` | one call over HTTP: retries, streams, and how the call ends |
| `Session` | pytest's thread, the event loop and the scenarios of each worker |
| `Labels` | the label queue under ending runs, labelling sessions and imports |
| `Correction` | pure operators: the judge's errors, the resolved gate, the corrected rate |
| `Reports` | what a report says of a sampled scenario, and how two of them compare; extends `Sampling`, `Comparison` |
| `Planning` | a run with its calls, resends and votes counted, beside the plan of its dry run; extends `Runner`, `Estimate` |
| `Streams` | what a streamed reply is held to, defined over all of its lines at once; extends `Transport` |
| `Commands` | a project under init, generate, calibrate and run, and under its team; extends `Correction` |
| `Estimate` | pure operators: what a dry run plans and expects |
| `Comparison` | pure operators: how scenarios of two reports are classified |
| `MCSampling`, `MCRunner`, `MCPlanning`, `MCJury`, `MCTransport`, `MCSession`, `MCLabels`, `MCCommands` | instances for TLC |
| `Counting` | lemmas on counting in finite sets, on sums over them and on the histories of folds |
| `SamplingProofs`, `RunnerProofs`, `JuryProofs`, `TransportProofs`, `SessionProofs`, `LabelsProofs`, `CommandsProofs` | proofs |

**Sampling** knows only an outcome per attempt and a verdict per scenario. An attempt
settles, is skipped (only once the outcomes so far decide the gate) or is dropped with its
scenario; the scenario is concluded from all outcomes at once, or withdrawn.

**Runner** is `run_with` and what it calls. `pc[a]` says at which await the task of an
attempt is: `new` (created), `queued` (waiting for a target slot), `sending` (at the
target, holding the slot), `judging`, or over (`recorded`, `skipped`, `cancelled`,
`raised`). An action runs from one await to the next: `Answered` appends the request to the
record, stores the response, replays the steps that follow from the cache (`ReplayedFrom`,
since a cached step has no await), and then waits for a slot again or runs the checks and
goes to the judge. `Acquire` is `asyncio.Semaphore`: a free permit is taken at once unless
somebody waits. The order in which waiters are served is left open, which allows more than
the first-in first-out of asyncio. The task group is `group[s]`; `RaisedAttempt` and
`AbortGroup` are how it hears of an exception, and `CancelTask` interrupts a task at its
await. `FailedLate` is the one way in which a cancellation is lost: `asyncio.gather` raises
the failure of a vote even if it is cancelled just after. `EarlyStopped` and `Finish` make
the `ScenarioResult`. A text, a latency and a turn are members of small sets; `StepKey` is
what `Cache.key` hashes, as far as two steps of the models can differ in it.

**Planning** is `Runner` with every request counted, where `Runner` has only those of the
records. A step of the runner that begins a call (`Calls`) or sends a response to its votes
(`Gathers`) counts it, and `Resend` is what `Runner` has no step for: the transport sends the
request in flight again, up to `target.retries` times, while the attempt waits for it.
`Transport` is that call in full. `calls`, `resent` and `gathered` are counters that no action
reads; `tries` is the retries of the call in flight. A vote may be sent again as well, three
times (`judge/base.py` 173); what is counted of the judge is the votes it is asked for, answered from the
cache or not, which is what the dry run plans.

**Jury** refines the step that `Runner` leaves to `Judged`, `JudgeCrashed` and
`FailedLate`. `place[v]` is the await of a vote, `state[a]` the gathering attempt. The
judge's answers are the ones the providers tell apart: a verdict, a response without one
(billed, then `ProviderError`), no response, and a body that is not JSON. A failed vote
ends the gathering and leaves the other votes running, as `asyncio.gather` does.
Cancelling the attempt while it gathers tells its pending votes to cancel (`doomed`), and
the first one that does ends the gathering; if gather has already been told of a failure,
cancelling ends the attempt and its other votes go on. `Shutdown`, `CloseClients` and
`StopLoop` are `Session.__exit__`: `Shutdown` begins it, and the clients close once every
attempt is over, which its votes need not be. `content[a]` is all that a verdict's key is
computed from.

**Transport** details the one request that `Runner` and `Jury` wait for: `HttpTarget.send`,
plain, as server-sent events or as JSON lines, or a judge's `complete_json` (`caller`). The
server is external: it may handle a request whose answer never arrives, refuse it, answer
with anything, and break a stream off at any line. The retry loops of `request_json` and
`stream_response` are the actions up to the answer (`Send` to `Backoff`); a stream is then
read line by line, as `iter_events` does, where a line is a whole event, one of the two
halves of an event, `[DONE]`, blank or a comment. The results are the ones the runner tells
apart; `raised` is any exception it does not expect. `open` says whether a streamed response
is open. To `stream_response` an error status is one too (`StatusOpened`), until its body has
been read for the message (`StatusRead`); the two lines that read and close it are in no
`try`, so that a body that breaks off (`UnreadableStatus`) or a cancellation leaves it open. The
lines of a success are read inside a `try`, whose `finally` is `Closed`.

**Session** is one level above `Runner`: of a scenario it keeps whether it is submitted,
running or over, and whether it has a request in flight. `Pytest(w)` is the thread of
pytest in process `w`, which waits for one item at a time; `Loop(w)` and `Task(w, i)` are the
event loop. `todo` is what the controller of pytest-xdist has not handed out yet; without
xdist there is one worker. `Interrupt` leaves the test loop at any point.

**Labels** has two kinds of actors. A run that ends reads the queue (`EndRun`) and writes the
merged one; a session at the desk reads the queue (`SitDown`, `Import`), appends cases one at
a time and writes back the rest at its end. `write_queue` writes in place, so a write has a
beginning and an end: from `MergeRun` or `WriteBack` on, the file has the beginning of the new
text, possibly with half a line (`torn`), and all of it from `WriteMerged` or `WrittenBack` on.
Of two writers at once the one that ends last leaves its text, possibly with the rest of a longer
one behind it (`Writes`). A run or a session may be killed at any point, also within the write (`KillRun`, `Kill`) or in
the middle of rewriting a calibration file (`KillInAppend`). On half a line `read_queue` raises:
the run queues nothing (`FailToRead`), and `juried label` does not start. Whether a label is a pass
or a fail is left out, and of a sheet only the ids are kept: any of them may be marked. The history
variables `due`, `overlapped`, `collided`, `cut`, `killed` and `again` are for the properties only.

**Commands** has a start and an end for each command that asks a model, with what it read
when it started in between (`generating`, `calibrating`, `running`), and the edits of the
team beside them. A generation is for all criteria, the pack's included, or for one (`--only`),
and forced or not. Its files are written in one step, where the code writes one after another: nothing looks at
them in between but the team. An id is the sequence of words it is made of, so that ids of different
criteria can collide as slugs do. `measured` is for the properties only.

**Estimate**, **Comparison** and **Correction** compute with exact fractions where the code
uses floats: a probability is a numerator over a known denominator, multiplied out. Their
recursion is by recursive functions and folds.

## What the runs check

| Run | Instance | Checks |
|---|---|---|
| `Sampling_stop` | gates 4/0 and 3/1 (runs/misses), any outcomes; alpha 1/5, minimum effect 1/10 | `StoppedVerdictSound`, `ExpectedIsAverage`, `RegressionIsReal`, `StoppedIsNoEstimate` |
| `Runner_stop` | one scenario, 4 attempts, 1 miss, 2 slots | `TypeOK`, `TallyExact`, `StoppedIffSkipped`, `NoFirstRequestOnceDecided`, and `Samples`: Runner implements Sampling |
| `Runner_shared` | scenarios of 2 attempts with 2 turns and of 1 attempt with 1, one slot, fairness | `SlotsConserved`, `EveryScenarioEnds`, `RaiseIsReported` |
| `Planning_replay` | scenarios of 2 attempts with 1 turn and of 1 attempt with 2, of which the first is the same, two slots, replay over three caches an earlier run may have left, corrected gate, latency check, one retry, 3 votes | `PlanCoversRun`, `RequestsAccountForSteps`, `StoppedIffSkipped` |
| `Jury_gather` | 3 votes on one attempt, 2 judge slots, any cache, fairness | `TypeOK`, `JudgeSlotsConserved`, `VotesAreMeasured`, `OnlyOrphansOutliveClients`, `GatheringEnds` |
| `Jury_cache` | 3 attempts with one vote each, 2 judge slots, 2 contents, any cache | `FreshVotesBilled`, `SameContentSameVerdict` |
| `Transport_retry` | every kind of call, 2 retries, streams of up to 5 lines | `TypeOK`, `ResendsBounded`, `ReplyIsWholeStream`, `ResponseClosed` |
| `Session_xdist` | 2 workers, 2 items, a global cap of 3, `-x`, interrupts, fairness | `TypeOK`, `ReportsWhatItAskedFor`, `NoneOutlivesClients`, `CapIsShared`, `EverySessionEnds` |
| `Labels_queue` | 2 runs with 3 kinds of outcomes, a queue of 2, 2 sessions at the desk, kills | `QueueIsDistinct`, `FreshIsWhatWasFlagged`, `QueuedUntilHandled`, `LabelledOnce` |
| `Commands_project` | 3 commands or edits, 3 judges, 5 labelled cases, 2 criteria and a pack, reports an earlier version may have left | `CorrectedByItsJudge`, `FallsBackOnOwnCases`, `CorrectionUndoesError`, `IdsAreDistinct`, `KeptUnlessForced` |

*StoppedVerdictSound* says that however many of the skipped attempts had passed, full
sampling would have come to the same verdict. *Samples* is the refinement: no interleaving
of slots, turns, errors and cancellations makes a skip or a verdict that Sampling does not
allow, and so carries `StoppedVerdictSound` over to Runner. *SameContentSameVerdict* is the
strongest thing the cache gives: equal responses get equal verdicts unless two votes looked
in the cache before either was in.

*ReplyIsWholeStream* compares what the line by line reader took with a definition over all
the lines at once: the data lines between two blank ones are an event. *ExpectedIsAverage*
compares the recursion of `expected_attempts` with the average over every order of passes
and fails; *RegressionIsReal* and *StoppedIsNoEstimate* compare the classification with what
the samples, stopped or full, can say. These are checked over every pair of ends that
Sampling reaches, the two scenarios standing for one scenario in two reports.

*CapIsShared* holds because `per_worker` rounds down; it gives way to one each when there are
more workers than the cap. *QueuedUntilHandled* and *LabelledOnce* name the exact conditions
under which the queue loses an entry or a response is labelled twice. An entry is lost only if a
command was killed within its write, or wrote while another held what it had read; a kill before or
after the write loses nothing. A response is labelled twice only after an overlap, a killed session
or a new flag by a later run.

*PlanCoversRun* has four parts: the target is called no more often than planned, by attempts that are
cancelled or raise included; the calls are as many as planned if every attempt is made and answered
afresh; each call is sent again `target.retries` times at most; and likewise for the votes. The plan
does not bound the requests themselves: with the resends they may be more. On the corrected gate of the
run nothing is skipped; that a skipped attempt is within the plan too is part of what is proved.

*ResponseClosed* says of every response whose lines are read that it is closed, however that ends, and that
the only response a call leaves open is an error status whose body could not be read.

Two runs each show a thing a document says and the code does not do:

| Run | What it shows |
|---|---|
| `Transport_broken` | A stream that breaks off while its lines are read raises an `httpx` error past the retries and past every handler (`transport.py` 68): the scenario raises, where docs/runs.md (line 21) promises a transport error. |
| `Session_split` | Every worker of pytest-xdist submits every item it collected (`pytest_plugin.py` 285), and so runs scenarios that another worker reports; docs/runs.md (line 80) says that scenarios are split across workers. |

**Bounds.** Four attempts with one miss is the smallest gate that can be won with attempts
left, lost with attempts left, and decided by the last record; two slots let an attempt wait
while another decides the gate. Two scenarios and one slot are what it takes for one to
starve the other. Two turns are the least for a conversation that is partly replayed. Three
votes have a majority that is not unanimous, and leave orphans when one fails. Three
attempts on two contents have two that agree and one that does not. One target text is
enough, as responses only matter to the cache key, which holds the attempt and the turn
besides. In these modules nothing grows without bound, so no counter is capped.

Three bounds cap what could go on: `MaxLines` (lines of a stream), `MaxSessions` (sessions
at the desk) and `MaxCommands` (commands and edits begun). Five lines are an event over two
data lines, its blank line and what comes after, or `[DONE]` between two events. Two
sessions let the second meet what the first left, and a queue of two is full after one run.
Three commands are a calibration, a run and an edit between or during them, or two
generations and a file that appears meanwhile. One retry tells a call from what is sent; the
counters of `Planning` and the cases of `Labels` are bounded by the runs, the turns and the sessions. With `alpha` at 1/5 and a minimum effect of
1/10, drops and improvements occur on samples of three and four attempts; with the defaults
they would need more attempts than can be enumerated. `Labels_queue` takes the two runs as
symmetric, and follows a state in which two commands wrote the file at once only through the first session
(`CollidedEarly`): after it every property but the one on what a run flagged is vacuous.

**Deadlock** is not checked: a run that is over, a call that has ended and a bounded project stop.

**Fairness.** `Runner!FairSpec` and `Jury!FairSpec` are weakly fair to each task, vote and
task group: the event loop runs whatever is ready, and a request ends because the HTTP
clients have timeouts. Nothing has to be cancelled, nothing has to pass, no scenario has to
be shut down. `Session!FairSpec` is weakly fair to pytest's thread and to the loop, and
strongly fair to the end of each scenario: a scenario may send again and again in this
abstraction, but in the code it has finitely many requests. That it ends is what
`EveryScenarioEnds` shows of Runner. The assumption that a request ends has one exception in
the code: the timeouts are per read, so that a server that goes on sending lines keeps a
stream open for ever. `Transport`, `Labels` and `Commands` state no fairness and no liveness.

**Mutants.** Each property of a passing run has a plausible bug of the code it catches, an
operator beside the one it replaces, marked *Mutant* in the modules; nothing uses them otherwise.

## What is proved

For every number of scenarios, attempts, turns, texts, slots, votes, retries, lines, workers,
items, runs, sessions, responses, commands and cases, from the named assumptions of the modules
(finite sets; gates that `build_gate` accepts; at least one slot; and, as the
`ShapeAssumption` of `Labels` and `Commands`, that the records the constants are made of have
the fields the code gives them: an outcome has a list of responses, a judge is its model,
temperature and prompt, a case has two Boolean verdicts and a report finitely many cases).
Five theorems have a hypothesis besides, which is part of their statement:

- `DecidedMeansUnsent`: `~Replay`. With cached responses the code promises no more (the first
  difference listed below).
- `RegressionsAreReal`: `MinEffect.num > 0`. The command line takes `--min-effect 0`
  (`cli.py` 569), and then, with a level above 1/2, a report can drop against itself.
- `ComparisonIgnoresStopping`: `~Corrected`. On the corrected rate nothing is ever stopped.
- `GeneratedIdsAreDistinct` and `GenerationKeeps`, together: `NumeralsDiffer`, that two numbers
  are written differently. It is a fact about `ToString`, of which the provers know nothing;
  without it two candidates for an id could be the same word.

| Theorem | Statement |
|---|---|
| `SamplingProofs!EarlyStopSound` | Sampling implies `[]StoppedVerdictSound` |
| `SamplingProofs!RegressionsAreReal` | `[]RegressionIsReal`, with a positive minimum effect |
| `SamplingProofs!ComparisonIgnoresStopping` | `[]StoppedIsNoEstimate`, on the observed rate |
| `RunnerProofs!TypeCorrect` | types |
| `RunnerProofs!SlotsNeverLeak` | `[]SlotsConserved` |
| `RunnerProofs!TallyMatchesRecords` | `[]TallyExact` |
| `RunnerProofs!StopsAreReported` | `[]StoppedIffSkipped` |
| `RunnerProofs!RunnerSamples` | Runner implements Sampling |
| `RunnerProofs!RunnerStopsSoundly` | `[]StoppedVerdictSound` of the runner |
| `RunnerProofs!RequestsAreAccounted` | `[]RequestsAccountForSteps` |
| `RunnerProofs!DecidedMeansUnsent` | `NoFirstRequestOnceDecided`, without replay |
| `RunnerProofs!PlanIsABound` | `[]PlanCoversRun`, of `Planning` |
| `RunnerProofs!ErrorsAreNotLost` | a scenario with an attempt that raised can only end as raised, and such an attempt stays one |
| `JuryProofs!JuryTypeCorrect` | types |
| `JuryProofs!JudgeSlotsNeverLeak` | `[]JudgeSlotsConserved` |
| `JuryProofs!RecordsCountFreshVotes` | `[]FreshVotesBilled` |
| `JuryProofs!VerdictsAreMeasured` | `[]VotesAreMeasured` |
| `JuryProofs!OrphansExplained` | `[]OnlyOrphansOutliveClients` |
| `JuryProofs!CachedVerdictsAgree` | `[]SameContentSameVerdict` |
| `TransportProofs!CallTypeCorrect` | types, and as many retries as are allowed |
| `TransportProofs!RetriesAreBounded` | `[]ResendsBounded` |
| `TransportProofs!StreamsAreClosed` | `[]ResponseClosed` |
| `TransportProofs!RepliesAreWhole` | `[]ReplyIsWholeStream` |
| `SessionProofs!SessionTypeCorrect` | types |
| `SessionProofs!ScenariosEndFirst` | `[]NoneOutlivesClients` |
| `SessionProofs!ResultsAreTheItems` | `[]ReportsWhatItAskedFor` |
| `SessionProofs!CapNeverExceeded` | `[]CapIsShared` |
| `LabelsProofs!QueueHasEachOnce` | `[]QueueIsDistinct` |
| `LabelsProofs!RunsQueueWhatTheyFlag` | `[]FreshIsWhatWasFlagged` |
| `LabelsProofs!NothingIsLost` | `[]QueuedUntilHandled` |
| `LabelsProofs!NothingIsWeighedTwice` | `[]LabelledOnce` |
| `CommandsProofs!CorrectedByOwnErrors` | `[]CorrectedByItsJudge` |
| `CommandsProofs!FallsBackForOneReason` | `[]FallsBackOnOwnCases` |
| `CommandsProofs!CorrectionIsInverse` | `[]CorrectionUndoesError` |
| `CommandsProofs!GeneratedIdsAreDistinct` | `[]IdsAreDistinct`, if numbers are written differently |
| `CommandsProofs!GenerationKeeps` | `KeptUnlessForced`, likewise |

*EarlyStopSound.* That a decided gate stays decided is not enough: outcomes go on arriving
after the first skip, from attempts that were in flight. The invariant of `SamplingProofs`
is that once anything is skipped the tally decides the gate, which further outcomes cannot
undo; with the attempts counted (made, skipped, dropped or open) the verdict over those
made and the one over all of them are then on the same side of the misses.

*Reports.* `RegressionsAreReal` goes through `classify` in its order: whatever the binomial
terms of `Significant` come to, a fall that passes it with a positive minimum effect is one of
the rate by that minimum (`SignificantFall`), and a report against itself has none (`NothingFell`).
`ComparisonIgnoresStopping` rests on `EarlyStopSound`: a stopped entry has the status of
its full one and is its full one if nothing was skipped (`FullEntryAgrees`), and what is said
of a gate depends on statuses only (`GateByStatus`).

*Runner.* `Effect` says what any of the eleven steps of a task does to its place, tally and
slots, so that the invariants are proved over five cases and not over eleven actions.
`TallyExact` is inductive only with `OutcomeAtEnd` (an outcome exists exactly for recorded
attempts); `StoppedIffSkipped` needs `DecisionsJustified` (decided means that the gate may
stop and that the tally decides it) and that a skip happens only once decided. The
refinement then maps each effect to `Settle`, `Skip`, `Drop` or a stutter, where `Skip`
needs the tally of Sampling to be that of the Stopper. `RunnerStopsSoundly` instantiates
`SamplingProofs` under the refinement mapping and carries its theorem over.

`RequestsAccountForSteps` is inductive only with `Accounted`: the replayed turns are turns of
the conversation so far, and an attempt that waits for a slot, is at the target or ended in a
transport error has a turn still to say. `DecidedMeansUnsent` has the hypothesis `~Replay`
because the first difference listed below is its counterexample with cached responses. Without
them `Accounted` says that an attempt with no request has said nothing, which is the guard that
`_attempt` checks before it sends. `ErrorsAreNotLost` is inductive with no
more than that: an attempt that is over stays as it is, and a task group
that was cancelled reports what its tasks raised rather than the cancellation.

*Planning.* A run with its calls counted is a run (`PlanIsARun`), so that the invariants of `Runner` hold of
it. `Spent` says what was made of an attempt: as many calls as it has requests on record, one more
while it is at the target, and possibly one more if it was cancelled there or raised; by `Accounted` these are no more
than its scenario has turns. Every call but the last was resent `Retries` times at most, and
the last one `tries` times, without which the bound on resends is not inductive. The sums over all
attempts are then compared attempt by attempt (`SumMonotone`, `SumScaled`), and that of the plan is one over scenarios of
runs times turns, or times votes (`SumFamily`, `SumConstant`). `Counting` proves such laws of sums by an induction
over subsets it first derives (`SubsetInduction`), for the order in which a fold takes the
elements is not known.

*Jury.* `FreshVotesBilled` needs `DoneOneWay` (a vote that is done was replayed or billed,
not both) and `IdleUntilGathered`. `VotesAreMeasured` needs `JudgedOnAllVotes` and that no
vote of several is from the cache; more than half then follows from `majority_verdict` having
counted each of them. `OnlyOrphansOutliveClients` needs what `_vote` cannot see: a vote that
is not told to cancel is pending only while its attempt gathers or after its gathering had
trouble (`OrphansHaveTrouble`), and clients close after all attempts are over.
`SameContentSameVerdict` is about two votes and is inductive only as a statement on each
content: unless the judge was billed twice for it (`AskedTwice`), every ballot on it is what
the cache holds; and as long as it was not billed at all, a vote is on its way to the judge
only if there is no verdict yet, so that the first answer contradicts nothing (`Remembered`).

*Transport.* `ResendsBounded` compares requests with retries, which is inductive only with
`Sent` (where the call is says how many requests more than retries were sent) and `Tried`
(a call that gave up on retryable trouble had no retry left, and one that reads an error
status has that trouble). `ResponseClosed` is part of the same invariant: a response is opened on a
call that has none, and what is left open when a call ends was an error status. `ReplyIsWholeStream` compares a
reader with a definition over all lines at once. `StreamInv` says what the reader has in
between: its events are those of the lines so far (`SoFar`), no earlier one was `[DONE]`, and
`data` is what stands after the last blank line. One more line adds one place at most to a set
of places, after all the others (`AtAfter`, `PastAfter`), so that the events before are not
disturbed (`EventsStay`); at the end of the stream or at `[DONE]` the events so far are those of
the whole (`ReadToEnd`, `ReadToStop`).

*Session.* That results are in the order of the items needs `Ordered`: the items handed out
come before those still to do, in every worker. `Reported` ties outcomes to ends that do not
change any more, and `Lived` says which phases a scenario can be unsubmitted, running or
cancelled in. `CapIsShared` sums over the workers: each keeps to its own part (`Shared`), and
a lemma of `Counting` bounds the pairs by the product, for any number of them.

*Labels.* The properties of the queue are about lists that `merge_queue` and `build_queue`
compute by going through others. `LabelsProofs` proves what these loops compute for lists of
any length: a fold has a history, the value after each of its steps (`FoldExists` of
`Counting`, `MergedHistory`, `QueuedHistory`, `FlaggedHistory`), and what each step keeps holds at
its end (`AllAlong`, there too). So `MergedIds` shows that a merge has every response of both lists once, and
`QueueSummary` that the flags of a response become one entry with the reasons of all. The
invariant then has a part for each property. `Lists`: what a session holds is split
into what it keeps and what it has still to go through, and these share nothing; and what the file
has while it is written is the beginning of that text, which keeps the queue distinct even if the write is cut
off. `Alone`: unless commands overlapped, a writer is the only one who holds anything, and what a session holds
before it writes is still in the file. `Held`: unless a write was cut off as well, what is due is in the queue,
or with the one who writes it. `Weighed`: unless commands overlapped or one was killed, what is in front of a human has no
case yet, or was flagged again. Without the condition on overlaps `Alone` is not inductive, and without the
one on cuts `Held` is not; these are the findings behind the history variables: a command that ends while
another holds what it read replaces the queue by an older one, and one killed within its write leaves a part.

*Commands.* `CorrectedByItsJudge` relates the gates of a report to the judge that was
measured, which is no part of what `resolve_gate` sees. The invariant carries it along: a
calibration report names the judge it was measured on, a run keeps the report it was resolved
on together with that judge, and no edit of the team in between touches either (`Grounded`).
From `resolve_gate` then comes that few enough of the cases are wrong (`ErrorCounts`,
`WrongOnHalf`: sensitivity and specificity add up to at least one and a half, in integers).
`CorrectionIsInverse` multiplies the same fractions out for any set of cases.
That ids are distinct is a second invariant (`FilesInv`): each id is at one place of one file,
the pack's file apart, which is written without a look at the others. `CandidatesDiffer` gives a
generation more candidates for an id than ids can be taken, so that `FreeIsFree`; the history of
the fold that names drafts shows that each is named apart from what was taken before
(`NamedAreFree`), and that of the fold over criteria that the files written are distinct from
those left (`GeneratedAreFree`). `GenerationKeeps` reads off the same history which paths were
written.

Only model-checked:

- Liveness (`EveryScenarioEnds`, `GatheringEnds`, `EverySessionEnds`), which is out of the
  prover's reach, and `RaiseIsReported`, a leads-to as well, of which `ErrorsAreNotLost` is
  the half that is safety.
- `ExpectedIsAverage`: what a recursion over passes and fails computes for every gate is an
  induction over data, and its probabilities are powers (`^`), of which the provers know nothing.

## Where the code differs from its documents

Beside the two runs above, these were met while modelling. The models do what the code does.

- With cached responses, an attempt whose first turn is replayed is no longer "starting" at
  its second turn (`runner.py` 627), and sends its first request although the gate is
  decided; the comment at `runner.py` 516 says that attempts that have sent nothing are skipped.
- `max_latency_ms` is given the latency of the last *request* (`runner.py` 569), an earlier
  turn's when the final response was replayed; docs/scenarios.md 50 says "the final
  response's latency".
- Two votes on the same response both miss the cache before either answer is stored
  (`runner.py` 703); docs/runs.md 87 says that a response the judge has already seen is not
  judged again.
- The tokens of a refusal, and of votes beside one that failed, are in no record
  (`runner.py` 590); docs/costs.md 8 says "Every run counts both sides".
- A vote orphaned by a failed one is in no task set and may be at the judge when `_shutdown`
  closes the judge's client (`runner.py` 584, against the comment at 761).
- A dry run does not take `--runs`, `--misses` and `--gate-on` into account (`cli.py` 656-666).
- Every worker writes the report of its own results over that of the others (`pytest_plugin.py` 512).
- `write_queue` rewrites the queue in place (`label.py` 193): killed within it, a run or a session leaves it
  empty, short or with half a line, on which later runs and `juried label` fail. The comment at `label.py` 167 has
  "whatever earlier runs left unlabelled" in the queue.
- A streamed error status whose body fails or is cancelled as it is read is not closed by `stream_response` (`transport.py`
  75-76); `httpx` may release its connection when it is the read that fails. Such a failure is neither
  retried nor recorded, but raises out of the scenario, where docs/runs.md (line 16) says that an HTTP error is a
  transport error.
- A judge's success status with a body that is not JSON raises a `ValueError` (`judge/anthropic.py` 38,
  `judge/openai.py` 45), and JSON that is not an object an `AttributeError` (`judge/anthropic.py` 46, `judge/openai.py`
  47): the scenario raises, where docs/runs.md (line 17) promises a judge error.
- A request is sent again up to `target.retries` times (`transport.py` 44), whether or not the target served it: the
  target may get more requests than "the requests each side would get" (docs/costs.md 41) of a dry run, and more
  than the records have.
- `juried generate` overwrites a file that appears while the model is asked, as it looks for
  existing files before (`generate.py` 106).
- The queue is written with `ensure_ascii=False` and read with `splitlines` (`label.py` 184):
  a response with U+2028, U+2029 or U+0085 makes a line that is not JSON. `Labels` has no such response.
- A scenario's stream has no deadline of its own (`transport.py` 64).

## Not modelled

- Prompts, the stub judge and the choice of a provider: texts and a deterministic table.
- Numbers computed to be shown or drawn at random: Wilson and Newcombe intervals, power, the
  bootstrap, prices and token averages. On the corrected rate, whether the interval is high
  enough is left open (`Quality`).
- What the text checks match; templates, paths, YAML, report and terminal formats; parsing
  of arguments. A check passes, fails or cannot be evaluated, and a path selects a text or not.
- Cache files and the log under several processes: they rest on the atomicity of a rename
  and of a lock, which a model would assume rather than show. Within one process the caches
  are part of `Runner` and `Jury`.
- The history a scenario starts with: a constant part of every key.

## Plan

Done: the run (`Sampling`, `Runner`, `Jury`), what it stands on (`Transport`, `Session`), what
surrounds it (`Labels`, `Commands` and the three modules of pure operators), and the proofs of
their properties. Left:

- `Session` composed with `Runner` by a refinement mapping, in place of the argument that
  `EveryScenarioEnds` justifies its fairness.
- `ExpectedIsAverage` for every gate, which waits for a prover that can do the induction.
