------------------------------ MODULE Commands ------------------------------
(***************************************************************************)
(* A project under the commands of juried, run by a team that edits its    *)
(* files between and beside them: `juried generate` writes scenario files, *)
(* `juried calibrate` measures the judge on the labelled cases, and a run  *)
(* gates its scenarios on what was measured, if it was this judge.         *)
(*                                                                         *)
(* A command that asks a model takes its time: what it read when it        *)
(* started may have changed when it writes.  Words, ids and cases are      *)
(* abstract; an id is the words it is made of.                             *)
(***************************************************************************)
EXTENDS Correction, Sequences, SequencesExt, TLC

CONSTANTS
  None,         (* no juried.toml, no command under way, no report of a run *)
  Criteria,     (* the criteria of acceptance.md, in order                  *)
  PackCriteria, (* those of the adversarial pack, which is enabled          *)
  PackIds,      (* the ids of the pack's scenarios, in order                *)
  HandIds,      (* ids the team gives to scenarios written by hand          *)
  Drafts,       (* the lists of names a model may answer with               *)
  Judges,       (* the judges the team may configure                        *)
  InitJudge,    (* the one of the juried.toml that `juried init` writes     *)
  Examples,     (* the labelled cases `juried init` writes                  *)
  Case,         (* the labelled cases there may come to be                  *)
  Earlier,      (* the calibration reports the project may have             *)
  MinCases,     (* judge.min_calibration_cases                              *)
  MaxCommands   (* bounds the commands begun                                *)

ASSUME CommandsAssumption ==
  /\ InitJudge \in Judges
  /\ Examples \subseteq Case /\ IsFiniteSet(Case)
  /\ NoReport \in Earlier
  /\ MinCases \in Nat \ {0} /\ MaxCommands \in Nat
  /\ Criteria \in Seq(Seq(STRING)) /\ PackCriteria \in Seq(Seq(STRING))
  /\ PackIds \in Seq(Seq(STRING))
  /\ \A id \in HandIds : id \in Seq(STRING)
  /\ IsFiniteSet(HandIds)
  /\ \A names \in Drafts : names \in Seq(Seq(STRING))

(***************************************************************************)
(* What is in a file has a shape: a judge is its three fields, a case is   *)
(* labelled and judged pass or fail, and a report lists finitely many.     *)
(***************************************************************************)
ASSUME ShapeAssumption ==
  /\ \A j \in Judges \cup {r.judge : r \in Earlier} :
       j = [model |-> j.model, temperature |-> j.temperature, prompt |-> j.prompt]
  /\ \A c \in Case : c.human \in BOOLEAN
  /\ \A r \in Earlier :
       /\ r = [judge |-> r.judge, cases |-> r.cases]
       /\ IsFiniteSet(r.cases)
       /\ \A c \in r.cases : c.human \in BOOLEAN /\ c.judge \in BOOLEAN

VARIABLES
  judge,        (* the judge of juried.toml, None without the file          *)
  labelled,     (* the cases under calibration/                             *)
  calibration,  (* reports/juried-calibration.json                          *)
  files,        (* the ids in each scenario file there is                   *)
  calibrating,  (* what a calibration read when it started, or None         *)
  generating,   (* what `juried generate` read when it started, or None     *)
  running,      (* what a run resolved when it started, or None             *)
  report,       (* reports/juried-report.json                               *)
  commands,     (* the commands begun                                       *)
  measured      (* the judge the verdicts of calibration are of, for the    *)
                (* properties to compare with                               *)

teamVars == <<judge, labelled>>
vars == <<teamVars, calibration, files, calibrating, generating, running, report, commands,
          measured>>

(* The items of a sequence that are not in a set. *)
Outside(seq, set) ==
  FoldLeft(LAMBDA rest, item : IF item \in set THEN rest ELSE Append(rest, item), <<>>, seq)

(* criteria_for: the project's own, and the pack's unless they are its own. *)
AllCriteria == Criteria \o Outside(PackCriteria, ToSet(Criteria))

(* Files: one of each criterion and mode, the pack's and the team's. *)
OutputPath(criterion, adversarial) == <<IF adversarial THEN "adversarial" ELSE "plain", criterion>>
PackPath == <<"pack">>
HandPath == <<"hand">>

(* The file at a path, and the files of which some are written again. *)
FileAt(path, ids) == [p \in {path} |-> ids]

Overwritten(old, new) ==
  [p \in DOMAIN old \cup DOMAIN new |-> IF p \in DOMAIN new THEN new[p] ELSE old[p]]

(* existing_ids *)
IdsIn(paths) == UNION {ToSet(files[p]) : p \in paths}

Init ==
  /\ judge \in Judges \cup {None}
  /\ labelled \in {{}, Examples}
  /\ calibration \in Earlier
  /\ files \in {<<>>, FileAt(HandPath, SetToSeq(HandIds))}
  /\ calibrating = None /\ generating = None /\ running = None
  /\ report = None
  /\ commands = 0
  /\ measured = calibration.judge

(* Every command but init and compare loads juried.toml first. *)
Begin ==
  /\ commands < MaxCommands
  /\ commands' = commands + 1

Locate == Begin /\ judge # None
-----------------------------------------------------------------------------
(***************************************************************************)
(* The team.                                                               *)
(***************************************************************************)

(* juried.toml is edited, or juried is upgraded and with it the prompt. *)
Reconfigure ==
  /\ Begin
  /\ judge # None
  /\ \E j \in Judges \ {judge} : judge' = j
  /\ UNCHANGED <<labelled, calibration, measured, files, calibrating, generating, running, report>>

(* A case is written, or comes from the label queue (module Labels). *)
AddCase ==
  /\ Begin
  /\ \E c \in Case \ labelled : labelled' = labelled \cup {c}
  /\ UNCHANGED <<judge, calibration, measured, files, calibrating, generating, running, report>>

(* A scenario is written, with an id that is not in use. *)
WriteScenario ==
  /\ Begin
  /\ HandPath \notin DOMAIN files
  /\ \E id \in HandIds \ IdsIn(DOMAIN files) : files' = Overwritten(files, FileAt(HandPath, <<id>>))
  /\ UNCHANGED <<teamVars, calibration, measured, calibrating, generating, running, report>>

(* command_init: what is there is kept, unless it is forced. *)
Initialise ==
  /\ Begin
  /\ \E force \in BOOLEAN :
       /\ judge' = IF judge = None \/ force THEN InitJudge ELSE judge
       /\ labelled' = labelled \cup Examples
  /\ UNCHANGED <<calibration, measured, files, calibrating, generating, running, report>>
-----------------------------------------------------------------------------
(***************************************************************************)
(* command_generate: generate_scenarios asks for the criteria that have no *)
(* file yet, or for all of them, and then writes what came of it.          *)
(***************************************************************************)

(* --only, of the criteria there are: any other is refused. *)
OnlyOption == {None} \cup (SUBSET ToSet(AllCriteria) \ {{}})

EveryCriterion(adversarial, force, only) == AllCriteria  (* Mutant: no file is kept. *)

Spared(adversarial, force, only) ==
  {c \in ToSet(AllCriteria) :
     \/ only # None /\ c \notin only
     \/ adversarial /\ c \in ToSet(PackCriteria)
     \/ ~force /\ OutputPath(c, adversarial) \in DOMAIN files}

Targets(adversarial, force, only) == Outside(AllCriteria, Spared(adversarial, force, only))

StartGenerate ==
  /\ Locate
  /\ generating = None
  /\ \E adversarial, force \in BOOLEAN, only \in OnlyOption :
       generating' = [adversarial |-> adversarial, force |-> force,
                      targets |-> Targets(adversarial, force, only), there |-> DOMAIN files]
  /\ UNCHANGED <<teamVars, calibration, measured, files, calibrating, running, report>>

(* drafts_to_scenarios: a name that is taken gets the first suffix that is not. *)
Candidate(base, n) == IF n = 1 THEN base ELSE Append(base, ToString(n))

Free(base, taken) ==
  Candidate(base, CHOOSE n \in 1 .. Cardinality(taken) + 1 :
    /\ Candidate(base, n) \notin taken
    /\ \A k \in 1 .. (n - 1) : Candidate(base, k) \in taken)

(* The ids for the names of one criterion, after those in ids. *)
Named(criterion, names, taken) ==
  FoldLeft(LAMBDA ids, name : Append(ids, Free(criterion \o name, taken \cup ToSet(ids))),
           <<>>, names)

(* The files for the criteria targets, one after the other. *)
Generated(targets, answers, adversarial, taken) ==
  FoldLeftDomain(LAMBDA new, i :
      Overwritten(new, FileAt(OutputPath(targets[i], adversarial),
                              Named(targets[i], answers[i],
                                    taken \cup UNION {ToSet(new[p]) : p \in DOMAIN new}))),
    <<>>, targets)

PackFile(g) ==
  IF g.adversarial /\ (g.force \/ PackPath \notin DOMAIN files) THEN FileAt(PackPath, PackIds)
    ELSE <<>>

NothingTaken(replaced) == {}  (* Mutant: the ids in other files are not looked at. *)

Taken(replaced) == IdsIn(DOMAIN files \ replaced)

(* generate: the drafts the model answers with, for each of the targets. *)
Answers(g) == [1 .. Len(g.targets) -> Drafts]

FinishGenerate ==
  /\ generating # None
  /\ \E answers \in Answers(generating) :
       LET g == generating
           replaced == {OutputPath(c, g.adversarial) : c \in ToSet(g.targets)}
           new == Generated(g.targets, answers, g.adversarial, Taken(replaced))
       IN  files' = Overwritten(Overwritten(files, new), PackFile(g))
  /\ generating' = None
  /\ UNCHANGED <<teamVars, calibration, measured, calibrating, running, report, commands>>

(* ProviderError, or a scenario file that cannot be read: nothing is written. *)
FailGenerate ==
  /\ generating # None
  /\ generating.targets # <<>>
  /\ generating' = None
  /\ UNCHANGED <<teamVars, calibration, measured, files, calibrating, running, report, commands>>
-----------------------------------------------------------------------------
(***************************************************************************)
(* command_calibrate: the judge passes or fails each labelled case, by the *)
(* majority of its votes; one vote that fails ends it without a report.    *)
(***************************************************************************)
(* load_calibration: there is a case, and none of a criterion that is unknown. *)
Loadable(cases) == cases # {} /\ \A c \in cases : c.criterion \in ToSet(AllCriteria)

StartCalibrate ==
  /\ Locate
  /\ calibrating = None
  /\ Loadable(labelled)
  /\ calibrating' = [judge |-> judge, cases |-> labelled]
  /\ UNCHANGED <<teamVars, calibration, measured, files, generating, running, report>>

(* Mutant: the report names the judge that is configured by then. *)
NamesConfigured(c) == judge

JudgeOf(c) == c.judge

FinishCalibrate ==
  /\ calibrating # None
  /\ \E verdict \in [calibrating.cases -> BOOLEAN] :
       calibration' =
         [judge |-> JudgeOf(calibrating),
          cases |-> {[id |-> c.id, criterion |-> c.criterion, human |-> c.human,
                      judge |-> verdict[c]] : c \in calibrating.cases}]
  /\ measured' = calibrating.judge
  /\ calibrating' = None
  /\ UNCHANGED <<teamVars, files, generating, running, report, commands>>

FailCalibrate ==
  /\ calibrating # None
  /\ calibrating' = None
  /\ UNCHANGED <<teamVars, calibration, measured, files, generating, running, report, commands>>
-----------------------------------------------------------------------------
(***************************************************************************)
(* command_run: pytest_configure resolves the gate, and refuses the strict *)
(* corrected gate without a usable calibration report; Runner then samples *)
(* (module Runner), and pytest_sessionfinish writes the report.            *)
(***************************************************************************)

(* run.gate_on of juried.toml, and --gate-on, which the command hands on. *)
Configured == {"auto", "observed", "corrected"}
GateOption == Configured \cup {None}

Overridden(written, option) == IF option = None THEN written ELSE option

Accepted(configured, resolved) == configured = "corrected" => resolved.usable

(* Runner.__init__ keeps what the gate was resolved to for all its scenarios. *)
RunnerFor(configured, resolved) ==
  [judge |-> judge, configured |-> configured, gate_on |-> resolved.gate_on,
   calibration |-> resolved.calibration, measured |-> measured]

StartRun ==
  /\ Locate
  /\ running = None
  /\ \E written \in Configured, option \in GateOption :
       LET configured == Overridden(written, option)
           resolved == Resolved(configured, calibration, judge)
       IN  /\ Accepted(configured, resolved)
           /\ running' = RunnerFor(configured, resolved)
  /\ UNCHANGED <<teamVars, calibration, measured, files, calibrating, generating, report>>

(* The gate of the scenarios of each criterion, corrected where it applies. *)
GateOf(r, criterion) ==
  IF CorrectedApplies(r.gate_on, r.calibration, criterion, MinCases)
    THEN "corrected" ELSE "observed"

FinishRun ==
  /\ running # None
  /\ report' = [judge |-> running.judge, configured |-> running.configured,
                gate_on |-> running.gate_on, calibration |-> running.calibration,
                measured |-> running.measured,
                gates |-> [c \in ToSet(AllCriteria) |-> GateOf(running, c)]]
  /\ running' = None
  /\ UNCHANGED <<teamVars, calibration, measured, files, calibrating, generating, commands>>

(* Interrupted, or no scenario was selected: there are no results to report. *)
AbandonRun ==
  /\ running # None
  /\ running' = None
  /\ UNCHANGED <<teamVars, calibration, measured, files, calibrating, generating, report, commands>>
-----------------------------------------------------------------------------
Next ==
  \/ Reconfigure \/ AddCase \/ WriteScenario \/ Initialise
  \/ StartGenerate \/ FinishGenerate \/ FailGenerate
  \/ StartCalibrate \/ FinishCalibrate \/ FailCalibrate
  \/ StartRun \/ FinishRun \/ AbandonRun

Spec == Init /\ [][Next]_vars
-----------------------------------------------------------------------------
(***************************************************************************)
(* A rate is corrected by the errors of the judge that gave the verdicts   *)
(* ("the calibration report is for this judge", docs/judge.md), whatever   *)
(* was configured or calibrated while the run or the calibration went on,  *)
(* and by errors no larger than the correction can bear.                   *)
(***************************************************************************)
CorrectedByItsJudge ==
  report # None =>
    \A c \in DOMAIN report.gates :
      report.gates[c] = "corrected" =>
        LET of == report.measured
            cases == CasesFor(report.calibration.cases, c, MinCases)
        IN  /\ of.model = report.judge.model
            /\ of.prompt = "none" \/ of = report.judge
            /\ 2 * Cardinality({k \in cases : k.human # k.judge}) <= Cardinality(cases)

(***************************************************************************)
(* "Where a criterion's own cases are enough to use but too weak, that     *)
(* scenario falls back to the observed passes" (docs/judge.md): it is for  *)
(* no other reason that a scenario is not gated as the run is, and a run   *)
(* under the strict gate never falls back altogether.                      *)
(***************************************************************************)
OwnCases(r, c) == {k \in r.calibration.cases : k.criterion = c}

FallsBackOnOwnCases ==
  report # None =>
    \A c \in DOMAIN report.gates :
      report.gates[c] # report.gate_on =>
        /\ report.gate_on = "corrected"
        /\ Cardinality(OwnCases(report, c)) >= MinCases

(***************************************************************************)
(* The correction undoes the errors it was measured by: applied to the     *)
(* passes the judge gave on the labelled cases themselves, it comes to the *)
(* passes the humans gave, for every criterion; and one more pass of a run *)
(* never lowers its corrected rate.                                        *)
(***************************************************************************)
CorrectionUndoesError ==
  \A c \in ToSet(AllCriteria) :
    LET cases == CasesFor(calibration.cases, c, MinCases)
        e == JudgeError(cases)
        judged == Cardinality(cases)
        rate(p) == CorrectedRate(p, judged, e)
        passes == Cardinality({k \in cases : k.judge})
    IN  Usable(e) =>
          /\ rate(passes).num * judged = Cardinality({k \in cases : k.human}) * rate(passes).den
          /\ \A p \in 1 .. judged : rate(p).num >= rate(p - 1).num

(***************************************************************************)
(* Every id is that of one scenario, so that reports and comparisons,      *)
(* which go by it, know which they mean; only the pack's are written       *)
(* without a look at those there are.                                      *)
(***************************************************************************)
IdsAreDistinct ==
  \A p, q \in DOMAIN files \ {PackPath} :
    \A i \in 1 .. Len(files[p]), j \in 1 .. Len(files[q]) :
      files[p][i] = files[q][j] => p = q /\ i = j

(***************************************************************************)
(* "kept existing ... (use --force to regenerate)" (command_generate): a   *)
(* file that was there when it started is as it was when it has ended, and *)
(* a file of the team's always is.                                         *)
(***************************************************************************)
KeptUnlessForced ==
  [][\A p \in DOMAIN files :
       files'[p] # files[p] =>
         p # HandPath /\ (generating.force \/ p \notin generating.there)]_vars
=============================================================================
