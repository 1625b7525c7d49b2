------------------------------- MODULE Labels -------------------------------
(***************************************************************************)
(* The label queue.  At its end a run flags the responses worth a human's  *)
(* eye and merges them into the queue file; `juried label` goes through    *)
(* the queue, or imports a sheet marked up elsewhere, appends the labels   *)
(* to the calibration cases and writes back what is left of the queue.     *)
(*                                                                         *)
(* Every command reads the queue when it starts and writes it when it is   *)
(* done, so that commands, and the workers of one run, that overlap write  *)
(* over each other.  The file is written in place: until a write is done   *)
(* there is a part of it only, which may end inside a line.  Any command   *)
(* may be killed at any time.                                              *)
(***************************************************************************)
EXTENDS Integers, FiniteSets, Sequences, SequencesExt

CONSTANTS
  Run,          (* the processes that end a run                             *)
  Outcomes,     (* what their scenarios may have come to                    *)
  QueueSize,    (* label.queue_size                                         *)
  MaxSessions   (* bounds the sessions at the desk                          *)

ASSUME LabelsAssumption ==
  /\ IsFiniteSet(Run)
  /\ QueueSize \in Nat \ {0} /\ MaxSessions \in Nat

(* The attempts of a scenario are a list, and each is passed or not. *)
ASSUME ShapeAssumption ==
  \A o \in Outcomes :
    /\ o.runs \in Seq({o.runs[i] : i \in DOMAIN o.runs})
    /\ \A i \in DOMAIN o.runs : o.runs[i].passed \in BOOLEAN

VARIABLES
  queue,        (* label-queue.jsonl                                        *)
  torn,         (* whether a line of it is not JSON                         *)
  cases,        (* the cases under calibration/from-runs                    *)
  run,          (* run[r]: "running", "merging", "writing" or "ended"       *)
  fresh, old,   (* fresh[r], old[r]: what r merges while it does            *)
  desk,         (* "free", or how the session at the desk labels            *)
  pending,      (* the entries it has still to go through                   *)
  kept,         (* the entries that remain in the queue                     *)
  saving,       (* whether it is writing them back                          *)
  sheet,        (* the ids in the sheet exported and not yet imported       *)
  sessions      (* the sessions begun                                       *)

(* What the properties compare with. *)
VARIABLES
  flagged,      (* flagged[r]: the responses r flagged, one by one          *)
  due,          (* the ids queued and not labelled, skipped or pushed out   *)
  overlapped,   (* whether a command wrote the queue while another held it  *)
  collided,     (* whether two commands wrote it at once                    *)
  cut,          (* whether a command was killed while it wrote the queue    *)
  killed,       (* whether a session was killed                             *)
  again         (* the ids flagged again after they were labelled           *)

runVars == <<run, fresh, old, flagged>>
fileVars == <<queue, torn>>
deskVars == <<desk, pending, kept, saving, sheet, sessions>>
histVars == <<due, overlapped, collided, cut, killed, again>>
vars == <<fileVars, cases, runVars, deskVars, histVars>>

Ids(q) == {q[i].id : i \in 1 .. Len(q)}

-----------------------------------------------------------------------------
(***************************************************************************)
(* build_queue: of every judged response, in order, why a human should see *)
(* it; a response flagged twice is queued once, for all the reasons.       *)
(***************************************************************************)
Because(condition, reason) == IF condition THEN {reason} ELSE {}

Apart(m, n) == IF m < n THEN n - m ELSE m - n

Reasons(o, r) ==
  Because(r.split, "split")
  \cup Because(o.complete /\ o.fails >= 1 /\ Apart(o.fails, o.misses) <= 1 /\ ~r.passed, "boundary")
  \cup Because(r.checked /\ ~r.passed, "check_disagreed")
  \cup Because(r.hedged, "low_confidence")

(* A response without a reason is drawn with sample_rate. *)
Why(o, i, drawn) ==
  IF Reasons(o, o.runs[i]) = {} THEN Because(i \in drawn, "sampled") ELSE Reasons(o, o.runs[i])

AddAttempt(o, drawn, fs, i) ==
  IF o.runs[i].judged /\ Why(o, i, drawn) # {}
    THEN Append(fs, [id |-> o.runs[i].id, passed |-> o.runs[i].passed, reasons |-> Why(o, i, drawn)])
    ELSE fs

Flagged(o, drawn) == FoldLeftDomain(LAMBDA fs, i : AddAttempt(o, drawn, fs, i), <<>>, o.runs)

(* Mutant: for the reasons of the first time. *)
AddNew(q, e) == IF e.id \in Ids(q) THEN q ELSE Append(q, e)

AddFlagged(q, e) ==
  IF e.id \in Ids(q)
    THEN [i \in 1 .. Len(q) |->
            IF q[i].id = e.id THEN [q[i] EXCEPT !.reasons = @ \cup e.reasons] ELSE q[i]]
    ELSE Append(q, e)

BuildQueue(fs) == Reverse(FoldLeft(AddFlagged, <<>>, fs))

OfRun(e, r) == [id |-> e.id, passed |-> e.passed, reasons |-> e.reasons, run |-> r]

(* merge_queue: this run's entries first, then the others, up to the cap. *)
AddUnseen(q, e) == IF e.id \in Ids(q) THEN q ELSE Append(q, e)

Unmerged(f, existing) == f \o existing  (* Mutant: not deduplicated. *)

Merged(f, existing) == FoldLeft(AddUnseen, f, existing)

Capped(q) == SubSeq(q, 1, IF Len(q) < QueueSize THEN Len(q) ELSE QueueSize)
-----------------------------------------------------------------------------
Init ==
  /\ queue = <<>> /\ torn = FALSE /\ cases = <<>>
  /\ run = [r \in Run |-> "running"]
  /\ fresh = [r \in Run |-> <<>>] /\ old = [r \in Run |-> <<>>]
  /\ flagged = [r \in Run |-> <<>>]
  /\ desk = "free" /\ pending = <<>> /\ kept = <<>> /\ saving = FALSE
  /\ sheet = {}
  /\ sessions = 0
  /\ due = {} /\ again = {}
  /\ overlapped = FALSE /\ collided = FALSE /\ cut = FALSE /\ killed = FALSE

(* The runs of rs that hold what they read of the queue, and those that write it. *)
Holders(rs) == {r \in rs : run[r] \in {"merging", "writing"}}
Writers(rs) == {r \in rs : run[r] = "writing"}

(***************************************************************************)
(* write_queue.  write_text truncates the file and then writes: until it   *)
(* is done, and if it is cut off, some of the text is there.               *)
(***************************************************************************)
BeginsToWrite(text) ==
  \E n \in 0 .. Len(text) :
    /\ queue' = SubSeq(text, 1, n)
    /\ torn' \in (IF n < Len(text) THEN BOOLEAN ELSE {FALSE})

(* Over the text of another writer, of which a longer one leaves its rest. *)
Writes(text, others) ==
  \/ queue' = text /\ torn' = FALSE
  \/ /\ others \/ ~IsPrefix(queue, text)
     /\ \E n \in 0 .. Len(queue) : queue' = text \o SubSeq(queue, n + 1, Len(queue))
     /\ torn' \in BOOLEAN

(***************************************************************************)
(* pytest_sessionfinish: the queue is read, and written.                   *)
(***************************************************************************)
EndRun(r) ==
  /\ run[r] = "running" /\ ~torn
  /\ \E o \in Outcomes : \E drawn \in SUBSET (1 .. Len(o.runs)) :
       LET fs == Flagged(o, drawn)
       IN  /\ flagged' = [flagged EXCEPT ![r] = fs]
           /\ fresh' = [fresh EXCEPT ![r] =
                [i \in 1 .. Len(BuildQueue(fs)) |-> OfRun(BuildQueue(fs)[i], r)]]
  /\ old' = [old EXCEPT ![r] = queue]
  /\ run' = [run EXCEPT ![r] = "merging"]
  /\ overlapped' = (overlapped \/ saving \/ Writers(Run) # {})
  /\ UNCHANGED <<fileVars, cases, deskVars, due, collided, cut, killed, again>>

(* read_queue raises on a line that is not JSON: the run queues nothing. *)
FailToRead(r) ==
  /\ run[r] = "running" /\ torn
  /\ run' = [run EXCEPT ![r] = "ended"]
  /\ UNCHANGED <<fileVars, cases, fresh, old, flagged, deskVars, histVars>>

MergedQueue(r) == Capped(Merged(fresh[r], old[r]))

MergeRun(r) ==
  /\ run[r] = "merging"
  /\ run' = [run EXCEPT ![r] = "writing"]
  /\ BeginsToWrite(MergedQueue(r))
  /\ due' = (due \cup Ids(fresh[r])) \ (Ids(Merged(fresh[r], old[r])) \ Ids(MergedQueue(r)))
  /\ overlapped' = (overlapped \/ desk # "free" \/ Holders(Run \ {r}) # {})
  /\ collided' = (collided \/ saving \/ Writers(Run \ {r}) # {})
  /\ again' = again \cup (Ids(fresh[r]) \cap Ids(cases))
  /\ UNCHANGED <<cases, fresh, old, flagged, deskVars, cut, killed>>

RunIsOver(r) ==
  /\ run' = [run EXCEPT ![r] = "ended"]
  /\ fresh' = [fresh EXCEPT ![r] = <<>>] /\ old' = [old EXCEPT ![r] = <<>>]
  /\ flagged' = [flagged EXCEPT ![r] = <<>>]

WriteMerged(r) ==
  /\ run[r] = "writing"
  /\ Writes(MergedQueue(r), saving \/ Writers(Run \ {r}) # {})
  /\ RunIsOver(r)
  /\ UNCHANGED <<cases, deskVars, histVars>>

(* Killed before it writes, or while it does. *)
KillRun(r) ==
  /\ run[r] \in {"merging", "writing"}
  /\ RunIsOver(r)
  /\ cut' = (cut \/ run[r] = "writing")
  /\ UNCHANGED <<fileVars, cases, deskVars, due, overlapped, collided, killed, again>>
-----------------------------------------------------------------------------
(***************************************************************************)
(* juried label: at the terminal, or with the marks of a sheet that was    *)
(* exported from the queue at some time.  Any rows of a sheet are marked;  *)
(* which, is chosen when import_marks comes to them.  Whether a label is a *)
(* pass or a fail is left out: it makes no difference to the queue.        *)
(***************************************************************************)
ReadsQueue ==
  /\ desk = "free" /\ sessions < MaxSessions /\ ~torn
  /\ sessions' = sessions + 1
  /\ pending' = queue /\ kept' = <<>>
  /\ overlapped' = (overlapped \/ Writers(Run) # {})
  /\ UNCHANGED <<fileVars, cases, runVars, saving, sheet, due, collided, cut, killed, again>>

SitDown == ReadsQueue /\ queue # <<>> /\ desk' = "terminal"

(* juried label --html. *)
Export ==
  /\ desk = "free" /\ queue # <<>> /\ ~torn /\ sheet = {}
  /\ sheet' = Ids(queue)
  /\ UNCHANGED <<fileVars, cases, runVars, desk, pending, kept, saving, sessions, histVars>>

Import == ReadsQueue /\ sheet # {} /\ desk' = "import"

(* append_case: the file is read, and written whole with one more case. *)
AppendCase(e) == cases' = Append(cases, [id |-> e.id, run |-> e.run])

Labelled ==
  /\ AppendCase(Head(pending))
  /\ pending' = Tail(pending)
  /\ due' = due \ {Head(pending).id}
  /\ UNCHANGED <<fileVars, runVars, desk, kept, saving, sheet, sessions>>
  /\ UNCHANGED <<overlapped, collided, cut, killed, again>>

(* p or f. *)
Label == desk = "terminal" /\ pending # <<>> /\ Labelled

(* s: the entry leaves the queue without a label. *)
Skip ==
  /\ desk = "terminal" /\ pending # <<>>
  /\ pending' = Tail(pending)
  /\ due' = due \ {Head(pending).id}
  /\ UNCHANGED <<fileVars, cases, runVars, desk, kept, saving, sheet, sessions>>
  /\ UNCHANGED <<overlapped, collided, cut, killed, again>>

(* q, or the end of the input: the entry shown and all after it remain. *)
RestAfterShown == IF pending = <<>> THEN <<>> ELSE Tail(pending)  (* Mutant: not the one shown. *)
WholeQueue == queue  (* Mutant: with those labelled. *)

Rest == pending

Quit ==
  /\ desk = "terminal" /\ pending # <<>>
  /\ kept' = Rest /\ pending' = <<>>
  /\ UNCHANGED <<fileVars, cases, runVars, desk, saving, sheet, sessions, histVars>>

(* import_marks, entry by entry: what is not marked remains. *)
ImportMarked ==
  /\ desk = "import" /\ pending # <<>>
  /\ Head(pending).id \in sheet
  /\ Labelled

ImportUnmarked ==
  /\ desk = "import" /\ pending # <<>>
  /\ kept' = Append(kept, Head(pending)) /\ pending' = Tail(pending)
  /\ UNCHANGED <<fileVars, cases, runVars, desk, saving, sheet, sessions, histVars>>

(* What remains is written over the queue, whatever the queue is by now. *)
WriteBack ==
  /\ desk # "free" /\ pending = <<>> /\ ~saving
  /\ saving' = TRUE
  /\ BeginsToWrite(kept)
  /\ overlapped' = (overlapped \/ Holders(Run) # {})
  /\ collided' = (collided \/ Writers(Run) # {})
  /\ UNCHANGED <<cases, runVars, desk, pending, kept, sheet, sessions, due, cut, killed, again>>

DeskIsFree == desk' = "free" /\ pending' = <<>> /\ kept' = <<>> /\ saving' = FALSE

WrittenBack ==
  /\ saving
  /\ Writes(kept, Writers(Run) # {})
  /\ DeskIsFree
  /\ sheet' = IF desk = "import" THEN {} ELSE sheet
  /\ UNCHANGED <<cases, runVars, sessions, histVars>>

(* Killed, or interrupted: what was labelled is still queued, unless it was writing. *)
Kill ==
  /\ desk # "free"
  /\ DeskIsFree
  /\ killed' = TRUE /\ cut' = (cut \/ saving)
  /\ UNCHANGED <<fileVars, cases, runVars, sheet, sessions, due, overlapped, collided, again>>

(* Killed while it writes a case: the cases of the file are lost. *)
KillInAppend ==
  /\ desk # "free" /\ pending # <<>>
  /\ cases' = <<>>
  /\ DeskIsFree
  /\ killed' = TRUE
  /\ UNCHANGED <<fileVars, runVars, sheet, sessions, due, overlapped, collided, cut, again>>

Next ==
  \/ \E r \in Run : EndRun(r) \/ FailToRead(r) \/ MergeRun(r) \/ WriteMerged(r) \/ KillRun(r)
  \/ SitDown \/ Export \/ Import
  \/ Label \/ Skip \/ Quit \/ ImportMarked \/ ImportUnmarked \/ WriteBack \/ WrittenBack
  \/ Kill \/ KillInAppend

Spec == Init /\ [][Next]_vars
-----------------------------------------------------------------------------
(***************************************************************************)
(* The queue holds up to queue_size responses, "deduplicated by content"   *)
(* (docs/judge.md), whichever commands wrote it and in whatever order,     *)
(* killed while they did or not, unless two wrote the file at once.        *)
(***************************************************************************)
QueueIsDistinct ==
  ~collided =>
    /\ Len(queue) <= QueueSize
    /\ \A i, j \in 1 .. Len(queue) : queue[i].id = queue[j].id => i = j

(***************************************************************************)
(* A run queues every response it flagged, each once, with all the reasons *)
(* it was flagged for, the verdict of the first time, and the latest       *)
(* first.                                                                  *)
(***************************************************************************)
FirstAt(fs, id) == CHOOSE i \in 1 .. Len(fs) : fs[i].id = id /\ \A j \in 1 .. (i - 1) : fs[j].id # id

FreshIsWhatWasFlagged ==
  \A r \in Run :
    LET fs == flagged[r]  q == fresh[r]
    IN  /\ Ids(q) = Ids(fs) /\ Len(q) = Cardinality(Ids(fs))
        /\ \A i \in 1 .. Len(q) :
             /\ q[i].reasons = UNION {fs[j].reasons : j \in {k \in 1 .. Len(fs) : fs[k].id = q[i].id}}
             /\ q[i].passed = fs[FirstAt(fs, q[i].id)].passed
             /\ \A j \in 1 .. (i - 1) : FirstAt(fs, q[j].id) > FirstAt(fs, q[i].id)

(***************************************************************************)
(* "This run's entries first, then whatever earlier runs left unlabelled,  *)
(* capped" (the comment on merge_queue): a queued response stays in the    *)
(* queue until a human labels or skips it or newer ones push it out,       *)
(* whoever quits or imports meanwhile, and whoever is killed before or     *)
(* after its write.  It is lost only when a command was killed within the  *)
(* write, or wrote the queue while another held what it had read.          *)
(***************************************************************************)
QueuedUntilHandled ==
  desk = "free" /\ Writers(Run) = {} /\ ~overlapped /\ ~cut => ~torn /\ due \subseteq Ids(queue)

(***************************************************************************)
(* The calibration set weighs every response once: a second case for it is *)
(* there only because a run flagged it again, a session was killed between *)
(* the label and the queue, or commands overlapped.                        *)
(***************************************************************************)
LabelledOnce ==
  \A i, j \in 1 .. Len(cases) :
    i # j /\ cases[i].id = cases[j].id => overlapped \/ killed \/ cases[i].id \in again
=============================================================================
