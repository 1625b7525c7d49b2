------------------------------ MODULE MCLabels ------------------------------
(***************************************************************************)
(* The instance of Labels for TLC.                                         *)
(***************************************************************************)
EXTENDS Labels, TLC

Record(id, passed) ==
  [id |-> id, passed |-> passed, judged |-> TRUE, split |-> FALSE, hedged |-> FALSE,
   checked |-> FALSE]

Outcome(runs, fails, misses) ==
  [runs |-> runs, complete |-> TRUE, fails |-> fails, misses |-> misses]

(***************************************************************************)
(* The attempts of a run: the same response judged both ways, once by      *)
(* split votes; two passes, one hedged, beside one a check decided; and a  *)
(* fail that the checks passed, of a scenario with an error.               *)
(***************************************************************************)
SplitOverOneResponse ==
  Outcome(<<[Record("x", TRUE) EXCEPT !.split = TRUE], Record("y", FALSE), Record("x", FALSE)>>, 2, 1)

HedgedPass ==
  Outcome(<<[Record("z", TRUE) EXCEPT !.hedged = TRUE], Record("y", TRUE),
            [Record("x", FALSE) EXCEPT !.judged = FALSE]>>, 1, 3)

DisagreedFail ==
  [Outcome(<<[Record("z", FALSE) EXCEPT !.checked = TRUE]>>, 1, 1) EXCEPT !.complete = FALSE]

SomeOutcomes == {SplitOverOneResponse, HedgedPass, DisagreedFail}

(* The runs are alike, and no property tells them apart. *)
Alike == Permutations(Run)

(***************************************************************************)
(* Once two commands wrote the file at once nothing but the runs' own      *)
(* lists is held to anything: such a state is followed in the first        *)
(* session at the desk only.                                               *)
(***************************************************************************)
CollidedEarly == collided => sessions <= 1
=============================================================================
