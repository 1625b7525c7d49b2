------------------------------- MODULE MCJury -------------------------------
(***************************************************************************)
(* Instances of Jury for TLC.                                              *)
(***************************************************************************)
EXTENDS Jury, TLC

CONSTANTS a, b, c, v1, v2, v3

(* Three votes on one attempt, or one on each of three. *)
ThreeAttempts == {a, b, c}
ThreeVotes == {v1, v2, v3}
OneVote == {v1}
OneAttempt == {a}

(* Nothing tells attempts apart but their content, which a state gives them. *)
Interchangeable == Permutations(ThreeAttempts)

(* The verdict cache of any earlier run. *)
AnyCache == [Content -> {"pass", "fail", "none"}]
=============================================================================
